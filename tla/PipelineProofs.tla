--------------------------- MODULE PipelineProofs ---------------------------
(***************************************************************************)
(* What the chunker and the cleaner make of a text, for every text, every  *)
(* vocabulary and all limits.                                              *)
(*                                                                         *)
(* A span the chunker makes is a quotation, one of Cuts(text).  Each step  *)
(* is shown to keep its spans Laid in the span it was given: in order,     *)
(* without an overlap, and with nothing but whitespace between them.  The  *)
(* splitting and the packing even Tile it: they leave nothing out, and so  *)
(* the parts of a packed chunk joined are again a quotation.  That what is *)
(* left fits follows from the last step alone, whatever the packing and    *)
(* the search for a window believed about the counts.                      *)
(*                                                                         *)
(* The cleaner makes a text out of a text, and what it says is followed    *)
(* through it.  The gist of a line is what of it is more than spaces, list *)
(* markers and page numbers; the core of a text is the gists of its lines  *)
(* that have one, each behind a newline.  Every step on the lines of prose *)
(* keeps the core, but for two: a word broken at a line end is joined, so  *)
(* that the cores before and after are of the same units (Sim), and the    *)
(* headers, footers and contents in CliBatchProofs.                        *)
(***************************************************************************)
EXTENDS Pipeline, Wording, SelectionProofs
-----------------------------------------------------------------------------
(* Sequences of sequences.                                                  *)

\* Sequences with the same elements are the same.
LEMMA SameSequence ==
    ASSUME NEW T, NEW s \in Seq(T), NEW t \in Seq(T), Len(s) = Len(t), \A i \in 1 .. Len(s) : s[i] = t[i]
    PROVE  s = t
<1>1. s = [i \in 1 .. Len(s) |-> s[i]] /\ t = [i \in 1 .. Len(t) |-> t[i]]
  OBVIOUS
<1> QED
  BY ONLY <1>1, Len(s) = Len(t), \A i \in 1 .. Len(s) : s[i] = t[i]

\* f has at k the first k sequences joined.
Joins(f, T, seqs) ==
    /\ f \in [0 .. Len(seqs) -> Seq(T)]
    /\ f[0] = <<>>
    /\ \A k \in 1 .. Len(seqs) : f[k] = f[k - 1] \o seqs[k]

\* FlattenSeq joins one sequence after the other.
LEMMA FlattenSteps ==
    ASSUME NEW T, NEW seqs \in Seq(Seq(T))
    PROVE  \E f : Joins(f, T, seqs) /\ FlattenSeq(seqs) = f[Len(seqs)]
<1> DEFINE n == Len(seqs)
           Body(f) == [i \in 1 .. Len(seqs) |-> IF i = 1 THEN seqs[i] ELSE f[i - 1] \o seqs[i]]
           F == CHOOSE f : f = Body(f)
           h == [p \in (1 .. n) \X Seq(T) |-> p[2] \o seqs[p[1]]]
<1>1. n \in Nat /\ <<>> \in Seq(T) /\ \A k \in 1 .. n : seqs[k] \in Seq(T)
  OBVIOUS
<1>2. \A k \in 1 .. n : \A v \in Seq(T) : h[<<k, v>>] = v \o seqs[k]
  OBVIOUS
<1> HIDE DEF n, h
<1>3. Steps(h, 1 .. n, Seq(T))
  <2>1. ASSUME NEW k \in 1 .. n, NEW v \in Seq(T) PROVE h[<<k, v>>] \in Seq(T)
    <3>1. v \o seqs[k] \in Seq(T)
      BY <1>1
    <3> QED
      BY <1>2, <3>1
  <2> QED
    BY <2>1 DEF Steps
<1>4. PICK f : Rises(f, n, Seq(T), <<>>, h)
  BY ONLY <1>1, <1>3, Rising
<1>5. f \in [0 .. n -> Seq(T)] /\ f[0] = <<>>
  BY <1>4 DEF Rises
<1>6. \A k \in 1 .. n : f[k] = f[k - 1] \o seqs[k]
  <2> SUFFICES ASSUME NEW k \in 1 .. n PROVE f[k] = f[k - 1] \o seqs[k]
    OBVIOUS
  <2>1. f[k - 1] \in Seq(T) /\ f[k] = h[<<k, f[k - 1]>>]
    BY <1>1, <1>4 DEF Rises
  <2> QED
    BY <1>2, <2>1
<1>7. Joins(f, T, seqs)
  BY <1>5, <1>6 DEF Joins, n
<1>8. CASE n = 0
  BY <1>5, <1>7, <1>8 DEF FlattenSeq, n
<1>9. CASE n # 0
  <2> DEFINE g == [k \in 1 .. n |-> f[k]]
  <2>1. g = Body(g)
    <3>1. ASSUME NEW k \in 1 .. n PROVE g[k] = Body(g)[k]
      <4>1. f[k] = f[k - 1] \o seqs[k] /\ seqs[k] \in Seq(T)
        BY <1>1, <1>6
      <4>2. CASE k = 1
        <5>1. g[k] = f[k]
          OBVIOUS
        <5>2. Body(g)[k] = seqs[k]
          BY <4>2 DEF n
        <5> HIDE DEF g, Body
        <5>3. f[k - 1] = <<>>
          BY <1>5, <4>2
        <5> QED
          BY <4>1, <5>1, <5>2, <5>3
      <4>3. CASE k # 1
        <5>1. k - 1 \in 1 .. n
          BY <1>1, <4>3
        <5>2. g[k - 1] = f[k - 1] /\ Body(g)[k] = g[k - 1] \o seqs[k]
          BY <4>3, <5>1 DEF n
        <5> QED
          BY <4>1, <5>2
      <4> QED
        BY <4>2, <4>3
    <3>2. g = [k \in 1 .. n |-> g[k]] /\ Body(g) = [k \in 1 .. n |-> Body(g)[k]]
      BY DEF n
    <3> HIDE DEF Body, g
    <3> QED
      BY <3>1, <3>2
  <2>2. F = Body(F)
    BY <2>1
  <2>3. FlattenSeq(seqs) = F[n]
    BY <1>9 DEF FlattenSeq, n
  <2> HIDE DEF F
  <2>4. F = [i \in 1 .. n |-> IF i = 1 THEN seqs[i] ELSE F[i - 1] \o seqs[i]]
    BY <2>2 DEF n
  <2> HIDE DEF Body
  <2> DEFINE S == {k \in Int : k # 0 => F[k] = f[k]}
  <2>5. 0 \in S
    OBVIOUS
  <2>6. ASSUME NEW k \in 1 .. n, k - 1 \in S PROVE k \in S
    <3>1. f[k] = f[k - 1] \o seqs[k] /\ seqs[k] \in Seq(T)
      BY <1>1, <1>6
    <3>2. CASE k = 1
      <4>1. F[k] = seqs[k] /\ f[k - 1] = <<>>
        BY <1>5, <2>4, <3>2
      <4>2. F[k] = f[k]
        BY <3>1, <4>1
      <4> QED
        BY <4>2
    <3>3. CASE k # 1
      <4>1. F[k] = F[k - 1] \o seqs[k]
        BY <2>4, <3>3
      <4>2. F[k - 1] = f[k - 1]
        BY <2>6, <3>3
      <4>3. F[k] = f[k]
        BY <3>1, <4>1, <4>2
      <4> QED
        BY <4>3
    <3> QED
      BY <3>2, <3>3
  <2> HIDE DEF S
  <2>7. \A k \in 0 .. n : k \in S
    BY ONLY <1>1, <2>5, <2>6, Forwards
  <2>8. F[n] = f[n]
    BY <1>1, <1>9, <2>7 DEF S
  <2> QED
    BY <1>7, <2>3, <2>8 DEF n
<1> QED
  BY <1>8, <1>9

\* Joined sequences are a sequence of the same things.
LEMMA FlattenSequence ==
    ASSUME NEW T, NEW seqs \in Seq(Seq(T))
    PROVE  FlattenSeq(seqs) \in Seq(T)
<1>1. PICK f : Joins(f, T, seqs) /\ FlattenSeq(seqs) = f[Len(seqs)]
  BY FlattenSteps
<1> QED
  BY <1>1 DEF Joins

\* Joins, for properties that go from one sequence to the next: what holds of nothing
\* and still holds with one more sequence holds of all of them joined.
LEMMA FlattenInduction ==
    ASSUME NEW T, NEW seqs \in Seq(Seq(T)), NEW P,
           <<0, <<>> >> \in P,
           \A k \in 1 .. Len(seqs), v \in Seq(T) : <<k - 1, v>> \in P => <<k, v \o seqs[k]>> \in P
    PROVE  <<Len(seqs), FlattenSeq(seqs)>> \in P
<1>1. PICK f : Joins(f, T, seqs) /\ FlattenSeq(seqs) = f[Len(seqs)]
  BY FlattenSteps
<1> DEFINE n == Len(seqs)
           S == {k \in Int : <<k, f[k]>> \in P}
<1>2. n \in Nat
  OBVIOUS
<1>3. 0 \in S
  BY <1>1 DEF Joins
<1>4. ASSUME NEW k \in 1 .. n, k - 1 \in S PROVE k \in S
  <2>1. f \in [0 .. n -> Seq(T)] /\ f[k] = f[k - 1] \o seqs[k]
    BY <1>1 DEF Joins
  <2>2. <<k - 1, f[k - 1]>> \in P
    BY <1>4
  <2>3. f[k - 1] \in Seq(T)
    <3> HIDE DEF n
    <3>1. k - 1 \in 0 .. n
      BY <1>2
    <3> QED
      BY ONLY <2>1, <3>1
  <2>4. <<k, f[k - 1] \o seqs[k]>> \in P
    BY <2>2, <2>3
  <2>5. <<k, f[k]>> \in P
    BY <2>1, <2>4
  <2> QED
    BY <2>5
<1> HIDE DEF S, n
<1>5. \A k \in 0 .. n : k \in S
  BY ONLY <1>2, <1>3, <1>4, Forwards
<1> QED
  BY <1>1, <1>2, <1>5 DEF S, n
-----------------------------------------------------------------------------
(* Quotations from a text, and sequences of them.                           *)

\* What lies between two offsets of a text.
LEMMA SliceOf ==
    ASSUME NEW A, NEW src \in Seq(A), NEW a \in Nat, NEW b \in Nat, a <= b, b <= Len(src)
    PROVE  /\ Slice(src, a, b) \in Seq(A) /\ Len(Slice(src, a, b)) = b - a
           /\ \A i \in 1 .. b - a : Slice(src, a, b)[i] = src[a + i]
BY DEF Slice

\* The spans of src: each is a quotation from it.
Offsets(src) == {p \in (0 .. Len(src)) \X (0 .. Len(src)) : p[1] <= p[2]}
Cuts(src)    == {Span(Slice(src, p[1], p[2]), p[1]) : p \in Offsets(src)}

\* A quotation is a span, and has its offsets.
LEMMA CutMade ==
    ASSUME NEW A, NEW src \in Seq(A), NEW a \in Nat, NEW b \in Nat, a <= b, b <= Len(src)
    PROVE  /\ Span(Slice(src, a, b), a) \in Cuts(src)
           /\ Span(Slice(src, a, b), a).text = Slice(src, a, b)
           /\ Span(Slice(src, a, b), a).start = a /\ Span(Slice(src, a, b), a).end = b
<1>1. a + Len(Slice(src, a, b)) = b
  <2>1. Len(Slice(src, a, b)) = b - a
    BY SliceOf
  <2> QED
    BY <2>1
<1>2. <<a, b>> \in Offsets(src)
  BY DEF Offsets
<1>3. Span(Slice(src, a, b), a) \in Cuts(src)
  BY <1>2 DEF Cuts
<1> QED
  BY <1>1, <1>3 DEF Span

\* What a span is.
LEMMA CutIs ==
    ASSUME NEW A, NEW src \in Seq(A), NEW sp \in Cuts(src)
    PROVE  /\ sp.start \in Nat /\ sp.end \in Nat /\ sp.start <= sp.end /\ sp.end <= Len(src)
           /\ sp.text = Slice(src, sp.start, sp.end) /\ sp = Span(sp.text, sp.start)
           /\ sp.text \in Seq(A) /\ Len(sp.text) = sp.end - sp.start
           /\ \A i \in 1 .. Len(sp.text) : sp.text[i] = src[sp.start + i]
<1>1. PICK a \in 0 .. Len(src), b \in 0 .. Len(src) : a <= b /\ sp = Span(Slice(src, a, b), a)
  BY DEF Cuts, Offsets
<1>2. a \in Nat /\ b \in Nat /\ a <= b /\ b <= Len(src)
  BY <1>1
<1>3. sp.text = Slice(src, a, b) /\ sp.start = a /\ sp.end = b
  BY <1>1, <1>2, CutMade
<1> QED
  BY <1>1, <1>2, <1>3, SliceOf

\* Spans that follow one another from a to b, and between them have everything of src
\* that is not blank.
Laid(spans, src, a, b) ==
    /\ spans \in Seq(Cuts(src))
    /\ \A n \in 1 .. Len(spans) : a <= spans[n].start /\ spans[n].end <= b
    /\ \A m, n \in 1 .. Len(spans) : m < n => spans[m].end <= spans[n].start
    /\ \A i \in a + 1 .. b : src[i] \in Whitespace
                             \/ \E n \in 1 .. Len(spans) : spans[n].start < i /\ i <= spans[n].end

\* Spans without a gap.
Tight(spans, a, b) ==
    /\ spans = <<>> => a = b
    /\ spans # <<>> => spans[1].start = a /\ spans[Len(spans)].end = b
    /\ \A n \in 1 .. Len(spans) - 1 : spans[n].end = spans[n + 1].start

Tiles(spans, src, a, b) == Laid(spans, src, a, b) /\ Tight(spans, a, b)

\* The positions of two sequences behind one another.
LEMMA ConcatIs ==
    ASSUME NEW T, NEW s \in Seq(T), NEW t \in Seq(T)
    PROVE  /\ s \o t \in Seq(T) /\ Len(s \o t) = Len(s) + Len(t) /\ Len(s) \in Nat /\ Len(t) \in Nat
           /\ \A n \in 1 .. Len(s) : (s \o t)[n] = s[n]
           /\ \A n \in 1 .. Len(t) : (s \o t)[Len(s) + n] = t[n]
           /\ \A n \in 1 .. Len(s \o t) : n \in 1 .. Len(s) \/ (n - Len(s) \in 1 .. Len(t)
                                                               /\ (s \o t)[n] = t[n - Len(s)])
OBVIOUS

\* An element before a sequence.
LEMMA Prefixed ==
    ASSUME NEW T, NEW x \in T, NEW t \in Seq(T)
    PROVE  /\ <<x>> \o t \in Seq(T) /\ Len(<<x>> \o t) = Len(t) + 1
           /\ DOMAIN (<<x>> \o t) = 1 .. Len(t) + 1
           /\ (<<x>> \o t)[1] = x
           /\ \A k \in 1 .. Len(t) : (<<x>> \o t)[k + 1] = t[k]
OBVIOUS

\* Spans from a to b and those from b to c are spans from a to c.
LEMMA LaidConcat ==
    ASSUME NEW A, NEW src \in Seq(A), NEW a \in Int, NEW b \in Int, NEW c \in Int, a <= b, b <= c,
           NEW s, NEW t, Laid(s, src, a, b), Laid(t, src, b, c)
    PROVE  Laid(s \o t, src, a, c)
<1> DEFINE u == s \o t
<1>1. s \in Seq(Cuts(src)) /\ t \in Seq(Cuts(src))
  BY DEF Laid
<1>2. /\ u \in Seq(Cuts(src)) /\ Len(u) = Len(s) + Len(t) /\ Len(s) \in Nat /\ Len(t) \in Nat
      /\ \A n \in 1 .. Len(s) : u[n] = s[n]
      /\ \A n \in 1 .. Len(t) : u[Len(s) + n] = t[n]
      /\ \A n \in 1 .. Len(u) : n \in 1 .. Len(s) \/ (n - Len(s) \in 1 .. Len(t) /\ u[n] = t[n - Len(s)])
  BY <1>1, ConcatIs
<1> HIDE DEF u
<1>3. /\ \A n \in 1 .. Len(s) : s[n].start \in Int /\ s[n].end \in Int
      /\ \A n \in 1 .. Len(t) : t[n].start \in Int /\ t[n].end \in Int
  <2>1. \A n \in 1 .. Len(s) : s[n] \in Cuts(src)
    BY <1>1
  <2>2. \A n \in 1 .. Len(t) : t[n] \in Cuts(src)
    BY <1>1
  <2> QED
    BY <2>1, <2>2, CutIs
<1>4. \A n \in 1 .. Len(u) : a <= u[n].start /\ u[n].end <= c
  <2> SUFFICES ASSUME NEW n \in 1 .. Len(u) PROVE a <= u[n].start /\ u[n].end <= c
    OBVIOUS
  <2>1. CASE n \in 1 .. Len(s)
    <3>1. u[n] = s[n] /\ a <= s[n].start /\ s[n].end <= b
      BY <1>2, <2>1 DEF Laid
    <3> QED
      BY <1>3, <2>1, <3>1
  <2>2. CASE n - Len(s) \in 1 .. Len(t) /\ u[n] = t[n - Len(s)]
    <3>1. b <= t[n - Len(s)].start /\ t[n - Len(s)].end <= c
      BY <2>2 DEF Laid
    <3> QED
      BY <1>3, <2>2, <3>1
  <2> QED
    BY <1>2, <2>1, <2>2
<1>5. \A m, n \in 1 .. Len(u) : m < n => u[m].end <= u[n].start
  <2> SUFFICES ASSUME NEW m \in 1 .. Len(u), NEW n \in 1 .. Len(u), m < n PROVE u[m].end <= u[n].start
    OBVIOUS
  <2>1. CASE n \in 1 .. Len(s)
    <3>1. m \in 1 .. Len(s) /\ u[m] = s[m] /\ u[n] = s[n]
      BY <1>2, <2>1
    <3> QED
      BY <2>1, <3>1 DEF Laid
  <2>2. CASE m \in 1 .. Len(s) /\ n - Len(s) \in 1 .. Len(t) /\ u[n] = t[n - Len(s)]
    <3>1. u[m] = s[m] /\ s[m].end <= b /\ b <= t[n - Len(s)].start
      BY <1>2, <2>2 DEF Laid
    <3> QED
      BY SMTT(30), <1>3, <2>2, <3>1
  <2>3. CASE /\ m - Len(s) \in 1 .. Len(t) /\ u[m] = t[m - Len(s)]
             /\ n - Len(s) \in 1 .. Len(t) /\ u[n] = t[n - Len(s)]
    <3>1. m - Len(s) < n - Len(s)
      BY <1>2
    <3> QED
      BY <2>3, <3>1 DEF Laid
  <2>4. n \in 1 .. Len(s) \/ (n - Len(s) \in 1 .. Len(t) /\ u[n] = t[n - Len(s)])
    BY <1>2
  <2>5. m \in 1 .. Len(s) \/ (m - Len(s) \in 1 .. Len(t) /\ u[m] = t[m - Len(s)])
    BY <1>2
  <2> QED
    BY <2>1, <2>2, <2>3, <2>4, <2>5
<1>6. \A i \in a + 1 .. c : src[i] \in Whitespace
                            \/ \E n \in 1 .. Len(u) : u[n].start < i /\ i <= u[n].end
  <2> SUFFICES ASSUME NEW i \in a + 1 .. c, src[i] \notin Whitespace
               PROVE  \E n \in 1 .. Len(u) : u[n].start < i /\ i <= u[n].end
    OBVIOUS
  <2>1. CASE i <= b
    <3>1. i \in a + 1 .. b
      BY <2>1
    <3>2. PICK n \in 1 .. Len(s) : s[n].start < i /\ i <= s[n].end
      BY <3>1 DEF Laid
    <3>3. n \in 1 .. Len(u) /\ u[n] = s[n]
      BY <1>2
    <3> QED
      BY <3>2, <3>3
  <2>2. CASE ~ (i <= b)
    <3>1. i \in b + 1 .. c
      BY <2>2
    <3>2. PICK n \in 1 .. Len(t) : t[n].start < i /\ i <= t[n].end
      BY <3>1 DEF Laid
    <3>3. Len(s) + n \in 1 .. Len(u) /\ u[Len(s) + n] = t[n]
      BY <1>2
    <3> QED
      BY <3>2, <3>3
  <2> QED
    BY <2>1, <2>2
<1> QED
  BY <1>2, <1>4, <1>5, <1>6 DEF Laid, u

\* The same without a gap.
LEMMA TightConcat ==
    ASSUME NEW T, NEW s \in Seq(T), NEW t \in Seq(T), NEW a, NEW b, NEW c, Tight(s, a, b), Tight(t, b, c)
    PROVE  Tight(s \o t, a, c)
<1> DEFINE u == s \o t
<1>1. CASE t = <<>>
  <2>1. u = s /\ b = c
    BY <1>1 DEF Tight
  <2> QED
    BY <2>1 DEF Tight
<1>2. CASE s = <<>>
  <2>1. u = t /\ a = b
    BY <1>2 DEF Tight
  <2> QED
    BY <2>1 DEF Tight
<1>3. CASE s # <<>> /\ t # <<>>
  <2>1. /\ u \in Seq(T) /\ Len(u) = Len(s) + Len(t) /\ Len(s) \in Nat \ {0} /\ Len(t) \in Nat \ {0}
        /\ \A n \in 1 .. Len(s) : u[n] = s[n]
        /\ \A n \in 1 .. Len(t) : u[Len(s) + n] = t[n]
    BY <1>3
  <2> HIDE DEF u
  <2>2. u # <<>> /\ u[1] = s[1] /\ u[Len(u)] = t[Len(t)]
    BY <2>1
  <2>3. s[1].start = a /\ s[Len(s)].end = b /\ t[1].start = b /\ t[Len(t)].end = c
    BY <1>3 DEF Tight
  <2>4. \A n \in 1 .. Len(u) - 1 : u[n].end = u[n + 1].start
    <3> SUFFICES ASSUME NEW n \in 1 .. Len(u) - 1 PROVE u[n].end = u[n + 1].start
      OBVIOUS
    <3>1. CASE n \in 1 .. Len(s) - 1
      <4>1. u[n] = s[n] /\ u[n + 1] = s[n + 1]
        BY <2>1, <3>1
      <4> QED
        BY <3>1, <4>1 DEF Tight
    <3>2. CASE n = Len(s)
      <4>1. u[n] = s[Len(s)] /\ u[n + 1] = t[1]
        BY <2>1, <3>2
      <4> QED
        BY <2>3, <4>1
    <3>3. CASE n > Len(s)
      <4> DEFINE m == n - Len(s)
      <4>1. m \in 1 .. Len(t) - 1 /\ n = Len(s) + m /\ n + 1 = Len(s) + (m + 1)
        BY <2>1, <3>3
      <4> HIDE DEF m
      <4>a. m \in 1 .. Len(t) /\ m + 1 \in 1 .. Len(t)
        BY <2>1, <4>1
      <4>2. u[n] = t[m] /\ u[n + 1] = t[m + 1]
        BY <2>1, <4>1, <4>a
      <4> QED
        BY <4>1, <4>2 DEF Tight
    <3> QED
      BY <2>1, <3>1, <3>2, <3>3
  <2>5. Tight(u, a, c)
    BY <2>2, <2>3, <2>4 DEF Tight
  <2> QED
    BY <2>5 DEF u
<1> QED
  BY <1>1, <1>2, <1>3

\* Both.
LEMMA TilesConcat ==
    ASSUME NEW A, NEW src \in Seq(A), NEW a \in Int, NEW b \in Int, NEW c \in Int, a <= b, b <= c,
           NEW s, NEW t, Tiles(s, src, a, b), Tiles(t, src, b, c)
    PROVE  Tiles(s \o t, src, a, c)
<1>1. s \in Seq(Cuts(src)) /\ t \in Seq(Cuts(src)) /\ Tight(s, a, b) /\ Tight(t, b, c)
  BY DEF Tiles, Laid
<1>2. Tight(s \o t, a, c)
  BY <1>1, TightConcat
<1>3. Laid(s \o t, src, a, c)
  BY LaidConcat DEF Tiles
<1> QED
  BY <1>2, <1>3 DEF Tiles

\* Spans that end before blanks are laid as far as the blanks go.
LEMMA LaidGap ==
    ASSUME NEW src, NEW a \in Int, NEW b \in Int, NEW c \in Int, b <= c,
           NEW s, Laid(s, src, a, b), \A n \in 1 .. Len(s) : s[n].end \in Int,
           \A i \in b + 1 .. c : src[i] \in Whitespace
    PROVE  Laid(s, src, a, c)
<1>1. \A n \in 1 .. Len(s) : s[n].end <= c
  <2> SUFFICES ASSUME NEW n \in 1 .. Len(s) PROVE s[n].end <= c
    OBVIOUS
  <2>1. s[n].end <= b /\ s[n].end \in Int
    BY DEF Laid
  <2> QED
    BY <2>1
<1>2. \A i \in a + 1 .. c : src[i] \in Whitespace
                            \/ \E n \in 1 .. Len(s) : s[n].start < i /\ i <= s[n].end
  <2> SUFFICES ASSUME NEW i \in a + 1 .. c, src[i] \notin Whitespace
               PROVE  \E n \in 1 .. Len(s) : s[n].start < i /\ i <= s[n].end
    OBVIOUS
  <2>1. i \in a + 1 .. b
    OBVIOUS
  <2> QED
    BY <2>1 DEF Laid
<1> QED
  BY <1>1, <1>2 DEF Laid

\* The spans that a sequence of spans is cut into are as the spans are.
LEMMA FlattenLaid ==
    ASSUME NEW A, NEW src \in Seq(A), NEW a \in Int, NEW b \in Int, a <= b,
           NEW spans, Laid(spans, src, a, b),
           NEW seqs \in Seq(Seq(Cuts(src))), Len(seqs) = Len(spans),
           \A n \in 1 .. Len(spans) : Laid(seqs[n], src, spans[n].start, spans[n].end)
    PROVE  Laid(FlattenSeq(seqs), src, a, b)
<1> DEFINE N == Len(spans)
           End(k) == IF k = 0 THEN a ELSE spans[k].end
           P == {q \in (0 .. N) \X Seq(Cuts(src)) : Laid(q[2], src, a, End(q[1]))}
<1>1. N \in Nat /\ Len(seqs) = N
  BY DEF Laid
<1>2. ASSUME NEW n \in 1 .. N
      PROVE  /\ spans[n].start \in Int /\ spans[n].end \in Int /\ spans[n].start <= spans[n].end
             /\ a <= spans[n].start /\ spans[n].end <= b
  <2>1. spans[n] \in Cuts(src)
    BY DEF Laid
  <2>2. spans[n].start \in Nat /\ spans[n].end \in Nat /\ spans[n].start <= spans[n].end
    BY <2>1, CutIs
  <2> QED
    BY <2>2 DEF Laid
<1>3. ASSUME NEW m \in 1 .. N, NEW n \in 1 .. N, m < n PROVE spans[m].end <= spans[n].start
  BY <1>3 DEF Laid
<1>4. ASSUME NEW i \in a + 1 .. b, src[i] \notin Whitespace
      PROVE  \E n \in 1 .. N : spans[n].start < i /\ i <= spans[n].end
  BY <1>4 DEF Laid
<1>5. ASSUME NEW v \in Seq(Cuts(src)) PROVE \A n \in 1 .. Len(v) : v[n].start \in Int /\ v[n].end \in Int
  <2>1. \A n \in 1 .. Len(v) : v[n] \in Cuts(src)
    OBVIOUS
  <2> QED
    BY <2>1, CutIs
<1> HIDE DEF N
<1>6. \A k \in 0 .. N : End(k) \in Int /\ a <= End(k) /\ End(k) <= b
  <2> SUFFICES ASSUME NEW k \in 0 .. N PROVE End(k) \in Int /\ a <= End(k) /\ End(k) <= b
    OBVIOUS
  <2>1. CASE k = 0
    BY <2>1
  <2>2. CASE k # 0
    <3>1. k \in 1 .. N
      BY <1>1, <2>2
    <3>2. spans[k].start \in Int /\ spans[k].end \in Int /\ spans[k].start <= spans[k].end
      BY <1>2, <3>1
    <3>3. a <= spans[k].start /\ spans[k].end <= b
      BY <1>2, <3>1
    <3> QED
      BY <2>2, <3>2, <3>3
  <2> QED
    BY <2>1, <2>2
<1>7. <<0, <<>> >> \in P
  <2>1. Laid(<<>>, src, a, a)
    BY DEF Laid
  <2>2. End(0) = a /\ <<>> \in Seq(Cuts(src)) /\ 0 \in 0 .. N
    BY <1>1
  <2> HIDE DEF End
  <2> QED
    BY <2>1, <2>2
<1>8. ASSUME NEW k \in 1 .. N, NEW v \in Seq(Cuts(src)), <<k - 1, v>> \in P
      PROVE  <<k, v \o seqs[k]>> \in P
  <2>1. Laid(v, src, a, End(k - 1)) /\ k - 1 \in 0 .. N
    BY <1>8
  <2>2. /\ spans[k].start \in Int /\ spans[k].end \in Int /\ spans[k].start <= spans[k].end
        /\ a <= spans[k].start /\ spans[k].end <= b
    BY <1>2
  <2>3. End(k - 1) \in Int /\ a <= End(k - 1) /\ End(k) = spans[k].end
    BY <1>1, <1>6, <2>1
  <2> HIDE DEF End, P
  <2>4. End(k - 1) <= spans[k].start
    <3>1. CASE k = 1
      BY <2>2, <3>1 DEF End
    <3>2. CASE k # 1
      <4>1. k - 1 \in 1 .. N /\ k - 1 < k
        BY <1>1, <3>2
      <4> QED
        BY <1>3, <4>1 DEF End
    <3> QED
      BY <3>1, <3>2
  <2>5. ASSUME NEW i \in End(k - 1) + 1 .. spans[k].start PROVE src[i] \in Whitespace
    <3> SUFFICES ASSUME src[i] \notin Whitespace PROVE FALSE
      OBVIOUS
    <3>1. i \in a + 1 .. b
      BY <2>2, <2>3
    <3>2. PICK n \in 1 .. N : spans[n].start < i /\ i <= spans[n].end
      BY <1>4, <3>1
    <3>3. spans[n].start \in Int /\ spans[n].end \in Int /\ spans[n].start <= spans[n].end
      BY <1>2
    <3>4. CASE n >= k
      <4>1. spans[k].start <= spans[n].start
        <5>1. CASE n = k
          BY <2>2, <5>1
        <5>2. CASE n # k
          <6>1. spans[k].end <= spans[n].start
            BY <1>1, <1>3, <3>4, <5>2
          <6> QED
            BY ONLY <2>2, <3>3, <6>1
        <5> QED
          BY <5>1, <5>2
      <4>2. i \in Int /\ i <= spans[k].start
        BY <2>2, <2>3
      <4> QED
        BY ONLY <2>2, <3>2, <3>3, <4>1, <4>2
    <3>5. CASE n < k
      <4>1. k - 1 \in 1 .. N /\ End(k - 1) = spans[k - 1].end
        BY <1>1, <3>5 DEF End
      <4>2. spans[n].end <= spans[k - 1].end
        <5>1. CASE n = k - 1
          BY <3>3, <5>1
        <5>2. CASE n # k - 1
          <6>1. n < k - 1
            BY <3>5, <5>2
          <6>2. spans[n].end <= spans[k - 1].start
            BY <1>3, <4>1, <6>1
          <6>3. spans[k - 1].start \in Int /\ spans[k - 1].end \in Int
                /\ spans[k - 1].start <= spans[k - 1].end
            BY <1>2, <4>1
          <6> QED
            BY ONLY <3>3, <6>2, <6>3
        <5> QED
          BY <5>1, <5>2
      <4> QED
        BY ONLY <2>2, <2>3, i \in End(k - 1) + 1 .. spans[k].start, <3>2, <3>3, <4>1, <4>2
    <3> QED
      BY <1>1, <3>4, <3>5
  <2>6. Laid(v, src, a, spans[k].start)
    BY <1>5, <2>1, <2>2, <2>3, <2>4, <2>5, LaidGap
  <2>7. Laid(seqs[k], src, spans[k].start, spans[k].end)
    BY DEF N
  <2>8. Laid(v \o seqs[k], src, a, End(k))
    BY <2>2, <2>3, <2>6, <2>7, LaidConcat
  <2>9. seqs[k] \in Seq(Cuts(src))
    BY <1>1
  <2>10. v \o seqs[k] \in Seq(Cuts(src)) /\ k \in 0 .. N
    BY <2>9
  <2> QED
    BY <2>8, <2>10 DEF P
<1> HIDE DEF P
<1>9. <<Len(seqs), FlattenSeq(seqs)>> \in P
  <2>1. \A k \in 1 .. Len(seqs), v \in Seq(Cuts(src)) : <<k - 1, v>> \in P => <<k, v \o seqs[k]>> \in P
    BY <1>1, <1>8
  <2> QED
    BY ONLY <1>7, <2>1, seqs \in Seq(Seq(Cuts(src))), FlattenInduction
<1> DEFINE v == FlattenSeq(seqs)
<1> HIDE DEF v
<1>10. v \in Seq(Cuts(src)) /\ Laid(v, src, a, End(N))
  BY <1>1, <1>9 DEF P, v
<1>11. ASSUME NEW i \in End(N) + 1 .. b PROVE src[i] \in Whitespace
  <2> SUFFICES ASSUME src[i] \notin Whitespace PROVE FALSE
    OBVIOUS
  <2>0. End(N) \in Int /\ a <= End(N) /\ End(N) <= b
    BY <1>1, <1>6
  <2>1. i \in a + 1 .. b
    BY <2>0
  <2>2. PICK n \in 1 .. N : spans[n].start < i /\ i <= spans[n].end
    BY <1>4, <2>1
  <2>3. /\ spans[n].end \in Int /\ spans[N].start \in Int /\ spans[N].end \in Int
        /\ spans[N].start <= spans[N].end /\ End(N) = spans[N].end
    BY <1>1, <1>2
  <2>4. spans[n].end <= spans[N].end
    <3>1. CASE n = N
      BY <2>3, <3>1
    <3>2. CASE n # N
      <4>1. n < N /\ N \in 1 .. N
        BY <1>1, <3>2
      <4>2. spans[n].end <= spans[N].start
        BY <1>3, <4>1
      <4> QED
        BY <2>3, <4>2
    <3> QED
      BY <3>1, <3>2
  <2> HIDE DEF End
  <2> QED
    BY <2>0, <2>2, <2>3, <2>4
<1>12. Laid(v, src, a, b)
  <2>1. End(N) \in Int /\ End(N) <= b
    BY <1>1, <1>6
  <2> HIDE DEF End
  <2> QED
    BY <1>5, <1>10, <1>11, <2>1, LaidGap
<1> QED
  BY <1>12 DEF v

\* The spans that spans without a gap are cut into have no gap if none of the cuts has one.
LEMMA FlattenTight ==
    ASSUME NEW T, NEW a, NEW b, NEW spans, Len(spans) \in Nat, spans = <<>> <=> Len(spans) = 0,
           Tight(spans, a, b),
           NEW seqs \in Seq(Seq(T)), Len(seqs) = Len(spans),
           \A n \in 1 .. Len(spans) : Tight(seqs[n], spans[n].start, spans[n].end)
    PROVE  Tight(FlattenSeq(seqs), a, b)
<1> DEFINE N == Len(spans)
           End(k) == IF k = 0 THEN a ELSE spans[k].end
           P == {q \in (0 .. N) \X Seq(T) : Tight(q[2], a, End(q[1]))}
           v == FlattenSeq(seqs)
<1>1. N \in Nat /\ Len(seqs) = N
  OBVIOUS
<1> HIDE DEF N
<1>2. <<0, <<>> >> \in P
  <2>1. Tight(<<>>, a, a)
    BY DEF Tight
  <2>2. End(0) = a /\ <<>> \in Seq(T) /\ 0 \in 0 .. N
    BY <1>1
  <2> HIDE DEF End
  <2> QED
    BY <2>1, <2>2
<1>3. ASSUME NEW k \in 1 .. N, NEW u \in Seq(T), <<k - 1, u>> \in P
      PROVE  <<k, u \o seqs[k]>> \in P
  <2>1. Tight(u, a, End(k - 1))
    BY <1>3
  <2>2. End(k) = spans[k].end
    BY <1>1
  <2>3. End(k - 1) = spans[k].start
    <3>1. CASE k = 1
      <4>1. spans # <<>>
        BY <1>1, <3>1 DEF N
      <4> QED
        BY <3>1, <4>1 DEF Tight
    <3>2. CASE k # 1
      <4>1. k - 1 \in 1 .. N - 1 /\ (k - 1) + 1 = k
        BY <1>1, <3>2
      <4>2. spans[k - 1].end = spans[(k - 1) + 1].start
        BY <4>1 DEF Tight, N
      <4> QED
        BY <3>2, <4>1, <4>2
    <3> QED
      BY <3>1, <3>2
  <2> HIDE DEF End
  <2>4. Tight(seqs[k], spans[k].start, spans[k].end)
    BY DEF N
  <2>5. seqs[k] \in Seq(T) /\ k \in 0 .. N
    BY <1>1
  <2>6. Tight(u \o seqs[k], a, End(k))
    BY <2>1, <2>2, <2>3, <2>4, <2>5, TightConcat
  <2>7. u \o seqs[k] \in Seq(T)
    BY <2>5
  <2> QED
    BY <2>5, <2>6, <2>7
<1> HIDE DEF P
<1>4. <<Len(seqs), v>> \in P
  <2>1. \A k \in 1 .. Len(seqs), u \in Seq(T) : <<k - 1, u>> \in P => <<k, u \o seqs[k]>> \in P
    BY <1>1, <1>3
  <2> QED
    BY ONLY <1>2, <2>1, seqs \in Seq(Seq(T)), FlattenInduction
<1> HIDE DEF v
<1>5. Tight(v, a, End(N))
  BY <1>1, <1>4 DEF P
<1>6. End(N) = b
  <2>1. CASE N = 0
    BY <2>1 DEF Tight, N
  <2>2. CASE N # 0
    BY <2>2 DEF Tight, N
  <2> QED
    BY <2>1, <2>2
<1> QED
  BY <1>5, <1>6 DEF v

\* Both.
LEMMA FlattenTiles ==
    ASSUME NEW A, NEW src \in Seq(A), NEW a \in Int, NEW b \in Int, a <= b,
           NEW spans, Tiles(spans, src, a, b),
           NEW seqs \in Seq(Seq(Cuts(src))), Len(seqs) = Len(spans),
           \A n \in 1 .. Len(spans) : Tiles(seqs[n], src, spans[n].start, spans[n].end)
    PROVE  Tiles(FlattenSeq(seqs), src, a, b)
<1>1. spans \in Seq(Cuts(src)) /\ Laid(spans, src, a, b) /\ Tight(spans, a, b)
  BY DEF Tiles, Laid
<1>2. Len(spans) \in Nat /\ (spans = <<>> <=> Len(spans) = 0)
  BY <1>1
<1>3. \A n \in 1 .. Len(spans) : Laid(seqs[n], src, spans[n].start, spans[n].end)
  BY DEF Tiles
<1>4. \A n \in 1 .. Len(spans) : Tight(seqs[n], spans[n].start, spans[n].end)
  BY DEF Tiles
<1>5. Laid(FlattenSeq(seqs), src, a, b)
  BY ONLY <1>1, <1>3, FlattenLaid, src \in Seq(A), a \in Int, b \in Int, a <= b,
          seqs \in Seq(Seq(Cuts(src))), Len(seqs) = Len(spans)
<1>6. Tight(FlattenSeq(seqs), a, b)
  BY ONLY <1>1, <1>2, <1>4, FlattenTight, seqs \in Seq(Seq(Cuts(src))), Len(seqs) = Len(spans)
<1> QED
  BY <1>5, <1>6 DEF Tiles

\* One span has no gap.
LEMMA OneTile ==
    ASSUME NEW A, NEW src \in Seq(A), NEW sp \in Cuts(src)
    PROVE  Tiles(<<sp>>, src, sp.start, sp.end)
<1>1. sp.start \in Nat /\ sp.end \in Nat
  BY CutIs
<1>2. <<sp>> \in Seq(Cuts(src)) /\ Len(<<sp>>) = 1 /\ <<sp>>[1] = sp /\ <<sp>> # <<>>
  OBVIOUS
<1> DEFINE u == <<sp>>
<1> HIDE DEF u
<1>3. u \in Seq(Cuts(src)) /\ Len(u) = 1 /\ u[1] = sp /\ u # <<>>
  BY <1>2 DEF u
<1>4. Laid(u, src, sp.start, sp.end)
  BY <1>1, <1>3 DEF Laid
<1>5. Tight(u, sp.start, sp.end)
  BY <1>1, <1>3 DEF Tight
<1> QED
  BY <1>4, <1>5 DEF Tiles, u

\* No span has no gap where there is nothing.
LEMMA NoTile == ASSUME NEW src, NEW a \in Int PROVE Tiles(<<>>, src, a, a)
<1>1. Laid(<<>>, src, a, a)
  BY DEF Laid
<1>2. Tight(<<>>, a, a)
  BY DEF Tight
<1> QED
  BY <1>1, <1>2 DEF Tiles

\* A part of a quotation is a quotation.
LEMMA PartCut ==
    ASSUME NEW A, NEW src \in Seq(A), NEW sp \in Cuts(src),
           NEW i \in Nat, NEW k \in Nat, 1 <= i, i <= k + 1, k <= Len(sp.text)
    PROVE  /\ Part(sp, i, k) \in Cuts(src)
           /\ Part(sp, i, k).start = sp.start + i - 1 /\ Part(sp, i, k).end = sp.start + k
           /\ Part(sp, i, k).text = SubSeq(sp.text, i, k)
<1> DEFINE a == sp.start + i - 1
           b == sp.start + k
<1>1. /\ sp.start \in Nat /\ sp.end \in Nat /\ sp.end <= Len(src) /\ Len(sp.text) = sp.end - sp.start
      /\ sp.text \in Seq(A)
      /\ \A j \in 1 .. Len(sp.text) : sp.text[j] = src[sp.start + j]
  BY CutIs
<1>2. a \in Nat /\ b \in Nat /\ a <= b /\ b <= Len(src)
  BY <1>1
<1>3. SubSeq(sp.text, i, k) = Slice(src, a, b)
  <2> DEFINE u == SubSeq(sp.text, i, k)
             w == Slice(src, a, b)
  <2>1. u \in Seq(A) /\ Len(u) = k - i + 1 /\ \A j \in 1 .. k - i + 1 : u[j] = sp.text[i + j - 1]
    BY <1>1
  <2>2. w \in Seq(A) /\ Len(w) = b - a /\ \A j \in 1 .. b - a : w[j] = src[a + j]
    BY <1>2, SliceOf
  <2> HIDE DEF u, w
  <2>3. \A j \in 1 .. k - i + 1 : u[j] = w[j]
    <3> SUFFICES ASSUME NEW j \in 1 .. k - i + 1 PROVE u[j] = w[j]
      OBVIOUS
    <3>1. i + j - 1 \in 1 .. Len(sp.text) /\ j \in 1 .. b - a
      BY <1>1
    <3>2. u[j] = src[sp.start + (i + j - 1)] /\ w[j] = src[a + j]
      BY <1>1, <2>1, <2>2, <3>1
    <3>3. sp.start + (i + j - 1) = a + j
      BY <1>1
    <3> QED
      BY <3>2, <3>3
  <2>4. Len(u) = Len(w)
    BY <1>1, <2>1, <2>2
  <2>5. \A j \in 1 .. Len(u) : u[j] = w[j]
    BY <1>1, <2>1, <2>3
  <2>6. u = w
    BY ONLY <2>1, <2>2, <2>4, <2>5, SameSequence
  <2> QED
    BY <2>6 DEF u, w
<1>4. Part(sp, i, k) = Span(Slice(src, a, b), a)
  BY <1>3 DEF Part
<1> HIDE DEF a, b
<1>5. /\ Span(Slice(src, a, b), a) \in Cuts(src) /\ Span(Slice(src, a, b), a).text = Slice(src, a, b)
      /\ Span(Slice(src, a, b), a).start = a /\ Span(Slice(src, a, b), a).end = b
  BY <1>2, CutMade
<1> QED
  BY <1>3, <1>4, <1>5 DEF a, b
-----------------------------------------------------------------------------
(* Token windows and pieces at a separator.                                 *)

\* The greatest of some numbers between two others.
LEMMA MaxOf ==
    ASSUME NEW lo \in Int, NEW n \in Int, NEW I \in SUBSET (lo .. n), I # {}
    PROVE  Max(I) \in I /\ \A k \in I : k <= Max(I)
<1> DEFINE T == {n - k : k \in I}
<1>1. T \in SUBSET Nat /\ T # {}
  <2>1. PICK k \in I : TRUE
    OBVIOUS
  <2>2. n - k \in T
    OBVIOUS
  <2>3. \A j \in I : n - j \in Nat
    OBVIOUS
  <2> QED
    BY <2>2, <2>3
<1>2. PICK m \in T : \A k \in T : m <= k
  BY <1>1, Least
<1>3. PICK i \in I : m = n - i
  BY <1>2
<1>4. \A k \in I : i >= k
  <2> SUFFICES ASSUME NEW k \in I PROVE i >= k
    OBVIOUS
  <2>1. m <= n - k
    BY <1>2
  <2> QED
    BY <1>3, <2>1
<1>5. Max(I) \in I /\ \A k \in I : Max(I) >= k
  BY <1>3, <1>4 DEF Max
<1> QED
  BY <1>5

\* The least of some numbers between two others.
LEMMA MinOf ==
    ASSUME NEW lo \in Int, NEW n \in Int, NEW I \in SUBSET (lo .. n), I # {}
    PROVE  Min(I) \in I /\ \A k \in I : Min(I) <= k
<1> DEFINE T == {k - lo : k \in I}
<1>1. T \in SUBSET Nat /\ T # {}
  OBVIOUS
<1>2. PICK m \in T : \A k \in T : m <= k
  BY <1>1, Least
<1>3. PICK i \in I : m = i - lo
  BY <1>2
<1>4. \A k \in I : i <= k
  <2> SUFFICES ASSUME NEW k \in I PROVE i <= k
    OBVIOUS
  <2>1. m <= k - lo
    BY <1>2
  <2> QED
    BY <1>3, <2>1
<1> QED
  BY <1>3, <1>4 DEF Min
-----------------------------------------------------------------------------
(* Scans of a span.                                                         *)

\* What a scan cuts a quotation into has no gap.
LEMMA ScanTiles ==
    ASSUME NEW A, NEW src \in Seq(A), NEW sp \in Cuts(src), NEW n, n = Len(sp.text),
           NEW piece, NEW next, \A i \in 1 .. n : next[i] \in i + 1 .. n + 1,
           \A i \in 1 .. n : piece[i] = <<Part(sp, i, next[i] - 1)>>
    PROVE  Tiles(Scanned(n, piece, next), src, sp.start, sp.end)
<1>1. /\ sp.start \in Nat /\ sp.end \in Nat /\ sp.text \in Seq(A) /\ Len(sp.text) = sp.end - sp.start
      /\ n \in Nat /\ sp.start <= sp.end
  BY CutIs
<1>2. ASSUME NEW i \in 1 .. n
      PROVE  /\ Part(sp, i, next[i] - 1) \in Cuts(src) /\ piece[i] \in Seq(Cuts(src))
             /\ next[i] \in Int /\ i < next[i] /\ next[i] <= n + 1
             /\ Tiles(piece[i], src, sp.start + i - 1, sp.start + next[i] - 1)
  <2> DEFINE k == next[i] - 1
  <2>1. i \in Nat /\ k \in Nat /\ 1 <= i /\ i <= k + 1 /\ k <= Len(sp.text)
        /\ next[i] \in Int /\ i < next[i] /\ next[i] <= n + 1
    BY <1>1
  <2> HIDE DEF k
  <2>2. /\ Part(sp, i, k) \in Cuts(src)
        /\ Part(sp, i, k).start = sp.start + i - 1 /\ Part(sp, i, k).end = sp.start + k
    BY <2>1, PartCut
  <2>3. Tiles(<<Part(sp, i, k)>>, src, sp.start + i - 1, sp.start + k)
    BY <2>2, OneTile
  <2>4. k = next[i] - 1 /\ sp.start + k = sp.start + next[i] - 1
    BY <1>1, <2>1 DEF k
  <2>5. piece[i] = <<Part(sp, i, k)>>
    BY <2>4
  <2> QED
    BY <2>1, <2>2, <2>3, <2>4, <2>5
<1>3. PICK f : Finds(f, Cuts(src), n, piece, next) /\ Scanned(n, piece, next) = f[1]
  <2>1. n \in Nat /\ \A i \in 1 .. n : piece[i] \in Seq(Cuts(src))
    BY <1>1, <1>2
  <2> QED
    BY ONLY <2>1, \A i \in 1 .. n : next[i] \in i + 1 .. n + 1, ScannedSteps
<1> DEFINE S == {i \in Int : Tiles(f[i], src, sp.start + i - 1, sp.end)}
<1>4. ASSUME NEW i \in 1 .. n + 1, \A k \in i + 1 .. n + 1 : k \in S PROVE i \in S
  <2>1. CASE i = n + 1
    <3>1. sp.start + i - 1 = sp.end
      BY <1>1, <2>1
    <3>2. f[i] = <<>>
      BY <1>3, <2>1 DEF Finds
    <3> QED
      BY <1>1, <3>1, <3>2, NoTile
  <2>2. CASE i # n + 1
    <3>1. i \in 1 .. n
      BY <2>2
    <3>2. f[i] = piece[i] \o f[next[i]]
      BY <1>3, <3>1 DEF Finds
    <3>3. next[i] \in Int /\ i < next[i] /\ next[i] <= n + 1
          /\ Tiles(piece[i], src, sp.start + i - 1, sp.start + next[i] - 1)
      BY <1>2, <3>1
    <3>4. Tiles(f[next[i]], src, sp.start + next[i] - 1, sp.end)
      <4>1. next[i] \in i + 1 .. n + 1
        BY <1>1, <3>3
      <4> QED
        BY <1>4, <4>1
    <3> DEFINE a == sp.start + i - 1
               b == sp.start + next[i] - 1
    <3>5. a \in Int /\ b \in Int /\ sp.end \in Int /\ a <= b /\ b <= sp.end
      BY SMTT(30), <1>1, <3>3
    <3>6. Tiles(piece[i] \o f[next[i]], src, a, sp.end)
      <4> HIDE DEF a, b
      <4>1. Tiles(piece[i], src, a, b) /\ Tiles(f[next[i]], src, b, sp.end)
        BY <3>3, <3>4 DEF a, b
      <4> QED
        BY <3>5, <4>1, TilesConcat
    <3>7. i \in Int /\ Tiles(f[i], src, a, sp.end)
      BY <3>2, <3>6
    <3> QED
      BY <3>7
  <2> QED
    BY <2>1, <2>2
<1>5. 1 \in S
  <2> HIDE DEF S
  <2>1. 1 \in Int /\ n + 1 \in Int /\ 1 \in 1 .. n + 1
    BY <1>1
  <2>2. \A i \in 1 .. n + 1 : i \in S
    BY ONLY <1>4, <2>1, Backwards
  <2> QED
    BY <2>1, <2>2
<1>6. sp.start + 1 - 1 = sp.start
  BY <1>1
<1> QED
  BY <1>3, <1>5, <1>6
-----------------------------------------------------------------------------
(* Tokens.                                                                  *)

\* A text has a number of tokens, and an atom is one of them.
LEMMA TokensOf ==
    ASSUME NEW A, NEW text \in Seq(A)
    PROVE  Tokens(text) \in Nat /\ (Len(text) = 1 => Tokens(text) = 1)
<1> DEFINE n == Len(text)
           Matches(i) == {token \in Vocabulary : i + Len(token) - 1 <= Len(text)
                                                 /\ SubSeq(text, i, i + Len(token) - 1) = token}
           Lengths(i) == {1} \cup {Len(token) : token \in Matches(i)}
           Longest(i) == Max(Lengths(i))
           piece == [i \in DOMAIN text |-> <<SubSeq(text, i, i + Longest(i) - 1)>>]
           next == [i \in DOMAIN text |-> i + Longest(i)]
<1>1. n \in Nat /\ DOMAIN text = 1 .. n
  OBVIOUS
<1>2. ASSUME NEW i \in 1 .. n PROVE Longest(i) \in 1 .. n - i + 1
  <2>1. \A token \in Matches(i) : Len(token) \in 1 .. n - i + 1
    <3> SUFFICES ASSUME NEW token \in Matches(i) PROVE Len(token) \in 1 .. n - i + 1
      OBVIOUS
    <3>1. token \in Seq(Range(token)) /\ Len(token) > 1 /\ i + Len(token) - 1 <= n
      BY ChunkingAssumption
    <3>2. Len(token) \in Nat
      BY <3>1
    <3> QED
      BY <3>1, <3>2
  <2> HIDE DEF Matches
  <2>2. Lengths(i) \in SUBSET (1 .. n - i + 1) /\ Lengths(i) # {}
    BY <2>1
  <2> HIDE DEF Lengths
  <2>3. 1 \in Int /\ n - i + 1 \in Int
    BY <1>1
  <2>4. Longest(i) \in Lengths(i)
    BY ONLY <2>2, <2>3, MaxOf
  <2> QED
    BY <2>2, <2>4
<1>3. Encoded(text) = Scanned(n, piece, next)
  BY DEF Encoded
<1> HIDE DEF Longest
<1>4. ASSUME NEW i \in 1 .. n PROVE next[i] \in i + 1 .. n + 1 /\ piece[i] \in Seq(Seq(A)) /\ Len(piece[i]) = 1
  <2>1. Longest(i) \in 1 .. n - i + 1
    BY <1>2
  <2>2. next[i] = i + Longest(i) /\ piece[i] = <<SubSeq(text, i, i + Longest(i) - 1)>>
    BY <1>1
  <2>3. SubSeq(text, i, i + Longest(i) - 1) \in Seq(A)
    BY <2>1
  <2> HIDE DEF piece, next
  <2>4. <<SubSeq(text, i, i + Longest(i) - 1)>> \in Seq(Seq(A))
        /\ Len(<<SubSeq(text, i, i + Longest(i) - 1)>>) = 1
    BY <2>3
  <2>5. i + Longest(i) \in i + 1 .. n + 1
    BY <1>1, <2>1
  <2> QED
    BY <2>2, <2>4, <2>5
<1> HIDE DEF piece, next
<1>5. PICK f : Finds(f, Seq(A), n, piece, next) /\ Scanned(n, piece, next) = f[1]
  <2>1. n \in Nat /\ (\A i \in 1 .. n : piece[i] \in Seq(Seq(A))) /\ \A i \in 1 .. n : next[i] \in i + 1 .. n + 1
    BY <1>1, <1>4
  <2> QED
    BY ONLY <2>1, ScannedSteps
<1>6. f[1] \in Seq(Seq(A))
  BY <1>1, <1>5 DEF Finds
<1>7. ASSUME n = 1 PROVE Len(f[1]) = 1
  <2>1. next[1] = 2 /\ f[2] = <<>>
    BY <1>4, <1>5, <1>7 DEF Finds
  <2>2. f[1] = piece[1] \o <<>>
    <3>1. 1 \in 1 .. n
      BY <1>7
    <3>2. f[1] = piece[1] \o f[next[1]]
      BY <1>5, <3>1 DEF Finds
    <3> QED
      BY <2>1, <3>2
  <2>3. piece[1] \in Seq(Seq(A)) /\ Len(piece[1]) = 1
    BY <1>4, <1>7
  <2> QED
    BY <2>2, <2>3
<1> QED
  BY <1>3, <1>5, <1>6, <1>7 DEF Tokens

\* The search for the end of a window finds one that fits, or nothing.
LEMMA WindowEndFits ==
    ASSUME NEW A, NEW text \in Seq(A), NEW start \in Nat, start < Len(text)
    PROVE  /\ WindowEnd(text, start) \in start .. Len(text)
           /\ WindowEnd(text, start) # start => WindowFits(text, start, WindowEnd(text, start))
<1> DEFINE n == Len(text)
           first == [low |-> start + 1, high |-> n]
           Range0 == [low : start + 1 .. n + 1, high : start .. n]
           Good == {r \in Range0 : r.low - 1 # start => WindowFits(text, start, r.low - 1)}
           Body(f) == [k \in 0 .. Len(text) |-> IF k = 0 THEN [low |-> start + 1, high |-> Len(text)]
                                                ELSE Halved(f[k - 1], text, start)]
           F == CHOOSE f : f = Body(f)
           h == [p \in (1 .. n) \X Good |-> Halved(p[2], text, start)]
<1>1. n \in Nat /\ first \in Good
  <2>1. first.low - 1 = start /\ first \in Range0
    OBVIOUS
  <2> QED
    BY <2>1
<1>2. ASSUME NEW r \in Good PROVE Halved(r, text, start) \in Good
  <2> DEFINE mid == (r.low + r.high) \div 2
  <2>1. r.low \in start + 1 .. n + 1 /\ r.high \in start .. n
    OBVIOUS
  <2>2. CASE r.low > r.high
    BY <2>2 DEF Halved
  <2>3. CASE r.low <= r.high
    <3>1. mid \in Int /\ r.low <= mid /\ mid <= r.high
      BY <2>1, <2>3
    <3> HIDE DEF mid
    <3>2. CASE WindowFits(text, start, mid)
      <4>1. Halved(r, text, start) = [low |-> mid + 1, high |-> r.high]
        BY <2>1, <2>3, <3>2 DEF Halved, mid
      <4>2. (mid + 1) - 1 = mid /\ mid + 1 \in start + 1 .. n + 1
        BY <2>1, <3>1
      <4> DEFINE q == [low |-> mid + 1, high |-> r.high]
      <4>3. q \in Range0 /\ q.low - 1 = mid
        BY <2>1, <4>2
      <4> HIDE DEF q, Range0
      <4>4. q \in Good
        BY <3>2, <4>3
      <4> QED
        BY <4>1, <4>4 DEF q
    <3>3. CASE ~ WindowFits(text, start, mid)
      <4>1. Halved(r, text, start) = [low |-> r.low, high |-> mid - 1]
        BY <2>1, <2>3, <3>3 DEF Halved, mid
      <4> DEFINE q == [low |-> r.low, high |-> mid - 1]
      <4>2. q \in Range0 /\ q.low = r.low
        BY <2>1, <3>1
      <4> HIDE DEF q, Range0
      <4>3. q \in Good
        BY <4>2
      <4> QED
        BY <4>1, <4>3 DEF q
    <3> QED
      BY <3>2, <3>3
  <2> QED
    BY <2>1, <2>2, <2>3
<1>3. Len(text) = n
  OBVIOUS
<1>4. \A k \in 1 .. n : \A r \in Good : h[<<k, r>>] = Halved(r, text, start)
  <2> HIDE DEF Good
  <2> QED
    OBVIOUS
<1>5. Steps(h, 1 .. n, Good)
  <2> HIDE DEF h, Good
  <2> QED
    BY <1>2, <1>4 DEF Steps
<1> HIDE DEF Good, h, first, n
<1>6. PICK f : Rises(f, n, Good, first, h)
  BY ONLY <1>1, <1>5, Rising
<1>7. f \in [0 .. n -> Good] /\ f[0] = first
  BY <1>6 DEF Rises
<1>8. ASSUME NEW k \in 1 .. n PROVE f[k] = Halved(f[k - 1], text, start)
  <2>1. f[k] = h[<<k, f[k - 1]>>] /\ f[k - 1] \in Good
    BY <1>1, <1>6 DEF Rises
  <2> QED
    BY <1>4, <2>1
<1>9. ASSUME NEW k \in 0 .. n PROVE f[k] = Body(f)[k]
  <2>1. CASE k = 0
    BY <1>3, <1>7, <2>1 DEF first
  <2>2. CASE k # 0
    <3>1. k \in 1 .. n
      BY <1>1, <2>2
    <3> QED
      BY <1>3, <1>8, <2>2, <3>1
  <2> QED
    BY <2>1, <2>2
<1>10. f = [k \in 0 .. n |-> f[k]] /\ Body(f) = [k \in 0 .. n |-> Body(f)[k]]
  BY <1>3, <1>7
<1>11. f = Body(f)
  <2> HIDE DEF Body
  <2> QED
    BY <1>9, <1>10
<1>12. F = Body(F)
  BY <1>11
<1>13. WindowEnd(text, start) = F[n].low - 1
  BY DEF WindowEnd, n
<1> HIDE DEF F
<1>14. F = [k \in 0 .. n |-> IF k = 0 THEN first ELSE Halved(F[k - 1], text, start)]
  BY <1>3, <1>12 DEF first
<1> HIDE DEF Body
<1> DEFINE S == {k \in Int : F[k] = f[k]}
<1>15. 0 \in S
  BY <1>1, <1>7, <1>14
<1>16. ASSUME NEW k \in 1 .. n, k - 1 \in S PROVE k \in S
  <2>1. F[k] = Halved(F[k - 1], text, start)
    <3>1. k \in 0 .. n /\ k # 0
      BY <1>1
    <3> QED
      BY <1>14, <3>1
  <2>2. F[k - 1] = f[k - 1]
    BY <1>16
  <2>3. F[k] = f[k]
    BY <1>8, <2>1, <2>2
  <2> QED
    BY <2>3
<1>17. F[n] \in Good
  <2> HIDE DEF S
  <2>1. \A k \in 0 .. n : k \in S
    BY ONLY <1>1, <1>15, <1>16, Forwards
  <2>2. F[n] = f[n] /\ n \in 0 .. n
    BY <1>1, <2>1 DEF S
  <2> QED
    BY <1>7, <2>2
<1>18. F[n].low \in start + 1 .. n + 1
       /\ (F[n].low - 1 # start => WindowFits(text, start, F[n].low - 1))
  BY <1>17 DEF Good
<1> DEFINE e == F[n].low - 1
<1>19. e \in start .. n
  BY <1>1, <1>18
<1> QED
  BY <1>3, <1>13, <1>18, <1>19

\* The spans of src that are not empty and not too large.
FitCuts(src) == {c \in Cuts(src) : c.text # <<>> /\ Tokens(c.text) <= MaxChunk}

\* Token windows have no gap and are not too large.
LEMMA WindowsTile ==
    ASSUME NEW A, NEW src \in Seq(A), NEW sp \in Cuts(src)
    PROVE  Tiles(TokenWindows(sp), src, sp.start, sp.end) /\ TokenWindows(sp) \in Seq(FitCuts(src))
<1> DEFINE text == sp.text
           n == Len(text)
           End(i) == Max({WindowEnd(text, i - 1), i})
           piece == [i \in DOMAIN text |-> <<Part(sp, i, End(i))>>]
           next == [i \in DOMAIN text |-> End(i) + 1]
<1>1. text \in Seq(A) /\ n \in Nat /\ DOMAIN text = 1 .. n
  BY CutIs
<1>2. TokenWindows(sp) = Scanned(n, piece, next)
  BY DEF TokenWindows
<1>3. ASSUME NEW i \in 1 .. n
      PROVE  /\ End(i) \in i .. n
             /\ Tokens(SubSeq(text, i, End(i))) <= MaxChunk
  <2> DEFINE e == WindowEnd(text, i - 1)
             W == {e, i}
  <2>1. i - 1 \in Nat /\ i - 1 < n
    BY <1>1
  <2>2. e \in i - 1 .. n /\ (e # i - 1 => WindowFits(text, i - 1, e))
    BY <1>1, <2>1, WindowEndFits
  <2> HIDE DEF e, text
  <2>3. W \in SUBSET (i - 1 .. n) /\ W # {} /\ i - 1 \in Int /\ n \in Int
    BY <1>1, <2>2
  <2> HIDE DEF n
  <2>4. Max(W) \in W /\ \A k \in W : k <= Max(W)
    <3> HIDE DEF W
    <3> QED
      BY ONLY <2>3, MaxOf
  <2>5. CASE e = i - 1
    <3>1. Max(W) = i
      BY <1>1, <2>4, <2>5
    <3>2. SubSeq(text, i, i) \in Seq(A) /\ Len(SubSeq(text, i, i)) = 1
      BY <1>1 DEF n
    <3>3. Tokens(SubSeq(text, i, i)) = 1
      BY <3>2, TokensOf
    <3>4. 1 <= MaxChunk
      BY ChunkingAssumption
    <3> QED
      BY <1>1, <3>1, <3>3, <3>4 DEF e
  <2>6. CASE e # i - 1
    <3>1. Max(W) = e /\ e \in i .. n
      BY <1>1, <2>2, <2>4, <2>6
    <3>2. (i - 1) + 1 = i
      BY <1>1
    <3>3. Tokens(SubSeq(text, i, e)) \in 1 .. ChunkSize
      BY <2>2, <2>6, <3>2 DEF WindowFits, Slice
    <3>4. Tokens(SubSeq(text, i, e)) <= MaxChunk
      BY <3>3, ChunkingAssumption
    <3> QED
      BY <3>1, <3>4 DEF e
  <2> QED
    BY <2>5, <2>6
<1> HIDE DEF End
<1>4. ASSUME NEW i \in 1 .. n
      PROVE  /\ next[i] \in i + 1 .. n + 1
             /\ piece[i] = <<Part(sp, i, next[i] - 1)>>
             /\ Part(sp, i, next[i] - 1) \in FitCuts(src)
  <2>1. next[i] = End(i) + 1 /\ End(i) \in i .. n /\ piece[i] = <<Part(sp, i, End(i))>>
    BY <1>1, <1>3
  <2> HIDE DEF piece, next
  <2>2. next[i] - 1 = End(i) /\ next[i] \in i + 1 .. n + 1
    BY <1>1, <2>1
  <2>3. End(i) \in Nat /\ i \in Nat /\ 1 <= i /\ i <= End(i) + 1 /\ End(i) <= Len(sp.text)
    BY <1>1, <2>1
  <2>4. Part(sp, i, End(i)) \in Cuts(src) /\ Part(sp, i, End(i)).text = SubSeq(sp.text, i, End(i))
    BY <2>3, PartCut
  <2>a. SubSeq(sp.text, i, End(i)) # <<>>
    <3>1. Len(SubSeq(sp.text, i, End(i))) = End(i) - i + 1
      BY <1>1, <2>3
    <3> DEFINE u == SubSeq(sp.text, i, End(i))
    <3>2. Len(u) # 0
      BY <1>1, <2>1, <3>1
    <3> HIDE DEF u
    <3>3. u # <<>>
      BY <3>2
    <3> QED
      BY <3>3 DEF u
  <2>5. Part(sp, i, End(i)) \in FitCuts(src)
    BY <1>3, <2>4, <2>a DEF FitCuts
  <2> QED
    BY <2>1, <2>2, <2>5
<1> HIDE DEF piece, next
<1>5. Tiles(Scanned(n, piece, next), src, sp.start, sp.end)
  <2>1. (\A i \in 1 .. n : next[i] \in i + 1 .. n + 1)
        /\ (\A i \in 1 .. n : piece[i] = <<Part(sp, i, next[i] - 1)>>) /\ n = Len(sp.text)
    BY <1>4
  <2> HIDE DEF n
  <2> QED
    BY ONLY <2>1, src \in Seq(A), sp \in Cuts(src), ScanTiles
<1>6. Scanned(n, piece, next) \in Seq(FitCuts(src))
  <2> HIDE DEF n
  <2>0. ASSUME NEW i \in 1 .. n PROVE piece[i] \in Seq(FitCuts(src))
    <3>1. Part(sp, i, next[i] - 1) \in FitCuts(src) /\ piece[i] = <<Part(sp, i, next[i] - 1)>>
      BY <1>4
    <3> QED
      BY <3>1
  <2>1. n \in Nat /\ (\A i \in 1 .. n : piece[i] \in Seq(FitCuts(src)))
        /\ \A i \in 1 .. n : next[i] \in i + 1 .. n + 1
    BY <1>1, <1>4, <2>0
  <2> QED
    BY ONLY <2>1, ScannedSequence
<1> QED
  BY <1>2, <1>5, <1>6

\* What is split at a separator that is not empty has no gap.
LEMMA SplitTiles ==
    ASSUME NEW A, NEW src \in Seq(A), NEW sp \in Cuts(src), NEW sep, Len(sep) \in Nat \ {0}
    PROVE  Tiles(SplitOn(sp, sep), src, sp.start, sp.end)
<1> DEFINE text == sp.text
           n == Len(text)
           At(i) == {k \in i .. Len(text) : SeparatorAt(text, sep, k)}
           End(i) == IF At(i) = {} THEN Len(text) ELSE Min(At(i)) + Len(sep) - 1
           piece == [i \in DOMAIN text |-> <<Part(sp, i, End(i))>>]
           next == [i \in DOMAIN text |-> End(i) + 1]
<1>1. text \in Seq(A) /\ n \in Nat /\ DOMAIN text = 1 .. n
  BY CutIs
<1>2. SplitOn(sp, sep) = Scanned(n, piece, next)
  BY DEF SplitOn
<1>3. ASSUME NEW i \in 1 .. n PROVE End(i) \in i .. n
  <2>1. CASE At(i) = {}
    BY <1>1, <2>1
  <2>2. CASE At(i) # {}
    <3> DEFINE W == At(i)
    <3>1. W \in SUBSET (i .. n) /\ W # {} /\ i \in Int /\ n \in Int
      BY <1>1, <2>2
    <3>2. Min(W) \in W
      <4> HIDE DEF W, n
      <4> QED
        BY ONLY <3>1, MinOf
    <3>3. Min(W) \in i .. n /\ Min(W) + Len(sep) - 1 <= n
      BY <3>2 DEF SeparatorAt
    <3> QED
      BY <1>1, <2>2, <3>3
  <2> QED
    BY <2>1, <2>2
<1> HIDE DEF End
<1>4. ASSUME NEW i \in 1 .. n
      PROVE  next[i] \in i + 1 .. n + 1 /\ piece[i] = <<Part(sp, i, next[i] - 1)>>
  <2>1. next[i] = End(i) + 1 /\ End(i) \in i .. n /\ piece[i] = <<Part(sp, i, End(i))>>
    BY <1>1, <1>3
  <2> HIDE DEF piece, next
  <2>2. next[i] - 1 = End(i) /\ next[i] \in i + 1 .. n + 1
    BY <1>1, <2>1
  <2> QED
    BY <2>1, <2>2
<1> HIDE DEF piece, next
<1>5. Tiles(Scanned(n, piece, next), src, sp.start, sp.end)
  <2>1. (\A i \in 1 .. n : next[i] \in i + 1 .. n + 1)
        /\ (\A i \in 1 .. n : piece[i] = <<Part(sp, i, next[i] - 1)>>) /\ n = Len(sp.text)
    BY <1>4
  <2> HIDE DEF n
  <2> QED
    BY ONLY <2>1, src \in Seq(A), sp \in Cuts(src), ScanTiles
<1> QED
  BY <1>2, <1>5
-----------------------------------------------------------------------------
(* Packing.                                                                 *)

\* One level of splitting leaves no gap.
LEMMA RefineTiles ==
    ASSUME NEW A, NEW src \in Seq(A), NEW a \in Int, NEW b \in Int, a <= b,
           NEW spans, Tiles(spans, src, a, b), NEW sep, sep = <<>> \/ Len(sep) \in Nat \ {0}
    PROVE  Tiles(Refine(spans, sep), src, a, b)
<1> DEFINE Cut(span) == IF Tokens(span.text) <= MaxChunk THEN <<span>>
                        ELSE IF sep = <<>> THEN TokenWindows(span)
                        ELSE SplitOn(span, sep)
           seqs == [i \in DOMAIN spans |-> Cut(spans[i])]
<1>1. Refine(spans, sep) = FlattenSeq(seqs)
  BY DEF Refine, FlatMap, Map
<1>2. spans \in Seq(Cuts(src)) /\ Len(spans) \in Nat /\ DOMAIN spans = 1 .. Len(spans)
  <2>1. spans \in Seq(Cuts(src))
    BY DEF Tiles, Laid
  <2> QED
    BY <2>1
<1>3. ASSUME NEW n \in 1 .. Len(spans) PROVE Tiles(seqs[n], src, spans[n].start, spans[n].end)
  <2>1. spans[n] \in Cuts(src)
    BY <1>2
  <2>2. CASE Tokens(spans[n].text) <= MaxChunk
    <3>1. seqs[n] = <<spans[n]>>
      BY <1>2, <2>2
    <3> QED
      BY <2>1, <3>1, OneTile
  <2>3. CASE ~ (Tokens(spans[n].text) <= MaxChunk) /\ sep = <<>>
    <3>1. seqs[n] = TokenWindows(spans[n])
      BY <1>2, <2>3
    <3> QED
      BY <2>1, <3>1, WindowsTile
  <2>4. CASE ~ (Tokens(spans[n].text) <= MaxChunk) /\ sep # <<>>
    <3>1. seqs[n] = SplitOn(spans[n], sep)
      BY <1>2, <2>4
    <3> QED
      BY <2>1, <2>4, <3>1, SplitTiles
  <2> QED
    BY <2>2, <2>3, <2>4
<1>4. DOMAIN seqs = 1 .. Len(spans)
  BY <1>2
<1>5. seqs = [n \in 1 .. Len(spans) |-> seqs[n]]
  BY <1>2
<1> HIDE DEF seqs
<1>6. seqs \in Seq(Seq(Cuts(src))) /\ Len(seqs) = Len(spans)
  <2>1. \A n \in 1 .. Len(spans) : seqs[n] \in Seq(Cuts(src))
    BY <1>3 DEF Tiles, Laid
  <2> QED
    BY <1>2, <1>5, <2>1
<1>7. Tiles(FlattenSeq(seqs), src, a, b)
  BY ONLY <1>3, <1>6, FlattenTiles, src \in Seq(A), a \in Int, b \in Int, a <= b, Tiles(spans, src, a, b)
<1> QED
  BY <1>1, <1>7

\* The separators.
LEMMA SeparatorsOf ==
    Len(Separators) = 5
    /\ \A k \in 1 .. 5 : Separators[k] = <<>> \/ Len(Separators[k]) \in Nat \ {0}
<1>1. /\ Separators[1] = <<NL, NL>> /\ Separators[2] = <<NL>> /\ Separators[3] = <<Stop>>
      /\ Separators[4] = <<SP>> /\ Separators[5] = <<>> /\ Len(Separators) = 5
  BY DEF Separators
<1>2. Len(<<NL, NL>>) = 2 /\ Len(<<NL>>) = 1 /\ Len(<<Stop>>) = 1 /\ Len(<<SP>>) = 1
  OBVIOUS
<1>3. \A k \in 1 .. 5 : k = 1 \/ k = 2 \/ k = 3 \/ k = 4 \/ k = 5
  OBVIOUS
<1> QED
  BY <1>1, <1>2, <1>3

\* All levels of it.
LEMMA RecursiveTiles ==
    ASSUME NEW A, NEW src \in Seq(A), NEW sp \in Cuts(src)
    PROVE  Tiles(SplitRecursive(sp), src, sp.start, sp.end)
<1> DEFINE n == Len(Separators)
           Good == {w \in Seq(Cuts(src)) : Tiles(w, src, sp.start, sp.end)}
           Body(f) == [k \in 0 .. Len(Separators) |->
                          IF k = 0 THEN <<sp>> ELSE Refine(f[k - 1], Separators[k])]
           F == CHOOSE f : f = Body(f)
           h == [p \in (1 .. n) \X Good |-> Refine(p[2], Separators[p[1]])]
<1>1. sp.start \in Int /\ sp.end \in Int /\ sp.start <= sp.end /\ Len(sp.text) = sp.end - sp.start
      /\ sp.text \in Seq(A)
  BY CutIs
<1>2. n = Len(Separators) /\ n \in Nat /\ n = 5
  BY SeparatorsOf
<1>3. <<sp>> \in Good
  <2>1. Tiles(<<sp>>, src, sp.start, sp.end)
    BY OneTile
  <2> QED
    BY <2>1 DEF Tiles, Laid
<1>4. ASSUME NEW k \in 1 .. n, NEW w \in Good PROVE Refine(w, Separators[k]) \in Good
  <2>1. Separators[k] = <<>> \/ Len(Separators[k]) \in Nat \ {0}
    BY <1>2, SeparatorsOf
  <2>2. Tiles(Refine(w, Separators[k]), src, sp.start, sp.end)
    BY <1>1, <2>1, RefineTiles
  <2> QED
    BY <2>2 DEF Tiles, Laid
<1> HIDE DEF Good, n
<1>5. \A k \in 1 .. n : \A w \in Good : h[<<k, w>>] = Refine(w, Separators[k])
  OBVIOUS
<1>6. Steps(h, 1 .. n, Good)
  <2> HIDE DEF h
  <2> QED
    BY <1>4, <1>5 DEF Steps
<1> HIDE DEF h
<1>7. PICK f : Rises(f, n, Good, <<sp>>, h)
  BY ONLY <1>2, <1>3, <1>6, Rising
<1>8. f \in [0 .. n -> Good] /\ f[0] = <<sp>>
  BY <1>7 DEF Rises
<1>9. ASSUME NEW k \in 1 .. n PROVE f[k] = Refine(f[k - 1], Separators[k])
  <2>1. f[k] = h[<<k, f[k - 1]>>]
    BY <1>7 DEF Rises
  <2>2. k - 1 \in 0 .. n
    BY <1>2
  <2>3. f[k - 1] \in Good
    BY ONLY <1>8, <2>2
  <2> QED
    BY <1>5, <2>1, <2>3
<1>10. ASSUME NEW k \in 0 .. n PROVE f[k] = Body(f)[k]
  <2>1. CASE k = 0
    BY <1>2, <1>8, <2>1
  <2>2. CASE k # 0
    <3>1. k \in 1 .. n
      BY <1>2, <2>2
    <3> QED
      BY <1>2, <1>9, <2>2, <3>1
  <2> QED
    BY <2>1, <2>2
<1>11. f = Body(f)
  <2>1. f = [k \in 0 .. n |-> f[k]] /\ Body(f) = [k \in 0 .. n |-> Body(f)[k]]
    BY <1>2, <1>8
  <2> HIDE DEF Body
  <2> QED
    BY <1>10, <2>1
<1>12. F = Body(F)
  BY <1>11
<1> DEFINE Pieces == F[n]
<1>13. SplitRecursive(sp) = IF sp.text = <<>> THEN <<>> ELSE Pieces
  BY DEF SplitRecursive, n
<1> HIDE DEF F
<1>14. F = [k \in 0 .. n |-> IF k = 0 THEN <<sp>> ELSE Refine(F[k - 1], Separators[k])]
  BY <1>2, <1>12
<1> HIDE DEF Body
<1> DEFINE S == {k \in Int : F[k] = f[k]}
<1>15. 0 \in S
  BY <1>2, <1>8, <1>14
<1>16. ASSUME NEW k \in 1 .. n, k - 1 \in S PROVE k \in S
  <2>1. F[k] = Refine(F[k - 1], Separators[k])
    <3>1. k \in 0 .. n /\ k # 0
      BY <1>2
    <3> QED
      BY <1>14, <3>1
  <2>2. F[k - 1] = f[k - 1]
    BY <1>16
  <2>3. F[k] = f[k]
    BY <1>9, <2>1, <2>2
  <2> QED
    BY <2>3
<1>17. Pieces \in Good
  <2> HIDE DEF S
  <2>1. \A k \in 0 .. n : k \in S
    BY ONLY <1>2, <1>15, <1>16, Forwards
  <2>2. F[n] = f[n] /\ n \in 0 .. n
    BY <1>2, <2>1 DEF S
  <2> QED
    BY <1>8, <2>2
<1>18. CASE sp.text # <<>>
  BY <1>13, <1>17, <1>18 DEF Good
<1>19. CASE sp.text = <<>>
  <2>1. sp.end = sp.start
    BY <1>1, <1>19
  <2> QED
    BY <1>1, <1>13, <1>19, <2>1, NoTile
<1> QED
  BY <1>18, <1>19

-----------------------------------------------------------------------------
(* Packing.                                                                 *)

\* Two quotations behind one another are one.
LEMMA SliceConcat ==
    ASSUME NEW A, NEW src \in Seq(A), NEW a \in Nat, NEW b \in Nat, NEW c \in Nat, a <= b, b <= c, c <= Len(src)
    PROVE  Slice(src, a, b) \o Slice(src, b, c) = Slice(src, a, c)
<1> DEFINE u == Slice(src, a, b)
           v == Slice(src, b, c)
           w == Slice(src, a, c)
<1>1. u \in Seq(A) /\ Len(u) = b - a /\ \A i \in 1 .. b - a : u[i] = src[a + i]
  <2>1. b <= Len(src)
    OBVIOUS
  <2> QED
    BY <2>1, SliceOf
<1>2. v \in Seq(A) /\ Len(v) = c - b /\ \A i \in 1 .. c - b : v[i] = src[b + i]
  BY SliceOf
<1>3. w \in Seq(A) /\ Len(w) = c - a /\ \A i \in 1 .. c - a : w[i] = src[a + i]
  <2>1. a <= c
    OBVIOUS
  <2> QED
    BY <2>1, SliceOf
<1> HIDE DEF u, v, w
<1> DEFINE z == u \o v
<1>4. z \in Seq(A) /\ Len(z) = c - a
  <2>0. u \in Seq(A) /\ v \in Seq(A)
    BY <1>1, <1>2
  <2>1. z \in Seq(A) /\ Len(z) = Len(u) + Len(v)
    BY ONLY <2>0, ConcatIs DEF z
  <2> HIDE DEF z
  <2> QED
    BY <1>1, <1>2, <2>1
<1>5. ASSUME NEW i \in 1 .. c - a PROVE z[i] = w[i]
  <2>1. CASE i <= b - a
    <3>1. i \in 1 .. b - a
      BY <2>1
    <3>2. z[i] = u[i]
      BY <1>1, <1>2, <3>1
    <3> QED
      BY <1>1, <1>3, <3>1, <3>2
  <2>2. CASE ~ (i <= b - a)
    <3>1. i - (b - a) \in 1 .. c - b
      BY <2>2
    <3>2. z[i] = v[i - (b - a)]
      BY <1>1, <1>2, <3>1
    <3>3. v[i - (b - a)] = src[b + (i - (b - a))] /\ b + (i - (b - a)) = a + i
      BY <1>2, <3>1
    <3> QED
      BY <1>3, <3>2, <3>3
  <2> QED
    BY <2>1, <2>2
<1> HIDE DEF z
<1>6. z = w
  <2>1. \A i \in 1 .. Len(z) : z[i] = w[i]
    BY <1>4, <1>5
  <2>2. Len(z) = Len(w)
    BY <1>3, <1>4
  <2> QED
    BY ONLY <1>3, <1>4, <2>1, <2>2, SameSequence
<1> QED
  BY <1>6 DEF u, v, w, z

\* Between an offset and itself there is nothing.
LEMMA SliceEmpty == ASSUME NEW A, NEW src \in Seq(A), NEW a \in Nat, a <= Len(src) PROVE Slice(src, a, a) = <<>>
<1>1. Slice(src, a, a) \in Seq(A) /\ Len(Slice(src, a, a)) = 0
  BY SliceOf
<1> QED
  BY <1>1

\* Without a gap a span begins where the one before it ends.
LEMMA Chained ==
    ASSUME NEW T, NEW spans \in Seq(T), NEW a, NEW b, Tight(spans, a, b), NEW k \in 1 .. Len(spans)
    PROVE  spans[k].start = IF k = 1 THEN a ELSE spans[k - 1].end
<1>1. CASE k = 1
  <2>1. spans # <<>>
    BY <1>1
  <2> QED
    BY <1>1, <2>1 DEF Tight
<1>2. CASE k # 1
  <2>1. k - 1 \in 1 .. Len(spans) - 1 /\ (k - 1) + 1 = k
    BY <1>2
  <2>2. spans[k - 1].end = spans[(k - 1) + 1].start
    BY <2>1 DEF Tight
  <2> QED
    BY <1>2, <2>1, <2>2
<1> QED
  BY <1>1, <1>2

\* Spans without a gap, joined, are the quotation of all of it.
LEMMA JoinCut ==
    ASSUME NEW A, NEW src \in Seq(A), NEW a \in Nat, NEW b \in Nat, NEW parts, parts # <<>>,
           Tiles(parts, src, a, b)
    PROVE  /\ JoinSpans(parts) \in Cuts(src) /\ JoinSpans(parts).start = a /\ JoinSpans(parts).end = b
<1> DEFINE N == Len(parts)
           texts == [i \in DOMAIN parts |-> parts[i].text]
           End(k) == IF k = 0 THEN a ELSE parts[k].end
           P == {q \in (0 .. N) \X Seq(A) : q[2] = Slice(src, a, End(q[1]))}
<1>1. parts \in Seq(Cuts(src)) /\ Tight(parts, a, b)
  BY DEF Tiles, Laid
<1>2. N \in Nat /\ N # 0 /\ DOMAIN parts = 1 .. N /\ \A k \in 1 .. N : parts[k] \in Cuts(src)
  BY <1>1
<1>3. ASSUME NEW k \in 1 .. N
      PROVE  /\ a <= parts[k].start /\ parts[k].start \in Nat /\ parts[k].end \in Nat
             /\ parts[k].start <= parts[k].end /\ parts[k].end <= Len(src)
             /\ parts[k].text = Slice(src, parts[k].start, parts[k].end) /\ parts[k].text \in Seq(A)
  <2>1. parts[k] \in Cuts(src)
    BY <1>2
  <2> QED
    BY <2>1, CutIs DEF Tiles, Laid
<1>4. parts[1].start = a /\ parts[N].end = b
  BY <1>1 DEF Tight
<1>5. a <= Len(src) /\ a <= b /\ b <= Len(src)
  <2>1. 1 \in 1 .. N /\ N \in 1 .. N
    BY <1>2
  <2>2. /\ a <= parts[1].end /\ parts[1].end <= Len(src) /\ parts[1].end \in Nat
        /\ a <= parts[N].start /\ parts[N].start <= b /\ parts[N].start \in Nat /\ b <= Len(src)
    BY <1>3, <1>4, <2>1
  <2> QED
    BY <2>2
<1>6. texts \in Seq(Seq(A)) /\ Len(texts) = N /\ \A k \in 1 .. N : texts[k] = parts[k].text
  <2>1. \A k \in 1 .. N : parts[k].text \in Seq(A)
    BY <1>3
  <2> HIDE DEF N
  <2> QED
    BY <1>2, <2>1
<1> HIDE DEF texts, N
<1>7. <<0, <<>> >> \in P
  <2>1. Slice(src, a, End(0)) = <<>>
    BY <1>5, SliceEmpty
  <2>2. 0 \in 0 .. N /\ <<>> \in Seq(A)
    BY <1>2
  <2> HIDE DEF End
  <2> QED
    BY <2>1, <2>2
<1>8. ASSUME NEW k \in 1 .. N, NEW v \in Seq(A), <<k - 1, v>> \in P PROVE <<k, v \o texts[k]>> \in P
  <2>1. v = Slice(src, a, End(k - 1))
    BY <1>8
  <2>2. End(k - 1) = parts[k].start
    <3>1. parts[k].start = IF k = 1 THEN a ELSE parts[k - 1].end
      BY <1>1, Chained DEF N
    <3> QED
      BY <1>2, <3>1
  <2>3. End(k) = parts[k].end
    BY <1>2
  <2> HIDE DEF End
  <2>4. /\ a <= parts[k].start /\ parts[k].start \in Nat /\ parts[k].end \in Nat
        /\ parts[k].start <= parts[k].end /\ parts[k].end <= Len(src)
        /\ texts[k] = Slice(src, parts[k].start, parts[k].end) /\ texts[k] \in Seq(A)
    BY <1>3, <1>6
  <2>a. Slice(src, a, parts[k].start) \o Slice(src, parts[k].start, parts[k].end) = Slice(src, a, parts[k].end)
    BY ONLY <2>4, SliceConcat, src \in Seq(A), a \in Nat
  <2>5. v \o texts[k] = Slice(src, a, End(k))
    BY <2>1, <2>2, <2>3, <2>4, <2>a
  <2>6. v \o texts[k] \in Seq(A) /\ k \in 0 .. N
    BY <1>2, <2>4
  <2> QED
    BY <2>5, <2>6
<1> HIDE DEF P
<1>9. <<Len(texts), FlattenSeq(texts)>> \in P
  <2>1. \A k \in 1 .. Len(texts), v \in Seq(A) : <<k - 1, v>> \in P => <<k, v \o texts[k]>> \in P
    BY <1>6, <1>8
  <2> QED
    BY ONLY <1>6, <1>7, <2>1, FlattenInduction
<1>10. FlattenSeq(texts) = Slice(src, a, b)
  <2>1. FlattenSeq(texts) = Slice(src, a, End(N))
    BY <1>6, <1>9 DEF P
  <2>2. End(N) = b
    BY <1>2, <1>4
  <2> QED
    BY <2>1, <2>2
<1>11. JoinSpans(parts) = Span(Slice(src, a, b), a)
  BY <1>4, <1>10 DEF JoinSpans, texts
<1> QED
  BY <1>5, <1>11, CutMade

\* What has been packed up to e: spans that are out, and parts that are still open.
Packed(state, src, a, e) ==
    \E m \in Nat : a <= m /\ m <= e /\ Tiles(state.out, src, a, m) /\ Tiles(state.parts, src, m, e)

IsPacking(s) == s = [out |-> s.out, parts |-> s.parts, tokens |-> s.tokens] /\ s.tokens \in Nat

\* The open parts go out as one span.
LEMMA FlushTiles ==
    ASSUME NEW A, NEW src \in Seq(A), NEW a \in Nat, NEW e \in Nat, NEW state, Packed(state, src, a, e)
    PROVE  Tiles(Flushed(state), src, a, e)
<1>1. PICK m \in Nat : a <= m /\ m <= e /\ Tiles(state.out, src, a, m) /\ Tiles(state.parts, src, m, e)
  BY DEF Packed
<1>2. CASE state.parts = <<>>
  <2>1. m = e
    BY <1>1, <1>2 DEF Tiles, Tight
  <2> QED
    BY <1>1, <1>2, <2>1 DEF Flushed
<1>3. CASE state.parts # <<>>
  <2> DEFINE sp == JoinSpans(state.parts)
  <2>1. sp \in Cuts(src) /\ sp.start = m /\ sp.end = e
    BY <1>1, <1>3, JoinCut
  <2> HIDE DEF sp
  <2>2. Tiles(<<sp>>, src, m, e)
    BY <2>1, OneTile
  <2>3. Tiles(state.out \o <<sp>>, src, a, e)
    BY <1>1, <2>2, TilesConcat
  <2>4. state.out \o <<sp>> = Append(state.out, sp)
    <3>1. state.out \in Seq(Cuts(src))
      BY <1>1 DEF Tiles, Laid
    <3> QED
      BY <2>1, <3>1
  <2> QED
    BY <1>3, <2>3, <2>4 DEF Flushed, sp
<1> QED
  BY <1>2, <1>3

\* One more span is packed.
LEMMA PackNextTiles ==
    ASSUME NEW A, NEW src \in Seq(A), NEW a \in Nat, NEW e \in Nat, a <= e,
           NEW s, IsPacking(s), Packed(s, src, a, e), NEW span \in Cuts(src), span.start = e
    PROVE  IsPacking(PackNext(s, span)) /\ Packed(PackNext(s, span), src, a, span.end)
<1> DEFINE out == s.out
           parts == s.parts
           tokens == s.tokens
<1>a. s = [out |-> out, parts |-> parts, tokens |-> tokens] /\ tokens \in Nat
  BY DEF IsPacking
<1> HIDE DEF out, parts, tokens
<1> SUFFICES \E o, p, t : /\ PackNext([out |-> out, parts |-> parts, tokens |-> tokens], span)
                               = [out |-> o, parts |-> p, tokens |-> t]
                          /\ t \in Nat
                          /\ Packed([out |-> o, parts |-> p, tokens |-> t], src, a, span.end)
  <2> SUFFICES ASSUME NEW o, NEW p, NEW t, PackNext(s, span) = [out |-> o, parts |-> p, tokens |-> t],
                      t \in Nat, Packed([out |-> o, parts |-> p, tokens |-> t], src, a, span.end)
               PROVE  IsPacking(PackNext(s, span)) /\ Packed(PackNext(s, span), src, a, span.end)
    BY <1>a
  <2>1. IsPacking([out |-> o, parts |-> p, tokens |-> t])
    BY DEF IsPacking
  <2> QED
    BY <2>1
<1> DEFINE state == [out |-> out, parts |-> parts, tokens |-> tokens]
           count == Tokens(span.text)
           total == tokens + count
           fits == total <= ChunkSize \/ (tokens < MinRecommended /\ total <= MaxChunk)
<1>1. span.start \in Nat /\ span.end \in Nat /\ span.start <= span.end /\ count \in Nat /\ total \in Nat
  <2>1. span.text \in Seq(A)
    BY CutIs
  <2>2. count \in Nat
    BY <2>1, TokensOf
  <2> HIDE DEF count
  <2> QED
    BY <1>a, <2>2, CutIs
<1>2. PICK m \in Nat : a <= m /\ m <= e /\ Tiles(out, src, a, m) /\ Tiles(parts, src, m, e)
  BY DEF Packed, out, parts
<1>3. Tiles(Flushed(state), src, a, e)
  BY <1>a, FlushTiles
<1>4. Tiles(<<span>>, src, e, span.end)
  BY OneTile
<1>5. CASE count > MaxChunk
  <2>1. PackNext(state, span) = [out |-> Flushed(state) \o TokenWindows(span), parts |-> <<>>, tokens |-> 0]
    BY <1>5 DEF PackNext
  <2>2. Tiles(TokenWindows(span), src, e, span.end)
    BY WindowsTile
  <2>3. Tiles(Flushed(state) \o TokenWindows(span), src, a, span.end)
    BY <1>1, <1>3, <2>2, TilesConcat
  <2>4. Tiles(<<>>, src, span.end, span.end)
    BY <1>1, NoTile
  <2> HIDE DEF state
  <2>5. Packed([out |-> Flushed(state) \o TokenWindows(span), parts |-> <<>>, tokens |-> 0], src, a, span.end)
    BY <1>1, <2>3, <2>4 DEF Packed
  <2> QED
    BY <2>1, <2>5, 0 \in Nat DEF state
<1>6. CASE ~ (count > MaxChunk) /\ parts = <<>>
  <2>1. PackNext(state, span) = [out |-> out, parts |-> <<span>>, tokens |-> count]
    BY <1>6 DEF PackNext
  <2>2. m = e
    BY <1>2, <1>6 DEF Tiles, Tight
  <2>3. Packed([out |-> out, parts |-> <<span>>, tokens |-> count], src, a, span.end)
    BY <1>1, <1>2, <1>4, <2>2 DEF Packed
  <2> QED
    BY <1>1, <2>1, <2>3
<1>7. CASE ~ (count > MaxChunk) /\ parts # <<>> /\ fits
  <2>1. PackNext(state, span) = [out |-> out, parts |-> Append(parts, span), tokens |-> total]
    BY <1>7 DEF PackNext
  <2>2. Tiles(parts \o <<span>>, src, m, span.end)
    BY <1>1, <1>2, <1>4, TilesConcat
  <2>3. parts \o <<span>> = Append(parts, span)
    <3>1. parts \in Seq(Cuts(src))
      BY <1>2 DEF Tiles, Laid
    <3> QED
      BY <3>1
  <2> DEFINE w == Append(parts, span)
  <2>4. Tiles(w, src, m, span.end)
    BY <2>2, <2>3
  <2> HIDE DEF w
  <2>5. Packed([out |-> out, parts |-> w, tokens |-> total], src, a, span.end)
    <3>1. m <= span.end
      BY <1>1, <1>2
    <3> QED
      BY <1>2, <2>4, <3>1 DEF Packed
  <2> QED
    BY <1>1, <2>1, <2>5 DEF w
<1>8. CASE ~ (count > MaxChunk) /\ parts # <<>> /\ ~ fits
  <2>1. PackNext(state, span) = [out |-> Flushed(state), parts |-> <<span>>, tokens |-> count]
    BY <1>8 DEF PackNext
  <2> HIDE DEF state
  <2>2. Packed([out |-> Flushed(state), parts |-> <<span>>, tokens |-> count], src, a, span.end)
    BY <1>1, <1>3, <1>4 DEF Packed
  <2> QED
    BY <1>1, <2>1, <2>2 DEF state
<1> QED
  BY <1>5, <1>6, <1>7, <1>8

\* Packing leaves no gap.
LEMMA PackTiles ==
    ASSUME NEW A, NEW src \in Seq(A), NEW a \in Nat, NEW b \in Nat, NEW spans, Tiles(spans, src, a, b)
    PROVE  Tiles(PackSpans(spans), src, a, b)
<1> DEFINE n == Len(spans)
           End(k) == IF k = 0 THEN a ELSE spans[k].end
           first == [out |-> <<>>, parts |-> <<>>, tokens |-> 0]
           Rec == [out : Seq(Cuts(src)), parts : Seq(Cuts(src)), tokens : Nat]
           T == [k \in 0 .. n |-> {s \in Rec : Packed(s, src, a, End(k))}]
           h == [q \in (1 .. n) \X Rec |-> PackNext(q[2], spans[q[1]])]
           Body(f) == [i \in 0 .. Len(spans) |->
                          IF i = 0 THEN [out |-> <<>>, parts |-> <<>>, tokens |-> 0]
                          ELSE PackNext(f[i - 1], spans[i])]
           F == CHOOSE f : f = Body(f)
<1>1. spans \in Seq(Cuts(src)) /\ n \in Nat /\ Tight(spans, a, b) /\ Len(spans) = n
  <2>1. spans \in Seq(Cuts(src)) /\ Tight(spans, a, b)
    BY DEF Tiles, Laid
  <2> QED
    BY <2>1
<1>2. ASSUME NEW k \in 1 .. n
      PROVE  /\ spans[k] \in Cuts(src) /\ spans[k].start \in Nat /\ spans[k].end \in Nat
             /\ spans[k].start <= spans[k].end /\ a <= spans[k].start
             /\ spans[k].start = End(k - 1) /\ spans[k].end = End(k)
  <2>1. spans[k] \in Cuts(src) /\ a <= spans[k].start
    BY <1>1 DEF Tiles, Laid
  <2>2. spans[k].start = IF k = 1 THEN a ELSE spans[k - 1].end
    BY <1>1, Chained
  <2>3. spans[k].start = End(k - 1) /\ spans[k].end = End(k)
    BY <1>1, <2>2
  <2> HIDE DEF End
  <2> QED
    BY <2>1, <2>3, CutIs
<1> HIDE DEF n
<1>3. first \in T[0]
  <2>1. Tiles(<<>>, src, a, a)
    BY NoTile
  <2>2. first \in Rec
    OBVIOUS
  <2>3. Packed(first, src, a, a)
    BY <2>1 DEF Packed
  <2>4. End(0) = a /\ 0 \in 0 .. n
    BY <1>1
  <2> HIDE DEF first, Rec, End
  <2> QED
    BY <2>2, <2>3, <2>4
<1>4. ASSUME NEW s, NEW e, Packed(s, src, a, e), IsPacking(s)
      PROVE  s \in Rec
  <2>1. s.out \in Seq(Cuts(src)) /\ s.parts \in Seq(Cuts(src))
    BY <1>4 DEF Packed, Tiles, Laid
  <2> QED
    BY <1>4, <2>1 DEF IsPacking
<1>5. ASSUME NEW k \in 1 .. n, NEW s \in T[k - 1]
      PROVE  h[<<k, s>>] \in T[k] /\ h[<<k, s>>] = PackNext(s, spans[k])
  <2>1. k - 1 \in 0 .. n /\ k \in 0 .. n
    BY <1>1
  <2>2. s \in Rec /\ Packed(s, src, a, End(k - 1))
    BY <2>1
  <2>3. h[<<k, s>>] = PackNext(s, spans[k])
    BY <2>2
  <2> HIDE DEF h
  <2>4. IsPacking(s)
    BY <2>2 DEF IsPacking
  <2> DEFINE r == PackNext(s, spans[k])
             e == spans[k].start
  <2>5. IsPacking(r) /\ Packed(r, src, a, spans[k].end)
    <3>1. Packed(s, src, a, e) /\ e \in Nat /\ a <= e /\ spans[k] \in Cuts(src) /\ spans[k].start = e
      BY <1>2, <2>2
    <3> HIDE DEF e
    <3> QED
      BY ONLY <2>4, <3>1, PackNextTiles, src \in Seq(A), a \in Nat
  <2> HIDE DEF r
  <2>6. Packed(r, src, a, End(k))
    BY <1>2, <2>5
  <2>7. r \in Rec
    BY <1>4, <2>5
  <2> HIDE DEF Rec, End
  <2>8. r \in T[k]
    BY <2>1, <2>6, <2>7
  <2> QED
    BY <2>3, <2>8 DEF r
<1> HIDE DEF T, h, first
<1>a. PICK f : RisesThrough(f, n, T, first, h)
  <2>1. StepsThrough(h, n, T)
    BY <1>5 DEF StepsThrough
  <2>2. n \in Nat
    BY <1>1
  <2> QED
    BY ONLY <1>3, <2>1, <2>2, RisingThrough
<1>6. /\ DOMAIN f = 0 .. n /\ f = [k \in 0 .. n |-> f[k]]
      /\ f[0] = first
      /\ \A k \in 1 .. n : f[k] = h[<<k, f[k - 1]>>]
      /\ \A k \in 0 .. n : f[k] \in T[k]
  BY <1>a DEF RisesThrough
<1>7. ASSUME NEW k \in 1 .. n PROVE f[k] = PackNext(f[k - 1], spans[k])
  <2>1. k - 1 \in 0 .. n
    BY <1>1
  <2>2. f[k] = h[<<k, f[k - 1]>>] /\ f[k - 1] \in T[k - 1]
    BY <1>6, <2>1
  <2> QED
    BY <1>5, <2>2
<1>8. ASSUME NEW k \in 0 .. n PROVE f[k] = Body(f)[k]
  <2>1. CASE k = 0
    BY <1>1, <1>6, <2>1 DEF first
  <2>2. CASE k # 0
    <3>1. k \in 1 .. n
      BY <1>1, <2>2
    <3> QED
      BY <1>1, <1>7, <2>2, <3>1
  <2> QED
    BY <2>1, <2>2
<1>9. f = Body(f)
  <2>1. Body(f) = [k \in 0 .. n |-> Body(f)[k]]
    BY <1>1
  <2> HIDE DEF Body
  <2> QED
    BY <1>6, <1>8, <2>1
<1>10. F = Body(F)
  BY <1>9
<1>11. PackSpans(spans) = Flushed(F[n])
  BY DEF PackSpans, n
<1> HIDE DEF F
<1>12. F = [k \in 0 .. n |-> IF k = 0 THEN first ELSE PackNext(F[k - 1], spans[k])]
  BY <1>1, <1>10 DEF first
<1> HIDE DEF Body
<1> DEFINE S == {k \in Int : F[k] = f[k]}
<1>13. 0 \in S
  BY <1>1, <1>6, <1>12
<1>14. ASSUME NEW k \in 1 .. n, k - 1 \in S PROVE k \in S
  <2>1. F[k] = PackNext(F[k - 1], spans[k])
    <3>1. k \in 0 .. n /\ k # 0
      BY <1>1
    <3> QED
      BY <1>12, <3>1
  <2>2. F[k - 1] = f[k - 1]
    BY <1>14
  <2>3. F[k] = f[k]
    BY <1>7, <2>1, <2>2
  <2> QED
    BY <2>3
<1>15. F[n] \in T[n]
  <2> HIDE DEF S
  <2>1. \A k \in 0 .. n : k \in S
    BY ONLY <1>1, <1>13, <1>14, Forwards
  <2>2. F[n] = f[n] /\ n \in 0 .. n
    BY <1>1, <2>1 DEF S
  <2> QED
    BY <1>6, <2>2
<1>16. Packed(F[n], src, a, End(n))
  <2>1. n \in 0 .. n
    BY <1>1
  <2> HIDE DEF End, Rec
  <2> QED
    BY <1>15, <2>1 DEF T
<1>17. End(n) = b
  <2>1. CASE n = 0
    <3>1. spans = <<>>
      BY <1>1, <2>1
    <3> QED
      BY <1>1, <2>1, <3>1 DEF Tight
  <2>2. CASE n # 0
    <3>1. spans # <<>>
      BY <1>1, <2>2
    <3> QED
      BY <1>1, <2>2, <3>1 DEF Tight
  <2> QED
    BY <2>1, <2>2
<1>18. Tiles(Flushed(F[n]), src, a, b)
  <2>1. Packed(F[n], src, a, b)
    BY <1>16, <1>17
  <2> QED
    BY <2>1, FlushTiles
<1> QED
  BY <1>11, <1>18

\* A section is split and packed without a gap.
LEMMA PackSectionTiles ==
    ASSUME NEW A, NEW src \in Seq(A), NEW sp \in Cuts(src)
    PROVE  Tiles(PackSection(sp), src, sp.start, sp.end)
<1>1. Tiles(SplitRecursive(sp), src, sp.start, sp.end) /\ sp.start \in Nat /\ sp.end \in Nat
  BY RecursiveTiles, CutIs
<1> QED
  BY <1>1, PackTiles DEF PackSection
-----------------------------------------------------------------------------
(* Whitespace and size.                                                     *)

\* The spans of src that are not empty.
InkCuts(src) == {c \in Cuts(src) : c.text # <<>>}

\* What is left of a span without the whitespace around it.
LEMMA NormalizeLaid ==
    ASSUME NEW A, NEW src \in Seq(A), NEW c \in Cuts(src)
    PROVE  /\ Laid(NormalizeSpan(src, c), src, c.start, c.end)
           /\ NormalizeSpan(src, c) \in Seq(InkCuts(src))
<1> DEFINE raw == c.text
           I == InkAt(raw)
           n == Len(raw)
<1>1. /\ c.start \in Nat /\ c.end \in Nat /\ c.start <= c.end /\ c.end <= Len(src)
      /\ raw = Slice(src, c.start, c.end) /\ raw \in Seq(A) /\ n = c.end - c.start /\ n \in Nat
      /\ DOMAIN raw = 1 .. n
      /\ \A i \in 1 .. n : raw[i] = src[c.start + i]
  <2>1. raw \in Seq(A) /\ n = c.end - c.start
    BY CutIs
  <2>2. DOMAIN raw = 1 .. n /\ n \in Nat
    BY <2>1
  <2> QED
    BY <2>1, <2>2, CutIs
<1>2. NormalizeSpan(src, c) = Stripped(raw, c.start)
  BY <1>1 DEF NormalizeSpan
<1> HIDE DEF n
<1>3. \A i \in c.start + 1 .. c.end : i - c.start \in 1 .. n /\ src[i] = raw[i - c.start]
  <2> SUFFICES ASSUME NEW i \in c.start + 1 .. c.end
               PROVE  i - c.start \in 1 .. n /\ src[i] = raw[i - c.start]
    OBVIOUS
  <2>1. i - c.start \in 1 .. n /\ c.start + (i - c.start) = i
    BY <1>1
  <2> QED
    BY <1>1, <2>1
<1> HIDE DEF raw
<1>4. CASE IsBlank(raw)
  <2>1. NormalizeSpan(src, c) = <<>>
    BY <1>2, <1>4 DEF Stripped
  <2>2. \A i \in c.start + 1 .. c.end : src[i] \in Whitespace
    BY <1>1, <1>3, <1>4 DEF IsBlank, Range
  <2>3. Laid(<<>>, src, c.start, c.end)
    BY <2>2 DEF Laid
  <2> QED
    BY <2>1, <2>3
<1>5. CASE ~ IsBlank(raw)
  <2>1. I # {} /\ I \in SUBSET (1 .. n)
    BY <1>1, <1>5 DEF IsBlank, Range, InkAt
  <2> DEFINE lo == Min(I)
             hi == Max(I)
  <2>2. lo \in I /\ hi \in I /\ (\A k \in I : lo <= k) /\ (\A k \in I : k <= hi)
    <3> HIDE DEF I
    <3>1. 1 \in Int /\ n \in Int
      BY <1>1
    <3> QED
      BY ONLY <2>1, <3>1, MinOf, MaxOf
  <2>3. Strip(raw) = SubSeq(raw, lo, hi)
    BY <2>1 DEF Strip
  <2>4. NormalizeSpan(src, c) = <<Part(c, lo, hi)>>
    BY <1>2, <1>5, <2>3 DEF Stripped, Part, raw
  <2>5. \A k \in 1 .. n : k \notin I => raw[k] \in Whitespace
    BY <1>1 DEF InkAt
  <2> HIDE DEF I, lo, hi
  <2>6. lo \in Nat /\ hi \in Nat /\ 1 <= lo /\ lo <= hi /\ hi <= n
    BY <1>1, <2>1, <2>2
  <2> DEFINE sp == Part(c, lo, hi)
  <2>7. /\ sp \in Cuts(src) /\ sp.start = c.start + lo - 1 /\ sp.end = c.start + hi
        /\ sp.text = SubSeq(raw, lo, hi)
    <3>1. lo <= hi + 1 /\ hi <= Len(c.text)
      BY <2>6 DEF n, raw
    <3> HIDE DEF sp
    <3> QED
      BY <2>6, <3>1, PartCut DEF sp, raw
  <2> HIDE DEF sp
  <2>8. sp.text # <<>>
    <3>1. Len(SubSeq(raw, lo, hi)) = hi - lo + 1
      BY <1>1, <2>6
    <3> DEFINE u == SubSeq(raw, lo, hi)
    <3>2. Len(u) # 0
      BY <2>6, <3>1
    <3> HIDE DEF u
    <3>3. u # <<>>
      BY <3>2
    <3> QED
      BY <2>7, <3>3 DEF u
  <2> DEFINE u == <<sp>>
  <2>9. u \in Seq(InkCuts(src)) /\ u \in Seq(Cuts(src)) /\ Len(u) = 1 /\ u[1] = sp
    <3>1. sp \in InkCuts(src)
      BY <2>7, <2>8 DEF InkCuts
    <3> QED
      BY <2>7, <3>1
  <2> HIDE DEF u
  <2>10. Laid(u, src, c.start, c.end)
    <3>1. c.start <= sp.start /\ sp.end <= c.end
      BY <1>1, <2>6, <2>7
    <3>2. ASSUME NEW i \in c.start + 1 .. c.end, src[i] \notin Whitespace PROVE sp.start < i /\ i <= sp.end
      <4>1. i - c.start \in I
        BY <1>3, <2>5, <3>2
      <4>2. lo <= i - c.start /\ i - c.start <= hi
        BY <2>2, <4>1
      <4> QED
        BY <1>1, <2>6, <2>7, <4>2
    <3> QED
      BY <2>9, <3>1, <3>2 DEF Laid
  <2> QED
    BY <2>4, <2>9, <2>10 DEF u, sp
<1> QED
  BY <1>4, <1>5

\* Sequences of spans, one for each of some spans, that are as those are.
LEMMA MapLaid ==
    ASSUME NEW A, NEW src \in Seq(A), NEW a \in Int, NEW b \in Int, a <= b,
           NEW spans, Laid(spans, src, a, b), NEW T \in SUBSET Cuts(src),
           NEW seqs, seqs = [n \in DOMAIN spans |-> seqs[n]],
           \A n \in 1 .. Len(spans) : Laid(seqs[n], src, spans[n].start, spans[n].end) /\ seqs[n] \in Seq(T)
    PROVE  Laid(FlattenSeq(seqs), src, a, b) /\ FlattenSeq(seqs) \in Seq(T)
<1>1. spans \in Seq(Cuts(src))
  BY DEF Laid
<1>2. Len(spans) \in Nat /\ DOMAIN spans = 1 .. Len(spans)
  BY <1>1
<1>3. seqs \in Seq(Seq(T)) /\ Len(seqs) = Len(spans)
  <2>1. \A n \in 1 .. Len(spans) : seqs[n] \in Seq(T)
    OBVIOUS
  <2> QED
    BY <1>2, <2>1
<1>4. seqs \in Seq(Seq(Cuts(src)))
  <2>1. \A n \in 1 .. Len(spans) : seqs[n] \in Seq(Cuts(src))
    BY DEF Laid
  <2> QED
    BY <1>2, <2>1
<1>5. FlattenSeq(seqs) \in Seq(T)
  BY ONLY <1>3, FlattenSequence
<1>6. \A n \in 1 .. Len(spans) : Laid(seqs[n], src, spans[n].start, spans[n].end)
  OBVIOUS
<1>7. Laid(FlattenSeq(seqs), src, a, b)
  BY ONLY <1>3, <1>4, <1>6, FlattenLaid, src \in Seq(A), a \in Int, b \in Int, a <= b, Laid(spans, src, a, b)
<1> QED
  BY <1>5, <1>7

\* Every span of a sequence of spans without the whitespace around it.
LEMMA NormalizedLaid ==
    ASSUME NEW A, NEW src \in Seq(A), NEW a \in Int, NEW b \in Int, a <= b,
           NEW spans, Laid(spans, src, a, b)
    PROVE  /\ Laid(FlatMap(LAMBDA c : NormalizeSpan(src, c), spans), src, a, b)
           /\ FlatMap(LAMBDA c : NormalizeSpan(src, c), spans) \in Seq(InkCuts(src))
<1> DEFINE seqs == [n \in DOMAIN spans |-> NormalizeSpan(src, spans[n])]
<1>1. FlatMap(LAMBDA c : NormalizeSpan(src, c), spans) = FlattenSeq(seqs)
  BY DEF FlatMap, Map
<1>2. seqs = [n \in DOMAIN spans |-> seqs[n]]
  OBVIOUS
<1>3. ASSUME NEW n \in 1 .. Len(spans)
      PROVE  Laid(seqs[n], src, spans[n].start, spans[n].end) /\ seqs[n] \in Seq(InkCuts(src))
  <2>1. spans \in Seq(Cuts(src))
    BY DEF Laid
  <2>2. spans[n] \in Cuts(src) /\ n \in DOMAIN spans
    BY <2>1
  <2>3. seqs[n] = NormalizeSpan(src, spans[n])
    BY <2>2
  <2> HIDE DEF seqs
  <2> QED
    BY <2>2, <2>3, NormalizeLaid
<1> HIDE DEF seqs
<1>4. InkCuts(src) \in SUBSET Cuts(src)
  BY DEF InkCuts
<1>5. Laid(FlattenSeq(seqs), src, a, b) /\ FlattenSeq(seqs) \in Seq(InkCuts(src))
  BY ONLY <1>2, <1>3, <1>4, MapLaid, src \in Seq(A), a \in Int, b \in Int, a <= b, Laid(spans, src, a, b)
<1> QED
  BY <1>1, <1>5

\* A span that is not empty becomes spans that are not too large.
LEMMA EnforceLaid ==
    ASSUME NEW A, NEW src \in Seq(A), NEW c \in InkCuts(src)
    PROVE  Laid(EnforceMax(src, c), src, c.start, c.end) /\ EnforceMax(src, c) \in Seq(FitCuts(src))
<1>1. c \in Cuts(src) /\ c.text # <<>> /\ c.start \in Int /\ c.end \in Int /\ c.start <= c.end
  BY CutIs DEF InkCuts
<1>2. FitCuts(src) \in SUBSET Cuts(src)
  BY DEF FitCuts
<1>3. CASE Tokens(c.text) <= MaxChunk
  <2>1. EnforceMax(src, c) = <<c>>
    BY <1>3 DEF EnforceMax
  <2>2. c \in FitCuts(src)
    BY <1>1, <1>3 DEF FitCuts
  <2>3. Laid(<<c>>, src, c.start, c.end)
    BY <1>1, OneTile DEF Tiles
  <2> QED
    BY <2>1, <2>2, <2>3
<1>4. CASE ~ (Tokens(c.text) <= MaxChunk)
  <2> DEFINE pieces == FlatMap(LAMBDA x : NormalizeSpan(src, x), PackSection(c))
             seqs == [n \in DOMAIN pieces |-> FitWindows(pieces[n])]
  <2>1. Laid(PackSection(c), src, c.start, c.end)
    BY <1>1, PackSectionTiles DEF Tiles
  <2>2. Laid(pieces, src, c.start, c.end) /\ pieces \in Seq(InkCuts(src))
    BY <1>1, <2>1, NormalizedLaid
  <2>3. EnforceMax(src, c) = FlatMap(FitWindows, pieces)
    BY <1>4 DEF EnforceMax
  <2> HIDE DEF pieces
  <2>4. FlatMap(FitWindows, pieces) = FlattenSeq(seqs)
    BY DEF FlatMap, Map
  <2>5. seqs = [n \in DOMAIN pieces |-> seqs[n]]
    OBVIOUS
  <2>6. ASSUME NEW n \in 1 .. Len(pieces)
        PROVE  Laid(seqs[n], src, pieces[n].start, pieces[n].end) /\ seqs[n] \in Seq(FitCuts(src))
    <3>1. pieces[n] \in InkCuts(src) /\ n \in DOMAIN pieces
      BY <2>2
    <3>2. seqs[n] = FitWindows(pieces[n])
      BY <3>1
    <3> HIDE DEF seqs
    <3>3. pieces[n] \in Cuts(src) /\ pieces[n].text # <<>>
      BY <3>1 DEF InkCuts
    <3>4. CASE Tokens(pieces[n].text) > MaxChunk
      <4>1. seqs[n] = TokenWindows(pieces[n])
        BY <3>2, <3>4 DEF FitWindows
      <4> QED
        BY <3>3, <4>1, WindowsTile DEF Tiles
    <3>5. CASE ~ (Tokens(pieces[n].text) > MaxChunk)
      <4>1. seqs[n] = <<pieces[n]>>
        BY <3>2, <3>5 DEF FitWindows
      <4>2. Laid(<<pieces[n]>>, src, pieces[n].start, pieces[n].end)
        BY <3>3, OneTile DEF Tiles
      <4>3. Tokens(pieces[n].text) \in Nat /\ MaxChunk \in Nat
        BY <3>3, CutIs, TokensOf, ChunkingAssumption
      <4>4. pieces[n] \in FitCuts(src)
        BY <3>3, <3>5, <4>3 DEF FitCuts
      <4> QED
        BY <4>1, <4>2, <4>4
    <3> QED
      BY <3>4, <3>5
  <2> HIDE DEF seqs
  <2>7. Laid(FlattenSeq(seqs), src, c.start, c.end) /\ FlattenSeq(seqs) \in Seq(FitCuts(src))
    BY ONLY <1>1, <1>2, <2>2, <2>5, <2>6, MapLaid, src \in Seq(A)
  <2> QED
    BY <2>3, <2>4, <2>7
<1> QED
  BY <1>3, <1>4
-----------------------------------------------------------------------------
(* Lines, headings and sections.                                            *)

\* The texts are those of the spans.
TextsOf(texts, spans) == Len(texts) = Len(spans) /\ \A k \in 1 .. Len(spans) : texts[k] = spans[k].text

\* A scan that takes texts and one that takes spans find the same.
LEMMA ScannedTexts ==
    ASSUME NEW A, NEW src \in Seq(A), NEW sp \in Cuts(src), NEW n, n = Len(sp.text),
           NEW next, \A i \in 1 .. n : next[i] \in i + 1 .. n + 1,
           NEW piece, \A i \in 1 .. n : piece[i] = <<Part(sp, i, next[i] - 1)>>,
           NEW line, \A i \in 1 .. n : line[i] = <<SubSeq(sp.text, i, next[i] - 1)>>
    PROVE  /\ Scanned(n, line, next) \in Seq(Seq(A))
           /\ TextsOf(Scanned(n, line, next), Scanned(n, piece, next))
<1>1. n \in Nat /\ sp.text \in Seq(A)
  <2>1. sp.text \in Seq(A)
    BY CutIs
  <2> QED
    BY <2>1
<1>2. ASSUME NEW i \in 1 .. n
      PROVE  /\ piece[i] \in Seq(Cuts(src)) /\ line[i] \in Seq(Seq(A))
             /\ Len(piece[i]) = 1 /\ Len(line[i]) = 1 /\ line[i][1] = piece[i][1].text
  <2> DEFINE k == next[i] - 1
             c == Part(sp, i, k)
             t == SubSeq(sp.text, i, k)
  <2>1. i \in Nat /\ k \in Nat /\ 1 <= i /\ i <= k + 1 /\ k <= Len(sp.text)
    BY <1>1
  <2>2. piece[i] = <<c>> /\ line[i] = <<t>>
    OBVIOUS
  <2> HIDE DEF k
  <2>3. c \in Cuts(src) /\ c.text = t /\ t \in Seq(A)
    <3>1. t \in Seq(A)
      BY <1>1, <2>1
    <3> QED
      BY <2>1, <3>1, PartCut
  <2> HIDE DEF c, t
  <2> QED
    BY <2>2, <2>3
<1>3. PICK f : Finds(f, Seq(A), n, line, next) /\ Scanned(n, line, next) = f[1]
  <2>1. \A i \in 1 .. n : line[i] \in Seq(Seq(A))
    BY <1>2
  <2> QED
    BY ONLY <1>1, <2>1, ScannedSteps, \A i \in 1 .. n : next[i] \in i + 1 .. n + 1
<1>4. PICK g : Finds(g, Cuts(src), n, piece, next) /\ Scanned(n, piece, next) = g[1]
  <2>1. \A i \in 1 .. n : piece[i] \in Seq(Cuts(src))
    BY <1>2
  <2> QED
    BY ONLY <1>1, <2>1, ScannedSteps, \A i \in 1 .. n : next[i] \in i + 1 .. n + 1
<1>5. ASSUME NEW i \in 1 .. n + 1 PROVE f[i] \in Seq(Seq(A)) /\ g[i] \in Seq(Cuts(src))
  BY <1>3, <1>4 DEF Finds
<1> DEFINE S == {i \in Int : TextsOf(f[i], g[i])}
<1>6. ASSUME NEW i \in 1 .. n + 1, \A k \in i + 1 .. n + 1 : k \in S PROVE i \in S
  <2>1. CASE i = n + 1
    <3>1. f[i] = <<>> /\ g[i] = <<>>
      BY <1>3, <1>4, <2>1 DEF Finds
    <3>2. TextsOf(f[i], g[i])
      BY <3>1 DEF TextsOf
    <3> QED
      BY <3>2
  <2>2. CASE i # n + 1
    <3>1. i \in 1 .. n /\ next[i] \in i + 1 .. n + 1 /\ next[i] \in 1 .. n + 1
      BY <2>2
    <3> DEFINE x == f[next[i]]
               y == g[next[i]]
               p == line[i]
               q == piece[i]
    <3>2. f[i] = p \o x /\ g[i] = q \o y
      BY <1>3, <1>4, <3>1 DEF Finds
    <3>3. TextsOf(x, y) /\ x \in Seq(Seq(A)) /\ y \in Seq(Cuts(src))
      BY <1>5, <1>6, <3>1
    <3>4. /\ q \in Seq(Cuts(src)) /\ p \in Seq(Seq(A))
          /\ Len(q) = 1 /\ Len(p) = 1 /\ p[1] = q[1].text
      BY <1>2, <3>1
    <3> HIDE DEF x, y, p, q
    <3>5. TextsOf(p \o x, q \o y)
      <4>a. /\ Len(p \o x) = 1 + Len(x) /\ (p \o x)[1] = p[1]
            /\ \A m \in 1 .. Len(x) : (p \o x)[1 + m] = x[m]
        <5> DEFINE U == Seq(A)
        <5>0. p \in Seq(U) /\ x \in Seq(U)
          BY <3>3, <3>4
        <5> HIDE DEF U
        <5>1. /\ Len(p \o x) = Len(p) + Len(x)
              /\ \A m \in 1 .. Len(p) : (p \o x)[m] = p[m]
              /\ \A m \in 1 .. Len(x) : (p \o x)[Len(p) + m] = x[m]
          BY ONLY <5>0, ConcatIs
        <5> QED
          BY <3>4, <5>1
      <4>b. /\ Len(q \o y) = 1 + Len(y) /\ (q \o y)[1] = q[1] /\ Len(y) \in Nat
            /\ \A m \in 1 .. Len(y) : (q \o y)[1 + m] = y[m]
        <5> DEFINE U == Cuts(src)
        <5>0. q \in Seq(U) /\ y \in Seq(U)
          BY <3>3, <3>4
        <5> HIDE DEF U
        <5>1. /\ Len(q \o y) = Len(q) + Len(y) /\ Len(y) \in Nat
              /\ \A m \in 1 .. Len(q) : (q \o y)[m] = q[m]
              /\ \A m \in 1 .. Len(y) : (q \o y)[Len(q) + m] = y[m]
          BY ONLY <5>0, ConcatIs
        <5> QED
          BY <3>4, <5>1
      <4>1. /\ Len(p \o x) = 1 + Len(x) /\ Len(q \o y) = 1 + Len(y) /\ Len(y) \in Nat /\ Len(x) = Len(y)
            /\ (p \o x)[1] = p[1] /\ (q \o y)[1] = q[1]
            /\ \A m \in 1 .. Len(y) : (p \o x)[1 + m] = x[m] /\ (q \o y)[1 + m] = y[m]
        BY <3>3, <4>a, <4>b DEF TextsOf
      <4>2. ASSUME NEW m \in 1 .. 1 + Len(y) PROVE (p \o x)[m] = (q \o y)[m].text
        <5>1. CASE m = 1
          BY <3>4, <4>1, <5>1
        <5>2. CASE m # 1
          <6>1. m - 1 \in 1 .. Len(y) /\ 1 + (m - 1) = m
            BY <4>1, <5>2
          <6>2. x[m - 1] = y[m - 1].text
            BY <3>3, <6>1 DEF TextsOf
          <6> QED
            BY <4>1, <6>1, <6>2
        <5> QED
          BY <5>1, <5>2
      <4> QED
        BY <4>1, <4>2 DEF TextsOf
    <3>6. TextsOf(f[i], g[i]) /\ i \in Int
      BY <3>2, <3>5
    <3> QED
      BY <3>6
  <2> QED
    BY <2>1, <2>2
<1>7. 1 \in S
  <2> HIDE DEF S
  <2>1. 1 \in Int /\ n + 1 \in Int /\ 1 \in 1 .. n + 1
    BY <1>1
  <2>2. \A i \in 1 .. n + 1 : i \in S
    BY ONLY <1>6, <2>1, Backwards
  <2> QED
    BY <2>1, <2>2
<1>8. f[1] \in Seq(Seq(A)) /\ TextsOf(f[1], g[1])
  BY <1>1, <1>5, <1>7
<1> QED
  BY <1>3, <1>4, <1>8

\* All of a text is a quotation from it.
LEMMA WholeCut ==
    ASSUME NEW A, NEW text \in Seq(A)
    PROVE  /\ Span(text, 0) \in Cuts(text) /\ Span(text, 0).text = text
           /\ Span(text, 0).start = 0 /\ Span(text, 0).end = Len(text)
<1>1. Len(text) \in Nat /\ 0 <= Len(text) /\ Len(text) <= Len(text)
  OBVIOUS
<1> DEFINE w == Slice(text, 0, Len(text))
<1>2. w \in Seq(A) /\ Len(w) = Len(text) /\ \A i \in 1 .. Len(text) : w[i] = text[i]
  <2>1. w = SubSeq(text, 1, Len(text))
    BY DEF Slice
  <2> HIDE DEF w
  <2> QED
    BY <1>1, <2>1
<1>3. w = text
  <2> HIDE DEF w
  <2>1. \A i \in 1 .. Len(w) : w[i] = text[i]
    BY <1>2
  <2> QED
    BY ONLY <1>2, <2>1, SameSequence, text \in Seq(A)
<1> QED
  BY <1>1, <1>3, CutMade

\* The lines of a text are quotations from it that follow one another without a gap.
LEMMA LinesTile ==
    ASSUME NEW A, NEW text \in Seq(A)
    PROVE  /\ KeptLines(text) \in Seq(Seq(A))
           /\ \E spans : Tiles(spans, text, 0, Len(text)) /\ TextsOf(KeptLines(text), spans)
<1> DEFINE n == Len(text)
           Ends(i) == {k \in i .. Len(text) : text[k] \in LineEnds} \cup {Len(text)}
           End(i) == Min(Ends(i))
           line == [i \in DOMAIN text |-> <<SubSeq(text, i, End(i))>>]
           next == [i \in DOMAIN text |-> End(i) + 1]
           sp == Span(text, 0)
           piece == [i \in DOMAIN text |-> <<Part(sp, i, End(i))>>]
<1>1. n \in Nat /\ DOMAIN text = 1 .. n /\ Len(text) = n
  OBVIOUS
<1>2. sp \in Cuts(text) /\ sp.text = text /\ sp.start = 0 /\ sp.end = Len(text)
  BY WholeCut
<1>3. KeptLines(text) = Scanned(n, line, next)
  BY DEF KeptLines
<1>4. ASSUME NEW i \in 1 .. n PROVE End(i) \in i .. n
  <2>1. Ends(i) \in SUBSET (i .. n) /\ Ends(i) # {} /\ i \in Int /\ n \in Int
    BY <1>1
  <2> HIDE DEF Ends, n
  <2>2. End(i) \in Ends(i)
    BY ONLY <2>1, MinOf
  <2> QED
    BY <2>1, <2>2
<1> HIDE DEF End, sp
<1>5. ASSUME NEW i \in 1 .. n
      PROVE  /\ next[i] \in i + 1 .. n + 1
             /\ piece[i] = <<Part(sp, i, next[i] - 1)>>
             /\ line[i] = <<SubSeq(sp.text, i, next[i] - 1)>>
  <2>1. next[i] = End(i) + 1 /\ End(i) \in i .. n /\ piece[i] = <<Part(sp, i, End(i))>>
        /\ line[i] = <<SubSeq(text, i, End(i))>>
    BY <1>1, <1>4
  <2> HIDE DEF piece, next, line
  <2>2. next[i] - 1 = End(i) /\ next[i] \in i + 1 .. n + 1
    BY <1>1, <2>1
  <2> QED
    BY <1>2, <2>1, <2>2
<1> HIDE DEF piece, next, line
<1>6. /\ \A i \in 1 .. n : next[i] \in i + 1 .. n + 1
      /\ \A i \in 1 .. n : piece[i] = <<Part(sp, i, next[i] - 1)>>
      /\ \A i \in 1 .. n : line[i] = <<SubSeq(sp.text, i, next[i] - 1)>>
      /\ n = Len(sp.text) /\ sp \in Cuts(text)
  BY <1>2, <1>5
<1> HIDE DEF n
<1>7. Tiles(Scanned(n, piece, next), text, sp.start, sp.end)
  BY ONLY <1>6, ScanTiles, text \in Seq(A)
<1>8. Scanned(n, line, next) \in Seq(Seq(A)) /\ TextsOf(Scanned(n, line, next), Scanned(n, piece, next))
  BY ONLY <1>6, ScannedTexts, text \in Seq(A)
<1> QED
  BY <1>2, <1>3, <1>7, <1>8

\* The offset of a line is where its quotation begins.
LEMMA OffsetOfLine ==
    ASSUME NEW A, NEW text \in Seq(A), NEW lines \in Seq(Seq(A)),
           NEW spans, Tiles(spans, text, 0, Len(text)), TextsOf(lines, spans), NEW i \in 1 .. Len(lines)
    PROVE  OffsetOf(lines, i) = spans[i].start
<1> DEFINE before == SubSeq(lines, 1, i - 1)
           n == i - 1
           End(k) == IF k = 0 THEN 0 ELSE spans[k].end
           P == {q \in (0 .. n) \X Seq(A) : Len(q[2]) = End(q[1])}
<1>1. spans \in Seq(Cuts(text)) /\ Tight(spans, 0, Len(text)) /\ Len(spans) = Len(lines)
      /\ Len(spans) \in Nat
  <2>1. spans \in Seq(Cuts(text))
    BY DEF Tiles, Laid
  <2> QED
    BY <2>1 DEF Tiles, TextsOf
<1>2. before \in Seq(Seq(A)) /\ Len(before) = n /\ n \in Nat /\ \A k \in 1 .. n : before[k] = lines[k]
  BY <1>1
<1>3. ASSUME NEW k \in 1 .. i
      PROVE  /\ spans[k] \in Cuts(text) /\ lines[k] = spans[k].text
             /\ spans[k].start = End(k - 1) /\ spans[k].end = End(k)
  <2>1. k \in 1 .. Len(spans)
    BY <1>1
  <2>2. spans[k].start = IF k = 1 THEN 0 ELSE spans[k - 1].end
    BY <1>1, <2>1, Chained
  <2>3. spans[k] \in Cuts(text)
    BY <1>1, <2>1
  <2>4. lines[k] = spans[k].text
    BY <2>1 DEF TextsOf
  <2> QED
    BY <2>2, <2>3, <2>4
<1> HIDE DEF before, n
<1>4. <<0, <<>> >> \in P
  <2>1. <<>> \in Seq(A) /\ 0 \in 0 .. n /\ End(0) = 0
    BY <1>2
  <2> DEFINE e == <<>>
  <2>2. Len(e) = 0 /\ e \in Seq(A)
    BY <2>1
  <2> HIDE DEF End, e
  <2>3. <<0, e>> \in P
    BY <2>1, <2>2
  <2> QED
    BY <2>3 DEF e
<1>5. ASSUME NEW k \in 1 .. n, NEW v \in Seq(A), <<k - 1, v>> \in P PROVE <<k, v \o before[k]>> \in P
  <2>a. k \in 1 .. i /\ k \in 0 .. n
    BY <1>2 DEF n
  <2> HIDE DEF End
  <2>b. Len(v) = End(k - 1)
    BY <1>5
  <2>1. k \in 1 .. i /\ Len(v) = End(k - 1) /\ k \in 0 .. n
    BY <2>a, <2>b
  <2>2. spans[k] \in Cuts(text) /\ before[k] = spans[k].text
        /\ spans[k].start = End(k - 1) /\ spans[k].end = End(k)
    BY <1>2, <1>3, <2>1
  <2>3. /\ spans[k].start \in Nat /\ spans[k].end \in Nat
        /\ before[k] \in Seq(A) /\ Len(before[k]) = spans[k].end - spans[k].start
    BY <2>2, CutIs
  <2>4. v \o before[k] \in Seq(A) /\ Len(v \o before[k]) = Len(v) + Len(before[k])
    BY <2>3
  <2>5. Len(v \o before[k]) = End(k)
    BY <2>1, <2>2, <2>3, <2>4
  <2> QED
    BY <2>1, <2>4, <2>5
<1> HIDE DEF P
<1>6. <<Len(before), FlattenSeq(before)>> \in P
  <2>1. \A k \in 1 .. Len(before), v \in Seq(A) : <<k - 1, v>> \in P => <<k, v \o before[k]>> \in P
    BY <1>2, <1>5
  <2>2. before \in Seq(Seq(A))
    BY <1>2
  <2> QED
    BY ONLY <1>4, <2>1, <2>2, FlattenInduction
<1>7. Len(FlattenSeq(before)) = End(n)
  BY <1>2, <1>6 DEF P
<1>8. spans[i].start = End(n)
  BY <1>3 DEF n
<1> QED
  BY <1>7, <1>8 DEF OffsetOf, before

-----------------------------------------------------------------------------
(* Headings and sections.                                                   *)

\* hs is a sequence of things with offsets in a text of n atoms, which grow.
Ordered(hs, n) ==
    /\ hs \in Seq(Range(hs))
    /\ \A k \in 1 .. Len(hs) : hs[k].offset \in Nat /\ hs[k].offset < n
    /\ \A j, k \in 1 .. Len(hs) : j < k => hs[j].offset < hs[k].offset

\* A function on the numbers up to N is a sequence.
LEMMA IsSequence ==
    ASSUME NEW N \in Nat, NEW s, s = [k \in 1 .. N |-> s[k]]
    PROVE  s \in Seq(Range(s)) /\ Len(s) = N /\ DOMAIN s = 1 .. N
<1>1. DOMAIN s = 1 .. N
  OBVIOUS
<1>2. \A k \in 1 .. N : s[k] \in Range(s)
  BY <1>1 DEF Range
<1>3. s \in [1 .. N -> Range(s)]
  BY <1>2
<1>4. s \in Seq(Range(s))
  BY <1>3
<1> QED
  BY <1>1, <1>4

\* The headings of a text are in it, in the order of their offsets.
LEMMA HeadingsOrdered == ASSUME NEW A, NEW text \in Seq(A) PROVE Ordered(Headings(text), Len(text))
<1> DEFINE lines == KeptLines(text)
           At(i) == Min(InkAt(lines[i]))
           IsAtx(i) ==
               /\ MarkedBy(lines[i], HeadingMark)
               /\ ~IsBlank(SubSeq(lines[i], At(i) + 1, Len(lines[i])))
               /\ OpenFence(lines, i) = "none"
           Heading(i) == [level |-> Level[lines[i][At(i)]],
                          title |-> Strip(SubSeq(lines[i], At(i) + 1, Len(lines[i]))),
                          offset |-> OffsetOf(lines, i) + At(i) - 1]
           ids == [i \in DOMAIN lines |-> i]
           I == {i \in DOMAIN lines : IsAtx(i)}
           found == Selected(ids, I)
           hs == [k \in DOMAIN found |-> Heading(found[k])]
<1>1. Headings(text) = hs
  BY DEF Headings, Map
<1>2. lines \in Seq(Seq(A)) /\ DOMAIN lines = 1 .. Len(lines) /\ Len(lines) \in Nat
  <2>1. lines \in Seq(Seq(A))
    BY LinesTile
  <2> QED
    BY <2>1
<1>3. PICK spans : Tiles(spans, text, 0, Len(text)) /\ TextsOf(lines, spans)
  BY LinesTile
<1> HIDE DEF lines
<1>4. spans \in Seq(Cuts(text)) /\ Len(spans) = Len(lines)
  BY <1>3 DEF Tiles, Laid, TextsOf
<1>5. ASSUME NEW i \in 1 .. Len(lines)
      PROVE  /\ spans[i].start \in Nat /\ spans[i].end \in Nat /\ spans[i].end <= Len(text)
             /\ OffsetOf(lines, i) = spans[i].start
             /\ lines[i] \in Seq(A) /\ Len(lines[i]) = spans[i].end - spans[i].start
  <2>1. spans[i] \in Cuts(text) /\ lines[i] = spans[i].text
    BY <1>3, <1>4 DEF TextsOf
  <2>2. OffsetOf(lines, i) = spans[i].start
    BY <1>2, <1>3, OffsetOfLine
  <2> QED
    BY <2>1, <2>2, CutIs
<1>6. ASSUME NEW i \in I PROVE At(i) \in 1 .. Len(lines[i])
  <2>1. i \in 1 .. Len(lines) /\ ~IsBlank(lines[i])
    BY <1>2 DEF MarkedBy
  <2>2. lines[i] \in Seq(A) /\ Len(lines[i]) \in Nat
    BY <1>5, <2>1
  <2> DEFINE line == lines[i]
             J == InkAt(line)
  <2>3. J # {} /\ J \in SUBSET (1 .. Len(line)) /\ 1 \in Int /\ Len(line) \in Int
    BY <2>1, <2>2 DEF IsBlank, Range, InkAt
  <2>4. Min(J) \in J
    <3> HIDE DEF line, J
    <3> QED
      BY ONLY <2>3, MinOf
  <2> QED
    BY <2>3, <2>4
<1>7. ids \in Seq(1 .. Len(lines)) /\ Len(ids) = Len(lines) /\ I \in SUBSET DOMAIN ids
      /\ \A i \in 1 .. Len(lines) : ids[i] = i
  BY <1>2
<1> HIDE DEF ids, I
<1>8. found \in Seq(1 .. Len(lines))
  BY <1>7, SelectedPicks
<1>9. PICK p : Picks(p, found, ids, I)
  BY <1>7, SelectedPicks
<1> HIDE DEF found
<1> DEFINE N == Len(found)
<1>10. N \in Nat /\ DOMAIN found = 1 .. N
  BY <1>8
<1>11. \A k \in 1 .. N : found[k] \in I /\ found[k] \in 1 .. Len(lines) /\ found[k] = p[k]
  <2> SUFFICES ASSUME NEW k \in 1 .. N
               PROVE  found[k] \in I /\ found[k] \in 1 .. Len(lines) /\ found[k] = p[k]
    OBVIOUS
  <2>1. p[k] \in I /\ found[k] = ids[p[k]]
    BY <1>9 DEF Picks
  <2>2. p[k] \in 1 .. Len(lines)
    BY SMTT(30), <1>7, <2>1
  <2> QED
    BY <1>7, <2>1, <2>2
<1>12. \A j, k \in 1 .. N : j < k => found[j] < found[k]
  <2>1. \A j, k \in 1 .. N : j < k => p[j] < p[k]
    BY <1>9 DEF Picks, Increasing
  <2> QED
    BY <1>11, <2>1
<1>13. ASSUME NEW k \in 1 .. N
       PROVE  hs[k].offset = spans[found[k]].start + At(found[k]) - 1
  <2>1. hs[k] = Heading(found[k])
    BY <1>10
  <2> HIDE DEF hs
  <2>2. hs[k].offset = OffsetOf(lines, found[k]) + At(found[k]) - 1
    BY <2>1
  <2> QED
    BY <1>5, <1>11, <2>2
<1> HIDE DEF At
<1>14. ASSUME NEW k \in 1 .. N
       PROVE  /\ hs[k].offset \in Nat /\ hs[k].offset < Len(text)
              /\ spans[found[k]].start <= hs[k].offset /\ hs[k].offset < spans[found[k]].end
              /\ spans[found[k]].start \in Nat /\ spans[found[k]].end \in Nat
  <2> DEFINE i == found[k]
  <2>1. At(i) \in 1 .. Len(lines[i])
    BY <1>6, <1>11
  <2>2. /\ spans[i].start \in Nat /\ spans[i].end \in Nat /\ spans[i].end <= Len(text)
        /\ Len(lines[i]) = spans[i].end - spans[i].start
    BY <1>5, <1>11
  <2>3. hs[k].offset = spans[i].start + At(i) - 1
    BY <1>13
  <2>4. Len(text) \in Nat
    OBVIOUS
  <2> HIDE DEF i, hs
  <2>5. /\ hs[k].offset \in Nat /\ hs[k].offset < Len(text)
        /\ spans[i].start <= hs[k].offset /\ hs[k].offset < spans[i].end
    BY <2>1, <2>2, <2>3, <2>4
  <2> QED
    BY <2>2, <2>5 DEF i
<1>15. ASSUME NEW j \in 1 .. N, NEW k \in 1 .. N, j < k PROVE hs[j].offset < hs[k].offset
  <2> HIDE DEF hs
  <2>1. spans[found[j]].end <= spans[found[k]].start
    <3>1. found[j] \in 1 .. Len(spans) /\ found[k] \in 1 .. Len(spans) /\ found[j] < found[k]
      BY <1>4, <1>11, <1>12, <1>15
    <3> QED
      BY <1>3, <3>1 DEF Tiles, Laid
  <2>2. /\ hs[j].offset \in Nat /\ hs[j].offset < spans[found[j]].end /\ spans[found[j]].end \in Nat
        /\ hs[k].offset \in Nat /\ spans[found[k]].start <= hs[k].offset /\ spans[found[k]].start \in Nat
    BY <1>14
  <2> QED
    BY <2>1, <2>2
<1>16. hs = [k \in 1 .. N |-> hs[k]]
  BY <1>10
<1> HIDE DEF hs
<1>17. hs \in Seq(Range(hs)) /\ Len(hs) = N
  BY <1>10, <1>16, IsSequence
<1>18. Ordered(hs, Len(text))
  BY <1>14, <1>15, <1>17 DEF Ordered
<1> QED
  BY <1>1, <1>18

\* The states of a text have the offsets of its headings.
LEMMA StatesOrdered ==
    ASSUME NEW A, NEW text \in Seq(A)
    PROVE  /\ Ordered(SectionStates(text), Len(text)) /\ Len(SectionStates(text)) = Len(Headings(text))
           /\ \A k \in 1 .. Len(Headings(text)) : SectionStates(text)[k].offset = Headings(text)[k].offset
<1> DEFINE hs == Headings(text)
           Body(f) == [n \in 0 .. Len(hs) |->
                          IF n = 0 THEN <<>>
                          ELSE LET above == f[n - 1]
                                   kept  == Min({Len(above), hs[n].level - 1})
                               IN  Append(SubSeq(above, 1, kept), hs[n].title)]
           Path == CHOOSE f : f = Body(f)
           ss == [n \in DOMAIN hs |-> [offset |-> hs[n].offset, path |-> Path[n]]]
<1>1. SectionStates(text) = ss
  BY DEF SectionStates
<1>2. Ordered(hs, Len(text))
  BY HeadingsOrdered
<1> HIDE DEF Path, hs
<1>3. hs \in Seq(Range(hs))
  BY <1>2 DEF Ordered
<1>4. DOMAIN hs = 1 .. Len(hs) /\ Len(hs) \in Nat
  BY <1>3
<1>5. ss = [n \in 1 .. Len(hs) |-> ss[n]] /\ \A n \in 1 .. Len(hs) : ss[n].offset = hs[n].offset
  BY <1>4
<1> HIDE DEF ss
<1>6. ss \in Seq(Range(ss)) /\ Len(ss) = Len(hs)
  BY <1>4, <1>5, IsSequence
<1>7. Ordered(ss, Len(text))
  BY <1>2, <1>5, <1>6 DEF Ordered
<1> QED
  BY <1>1, <1>5, <1>6, <1>7 DEF hs

\* Between the offsets of the sections there are quotations without a gap, and no
\* heading begins inside of one.
LEMMA SectionsTile ==
    ASSUME NEW A, NEW text \in Seq(A), NEW states, Ordered(states, Len(text))
    PROVE  /\ Tiles(Sections(text, states), text, 0, Len(text))
           /\ \A n \in 1 .. Len(Sections(text, states)), k \in 1 .. Len(states) :
                  LET sp == Sections(text, states)[n]
                  IN  ~ (sp.start < states[k].offset /\ states[k].offset < sp.end)
<1> DEFINE I == {n \in DOMAIN states : states[n].offset > 0}
           inside == Selected(states, I)
           rest == [n \in DOMAIN inside |-> inside[n].offset]
           o == <<0>> \o rest
           L == Len(text)
           N == Len(o)
           End(n) == IF n = Len(o) THEN Len(text) ELSE o[n + 1]
           ss == [n \in DOMAIN o |-> Span(Slice(text, o[n], End(n)), o[n])]
<1>1. Sections(text, states) = ss
  BY DEF Sections
<1>2. /\ states \in Seq(Range(states)) /\ DOMAIN states = 1 .. Len(states) /\ Len(states) \in Nat
      /\ L \in Nat
      /\ \A k \in 1 .. Len(states) : states[k].offset \in Nat /\ states[k].offset < L
      /\ \A j, k \in 1 .. Len(states) : j < k => states[j].offset < states[k].offset
  <2>1. states \in Seq(Range(states))
    BY DEF Ordered
  <2> QED
    BY <2>1 DEF Ordered
<1>3. I \in SUBSET DOMAIN states
  OBVIOUS
<1>4. inside \in Seq(Range(states)) /\ \E p : Picks(p, inside, states, I)
  BY <1>2, <1>3, SelectedPicks
<1>5. PICK p : Picks(p, inside, states, I)
  BY <1>4
<1> HIDE DEF inside
<1> DEFINE M == Len(inside)
<1>6. M \in Nat /\ DOMAIN inside = 1 .. M
  BY <1>4
<1>7. ASSUME NEW k \in 1 .. M
      PROVE  rest[k] = states[p[k]].offset /\ p[k] \in I /\ rest[k] \in Nat /\ 0 < rest[k] /\ rest[k] < L
  <2>1. p[k] \in I /\ inside[k] = states[p[k]]
    BY <1>5 DEF Picks
  <2>2. rest[k] = inside[k].offset
    BY <1>6
  <2>3. p[k] \in 1 .. Len(states) /\ states[p[k]].offset > 0
    BY <1>2, <2>1
  <2> HIDE DEF rest
  <2> QED
    BY <1>2, <2>1, <2>2, <2>3
<1>8. ASSUME NEW j \in 1 .. M, NEW k \in 1 .. M, j < k PROVE rest[j] < rest[k]
  <2>1. p[j] < p[k] /\ p[j] \in I /\ p[k] \in I
    BY <1>5, <1>8 DEF Picks, Increasing
  <2>2. p[j] \in 1 .. Len(states) /\ p[k] \in 1 .. Len(states)
    BY <1>2, <2>1
  <2>3. states[p[j]].offset < states[p[k]].offset
    BY <1>2, <2>1, <2>2
  <2> HIDE DEF rest, I
  <2> QED
    BY <1>7, <2>3
<1>9. ASSUME NEW k \in 1 .. Len(states), states[k].offset > 0 PROVE \E m \in 1 .. M : rest[m] = states[k].offset
  <2>1. k \in I
    BY <1>2, <1>9
  <2>2. PICK m \in 1 .. M : p[m] = k
    BY <1>5, <2>1 DEF Picks
  <2> HIDE DEF rest, I
  <2> QED
    BY <1>7, <2>2
<1>10. rest \in Seq(Nat) /\ Len(rest) = M
  <2>1. rest = [k \in 1 .. M |-> rest[k]]
    BY <1>6
  <2> HIDE DEF rest, I
  <2>2. rest \in [1 .. M -> Nat]
    BY <1>7, <2>1
  <2> QED
    BY <1>6, <2>2
<1> HIDE DEF rest, I
<1>11. /\ o \in Seq(Nat) /\ N = M + 1 /\ o[1] = 0 /\ DOMAIN o = 1 .. N /\ N \in Nat
       /\ \A k \in 1 .. M : o[k + 1] = rest[k]
  <2>1. 0 \in Nat /\ rest \in Seq(Nat) /\ Len(rest) = M /\ M \in Nat
    BY <1>6, <1>10
  <2>2. /\ o \in Seq(Nat) /\ Len(o) = Len(rest) + 1 /\ DOMAIN o = 1 .. Len(rest) + 1 /\ o[1] = 0
        /\ \A k \in 1 .. Len(rest) : o[k + 1] = rest[k]
    BY ONLY <2>1, Prefixed DEF o
  <2> HIDE DEF o
  <2> QED
    BY <2>1, <2>2 DEF N
<1> HIDE DEF o
<1>12. ASSUME NEW k \in 1 .. N PROVE o[k] \in Nat /\ o[k] <= L /\ (k # 1 => o[k] < L /\ 0 < o[k] /\ o[k] = rest[k - 1])
  <2>1. CASE k = 1
    BY <1>2, <1>11, <2>1
  <2>2. CASE k # 1
    <3>1. k - 1 \in 1 .. M /\ (k - 1) + 1 = k
      BY <1>6, <1>11, <2>2
    <3>2. o[k] = rest[k - 1]
      BY <1>11, <3>1
    <3>3. rest[k - 1] \in Nat /\ 0 < rest[k - 1] /\ rest[k - 1] < L
      BY <1>7, <3>1
    <3> QED
      BY <1>2, <3>2, <3>3
  <2> QED
    BY <2>1, <2>2
<1>13. ASSUME NEW j \in 1 .. N, NEW k \in 1 .. N, j < k PROVE o[j] < o[k]
  <2>1. k # 1 /\ k - 1 \in 1 .. M
    BY <1>6, <1>11, <1>13
  <2>2. CASE j = 1
    BY <1>11, <1>12, <2>1, <2>2
  <2>3. CASE j # 1
    <3>1. j - 1 \in 1 .. M /\ j - 1 < k - 1
      BY <1>6, <1>11, <1>13, <2>3
    <3>2. rest[j - 1] < rest[k - 1]
      BY <1>8, <2>1, <3>1
    <3> QED
      BY <1>12, <2>1, <2>3, <3>2
  <2> QED
    BY <2>2, <2>3
<1> HIDE DEF N, L
<1>14. ASSUME NEW n \in 1 .. N
       PROVE  /\ End(n) \in Nat /\ o[n] <= End(n) /\ End(n) <= L
              /\ (n = N => End(n) = L) /\ (n # N => End(n) = o[n + 1] /\ n + 1 \in 1 .. N)
  <2>1. CASE n = N
    <3>1. End(n) = L
      BY <2>1 DEF N, L
    <3> HIDE DEF End
    <3> QED
      BY <1>2, <1>12, <2>1, <3>1
  <2>2. CASE n # N
    <3>1. End(n) = o[n + 1]
      BY <2>2 DEF N
    <3>2. n + 1 \in 1 .. N /\ n < n + 1
      BY <1>11, <2>2
    <3>3. o[n] < o[n + 1]
      BY <1>13, <3>2
    <3> HIDE DEF End
    <3> QED
      BY <1>12, <2>2, <3>1, <3>2, <3>3
  <2> QED
    BY <2>1, <2>2
<1> HIDE DEF End
<1>15. ASSUME NEW n \in 1 .. N
       PROVE  ss[n] \in Cuts(text) /\ ss[n].start = o[n] /\ ss[n].end = End(n)
  <2>1. ss[n] = Span(Slice(text, o[n], End(n)), o[n])
    BY <1>11
  <2>2. o[n] \in Nat /\ End(n) \in Nat /\ o[n] <= End(n) /\ End(n) <= Len(text)
    BY <1>12, <1>14 DEF L
  <2> HIDE DEF ss
  <2> QED
    BY <2>1, <2>2, CutMade
<1>16. ss = [n \in 1 .. N |-> ss[n]]
  BY <1>11
<1> HIDE DEF ss
<1>17. ss \in Seq(Cuts(text)) /\ Len(ss) = N
  <2>1. ss \in [1 .. N -> Cuts(text)]
    BY <1>15, <1>16
  <2> QED
    BY SMTT(30), <1>11, <2>1
<1>18. ASSUME NEW m \in 1 .. N, NEW n \in 1 .. N, m < n PROVE ss[m].end <= ss[n].start
  <2>1. m # N /\ End(m) = o[m + 1] /\ m + 1 \in 1 .. N
    BY <1>11, <1>14, <1>18
  <2>2. CASE m + 1 = n
    BY <1>12, <1>15, <2>1, <2>2
  <2>3. CASE m + 1 # n
    <3>1. m + 1 < n
      BY <1>11, <1>18, <2>3
    <3>2. o[m + 1] < o[n]
      BY <1>13, <2>1, <3>1
    <3> QED
      BY <1>12, <1>15, <2>1, <3>2
  <2> QED
    BY <2>2, <2>3
<1>19. ASSUME NEW i \in 0 + 1 .. L PROVE \E n \in 1 .. N : ss[n].start < i /\ i <= ss[n].end
  <2> DEFINE J == {n \in 1 .. N : o[n] < i}
  <2>1. 1 \in J /\ J \in SUBSET (1 .. N)
    BY <1>6, <1>11
  <2>2. PICK n \in J : \A k \in J : k <= n
    BY <1>11, <2>1, Greatest
  <2>3. n \in 1 .. N /\ o[n] < i
    BY <2>1
  <2>4. i <= End(n)
    <3>1. CASE n = N
      BY <1>2, <1>14, <2>3, <3>1
    <3>2. CASE n # N
      <4>1. End(n) = o[n + 1] /\ n + 1 \in 1 .. N
        BY <1>14, <2>3, <3>2
      <4>2. n + 1 \notin J
        BY <1>11, <2>2, <2>3
      <4> QED
        BY <1>12, <4>1, <4>2
    <3> QED
      BY <3>1, <3>2
  <2> QED
    BY <1>15, <2>3, <2>4
<1>20. Laid(ss, text, 0, L)
  <2>1. \A n \in 1 .. N : 0 <= ss[n].start /\ ss[n].end <= L
    BY <1>12, <1>14, <1>15
  <2> QED
    BY <1>17, <1>18, <1>19, <2>1 DEF Laid
<1>21. Tight(ss, 0, L)
  <2>1. ss # <<>>
    BY <1>6, <1>11, <1>17
  <2>2. 1 \in 1 .. N /\ N \in 1 .. N
    BY <1>6, <1>11
  <2>3. ss[1].start = 0 /\ ss[N].end = L
    BY <1>11, <1>14, <1>15, <2>2
  <2>4. \A n \in 1 .. N - 1 : ss[n].end = ss[n + 1].start
    <3> SUFFICES ASSUME NEW n \in 1 .. N - 1 PROVE ss[n].end = ss[n + 1].start
      OBVIOUS
    <3>1. n \in 1 .. N /\ n # N /\ n + 1 \in 1 .. N
      BY <1>11
    <3> QED
      BY <1>14, <1>15, <3>1
  <2> QED
    BY <1>17, <2>1, <2>3, <2>4 DEF Tight
<1>22. ASSUME NEW n \in 1 .. N, NEW k \in 1 .. Len(states), ss[n].start < states[k].offset,
              states[k].offset < ss[n].end
       PROVE  FALSE
  <2>1. states[k].offset > 0 /\ states[k].offset \in Nat
    BY <1>2, <1>12, <1>15, <1>22
  <2>2. PICK m \in 1 .. M : rest[m] = states[k].offset
    BY <1>9, <2>1
  <2>3. m + 1 \in 1 .. N /\ o[m + 1] = states[k].offset
    BY <1>6, <1>11, <2>2
  <2>4. o[n] < o[m + 1] /\ o[m + 1] < End(n)
    BY <1>15, <1>22, <2>3
  <2>5. CASE m + 1 <= n
    <3>1. CASE m + 1 = n
      BY <1>12, <2>4, <3>1
    <3>2. CASE m + 1 # n
      <4>1. m + 1 < n
        BY <1>11, <2>3, <2>5, <3>2
      <4>2. o[m + 1] < o[n]
        BY <1>13, <2>3, <4>1
      <4> QED
        BY <1>12, <2>3, <2>4, <4>2
    <3> QED
      BY <3>1, <3>2
  <2>6. CASE ~ (m + 1 <= n)
    <3>1. n # N /\ n + 1 \in 1 .. N /\ End(n) = o[n + 1]
      BY SMTT(30), <1>11, <1>14, <2>3, <2>6
    <3>2. CASE m + 1 = n + 1
      BY <1>12, <2>3, <2>4, <3>1, <3>2
    <3>3. CASE m + 1 # n + 1
      <4>1. n + 1 < m + 1
        BY <1>11, <2>3, <2>6, <3>3
      <4>2. o[n + 1] < o[m + 1]
        BY <1>13, <2>3, <3>1, <4>1
      <4> QED
        BY <1>12, <2>3, <2>4, <3>1, <4>2
    <3> QED
      BY <3>2, <3>3
  <2> QED
    BY <2>5, <2>6
<1> QED
  BY <1>1, <1>17, <1>20, <1>21, <1>22 DEF Tiles, L
-----------------------------------------------------------------------------
(* Chunks.                                                                  *)

\* The spans of src in which no section begins.
Whole(src, states) ==
    {c \in Cuts(src) : \A k \in 1 .. Len(states) :
                           ~ (c.start < states[k].offset /\ states[k].offset < c.end)}

\* What lies in a span of one section lies in that section.
LEMMA LaidWhole ==
    ASSUME NEW A, NEW src \in Seq(A), NEW states, \A k \in 1 .. Len(states) : states[k].offset \in Int,
           NEW c \in Whole(src, states), NEW spans, Laid(spans, src, c.start, c.end)
    PROVE  spans \in Seq(Whole(src, states))
<1>1. spans \in Seq(Cuts(src))
  BY DEF Laid
<1>2. ASSUME NEW n \in 1 .. Len(spans) PROVE spans[n] \in Whole(src, states)
  <2>1. spans[n] \in Cuts(src) /\ c \in Cuts(src)
    BY <1>1 DEF Whole
  <2>2. spans[n].start \in Int /\ spans[n].end \in Int /\ c.start \in Int /\ c.end \in Int
    BY <2>1, CutIs
  <2>3. c.start <= spans[n].start /\ spans[n].end <= c.end
    BY DEF Laid
  <2>4. ASSUME NEW k \in 1 .. Len(states), spans[n].start < states[k].offset, states[k].offset < spans[n].end
        PROVE  c.start < states[k].offset /\ states[k].offset < c.end
    BY <2>2, <2>3, <2>4
  <2> QED
    BY <2>1, <2>4 DEF Whole
<1> QED
  BY <1>1, <1>2

\* The spans of a text lie in it without an overlap, each in one section, and are not too
\* large; what is outside of them is whitespace.
LEMMA FinalLaid ==
    ASSUME NEW A, NEW text \in Seq(A)
    PROVE  /\ Laid(FinalSpans(text), text, 0, Len(text))
           /\ FinalSpans(text) \in Seq(FitCuts(text) \cap Whole(text, SectionStates(text)))
<1> DEFINE W == Whole(text, SectionStates(text))
           n == Len(text)
           sections == Sections(text, SectionStates(text))
           packs == [k \in DOMAIN sections |-> PackSection(sections[k])]
           packed == FlattenSeq(packs)
           norms == [k \in DOMAIN packed |-> NormalizeSpan(text, packed[k])]
           normal == FlattenSeq(norms)
           ends == [k \in DOMAIN normal |-> EnforceMax(text, normal[k])]
<1>1. n \in Nat /\ 0 \in Int /\ n \in Int /\ 0 <= n
  OBVIOUS
<1>2. \A k \in 1 .. Len(SectionStates(text)) : SectionStates(text)[k].offset \in Int
  BY StatesOrdered DEF Ordered
<1>3. W \in SUBSET Cuts(text)
  BY DEF Whole
<1>4. FinalSpans(text) = IF IsBlank(text) THEN <<>> ELSE FlattenSeq(ends)
  BY DEF FinalSpans, PackedSpans, FlatMap, Map
<1>5. Laid(sections, text, 0, n) /\ sections \in Seq(W)
  <2>1. Ordered(SectionStates(text), Len(text))
    BY StatesOrdered
  <2> DEFINE states == SectionStates(text)
  <2> HIDE DEF states
  <2>2. /\ Tiles(Sections(text, states), text, 0, Len(text))
        /\ \A m \in 1 .. Len(Sections(text, states)), k \in 1 .. Len(states) :
               ~ (Sections(text, states)[m].start < states[k].offset /\ states[k].offset < Sections(text, states)[m].end)
    <3>1. Ordered(states, Len(text))
      BY <2>1 DEF states
    <3> QED
      BY <3>1, SectionsTile
  <2>3. sections = Sections(text, states)
    BY DEF states
  <2> HIDE DEF sections
  <2>4. Laid(sections, text, 0, n) /\ sections \in Seq(Cuts(text))
    BY <2>2, <2>3 DEF Tiles, Laid
  <2>5. \A m \in 1 .. Len(sections) : sections[m] \in W
    BY <2>2, <2>3, <2>4 DEF Whole, states
  <2> QED
    BY <2>4, <2>5
<1> DEFINE Bounds(s) == Laid(s, text, 0, n)
<1>6. Laid(packed, text, 0, n) /\ packed \in Seq(W)
  <2> HIDE DEF sections
  <2>1. packs = [k \in DOMAIN sections |-> packs[k]]
    OBVIOUS
  <2>2. ASSUME NEW k \in 1 .. Len(sections)
        PROVE  Laid(packs[k], text, sections[k].start, sections[k].end) /\ packs[k] \in Seq(W)
    <3>1. sections[k] \in W /\ packs[k] = PackSection(sections[k])
      BY <1>5
    <3>2. Laid(packs[k], text, sections[k].start, sections[k].end)
      BY <1>3, <3>1, PackSectionTiles DEF Tiles
    <3> HIDE DEF packs
    <3> QED
      BY ONLY text \in Seq(A), <1>2, <3>1, <3>2, LaidWhole
  <2> HIDE DEF packs, n, W
  <2> QED
    BY ONLY text \in Seq(A), <1>1, <1>3, <1>5, <2>1, <2>2, MapLaid
<1>7. Laid(normal, text, 0, n) /\ normal \in Seq(W \cap InkCuts(text))
  <2> HIDE DEF packed
  <2> DEFINE X == W \cap InkCuts(text)
  <2>1. norms = [k \in DOMAIN packed |-> norms[k]]
    OBVIOUS
  <2>2. ASSUME NEW k \in 1 .. Len(packed)
        PROVE  Laid(norms[k], text, packed[k].start, packed[k].end) /\ norms[k] \in Seq(X)
    <3>1. packed[k] \in W /\ norms[k] = NormalizeSpan(text, packed[k])
      BY <1>6
    <3>2. Laid(norms[k], text, packed[k].start, packed[k].end) /\ norms[k] \in Seq(InkCuts(text))
      BY <1>3, <3>1, NormalizeLaid
    <3> HIDE DEF norms
    <3>3. norms[k] \in Seq(W)
      BY ONLY text \in Seq(A), <1>2, <3>1, <3>2, LaidWhole
    <3> HIDE DEF W
    <3> QED
      BY <3>2, <3>3
  <2>3. X \in SUBSET Cuts(text)
    BY <1>3
  <2> HIDE DEF norms, n, X
  <2> QED
    BY ONLY ZenonT(30), text \in Seq(A), <1>1, <2>3, <1>6, <2>1, <2>2, MapLaid DEF X
<1>8. Laid(FlattenSeq(ends), text, 0, n) /\ FlattenSeq(ends) \in Seq(FitCuts(text) \cap W)
  <2> HIDE DEF normal
  <2> DEFINE X == FitCuts(text) \cap W
  <2>1. ends = [k \in DOMAIN normal |-> ends[k]]
    OBVIOUS
  <2>2. ASSUME NEW k \in 1 .. Len(normal)
        PROVE  Laid(ends[k], text, normal[k].start, normal[k].end) /\ ends[k] \in Seq(X)
    <3>1. normal[k] \in W /\ normal[k] \in InkCuts(text) /\ ends[k] = EnforceMax(text, normal[k])
      BY <1>7
    <3>2. Laid(ends[k], text, normal[k].start, normal[k].end) /\ ends[k] \in Seq(FitCuts(text))
      BY <3>1, EnforceLaid
    <3> HIDE DEF ends
    <3>3. ends[k] \in Seq(W)
      BY ONLY text \in Seq(A), <1>2, <3>1, <3>2, LaidWhole
    <3> HIDE DEF W
    <3> QED
      BY <3>2, <3>3
  <2>3. X \in SUBSET Cuts(text)
    BY <1>3
  <2> HIDE DEF ends, n, X
  <2> QED
    BY ONLY ZenonT(30), text \in Seq(A), <1>1, <2>3, <1>7, <2>1, <2>2, MapLaid DEF X
<1>9. CASE IsBlank(text)
  <2>1. \A i \in 1 .. n : text[i] \in Whitespace
    BY <1>9 DEF IsBlank, Range
  <2>2. Laid(<<>>, text, 0, n)
    BY <1>1, <2>1 DEF Laid
  <2> QED
    BY <1>4, <1>9, <2>2
<1>10. CASE ~ IsBlank(text)
  <2> HIDE DEF ends
  <2> QED
    BY <1>4, <1>8, <1>10
<1> QED
  BY <1>9, <1>10

\* The positions of the chunks that have no equal before them.
Firsts(chunks) ==
    {i \in DOMAIN chunks : \A k \in 1 .. i - 1 :
        ~ (chunks[k].text = chunks[i].text /\ chunks[k].path = chunks[i].path)}

\* The chunks of a text are those of its spans, in their order, each text once.
LEMMA ChunksPicked ==
    ASSUME NEW A, NEW text \in Seq(A)
    PROVE  \E all, p :
               /\ Len(all) = Len(FinalSpans(text)) /\ DOMAIN all = 1 .. Len(all)
               /\ \A i \in 1 .. Len(all) : all[i] = ChunkOf(FinalSpans(text)[i], SectionStates(text))
               /\ Len(ChunkMarkdown(text)) \in Nat
               /\ DOMAIN ChunkMarkdown(text) = 1 .. Len(ChunkMarkdown(text))
               /\ Picks(p, ChunkMarkdown(text), all, Firsts(all))
<1> DEFINE spans == FinalSpans(text)
           all == ChunksOf(SectionStates(text), spans)
           T == Range(all)
<1>1. spans \in Seq(FitCuts(text) \cap Whole(text, SectionStates(text)))
  BY FinalLaid
<1>2. DOMAIN spans = 1 .. Len(spans) /\ Len(spans) \in Nat
  BY <1>1
<1>3. all = [i \in 1 .. Len(spans) |-> ChunkOf(spans[i], SectionStates(text))]
  BY <1>2 DEF ChunksOf, Map
<1>4. Len(all) = Len(spans) /\ DOMAIN all = 1 .. Len(all)
      /\ \A i \in 1 .. Len(all) : all[i] = ChunkOf(spans[i], SectionStates(text))
  <2> HIDE DEF spans
  <2> QED
    BY <1>2, <1>3
<1>5. ChunkMarkdown(text) = DropDuplicates(all)
  BY DEF ChunkMarkdown
<1> HIDE DEF all
<1>6. all \in Seq(T)
  <2>1. all = [i \in 1 .. Len(spans) |-> all[i]]
    BY <1>3
  <2> HIDE DEF spans
  <2> QED
    BY <1>2, <2>1, IsSequence
<1>7. DropDuplicates(all) = Selected(all, Firsts(all))
  <2>1. DOMAIN all \ {i \in DOMAIN all : \E k \in 1 .. i - 1 :
                        all[k].text = all[i].text /\ all[k].path = all[i].path} = Firsts(all)
    BY DEF Firsts
  <2> QED
    BY <2>1 DEF DropDuplicates, Without
<1>8. Firsts(all) \in SUBSET DOMAIN all
  BY DEF Firsts
<1> HIDE DEF T
<1>9. Selected(all, Firsts(all)) \in Seq(T) /\ \E p : Picks(p, Selected(all, Firsts(all)), all, Firsts(all))
  BY ONLY <1>6, <1>8, SelectedPicks
<1> HIDE DEF spans
<1>10. ChunkMarkdown(text) \in Seq(T) /\ \E p : Picks(p, ChunkMarkdown(text), all, Firsts(all))
  BY <1>5, <1>7, <1>9
<1>11. Len(ChunkMarkdown(text)) \in Nat /\ DOMAIN ChunkMarkdown(text) = 1 .. Len(ChunkMarkdown(text))
  BY <1>10
<1> QED
  BY <1>4, <1>10, <1>11 DEF spans

\* A chunk quotes the text between its offsets, and is not too large; the chunks follow one
\* another.
LEMMA ChunksQuote ==
    ASSUME NEW A, NEW text \in Seq(A)
    PROVE  /\ \A n \in DOMAIN ChunkMarkdown(text) :
                  LET c == ChunkMarkdown(text)[n]
                  IN  /\ c.text # <<>> /\ Slice(text, c.start, c.end) = c.text
                      /\ Tokens(c.text) <= MaxChunk
           /\ \A n \in 1 .. Len(ChunkMarkdown(text)) - 1 :
                  ChunkMarkdown(text)[n].end <= ChunkMarkdown(text)[n + 1].start
<1> DEFINE spans == FinalSpans(text)
           chunks == ChunkMarkdown(text)
           states == SectionStates(text)
<1>1. PICK all, p : /\ Len(all) = Len(spans) /\ DOMAIN all = 1 .. Len(all)
                    /\ \A i \in 1 .. Len(all) : all[i] = ChunkOf(spans[i], states)
                    /\ Len(chunks) \in Nat /\ DOMAIN chunks = 1 .. Len(chunks)
                    /\ Picks(p, chunks, all, Firsts(all))
  BY ChunksPicked
<1>2. Laid(spans, text, 0, Len(text)) /\ spans \in Seq(FitCuts(text) \cap Whole(text, states))
  BY FinalLaid
<1> HIDE DEF spans, chunks, states
<1>3. ASSUME NEW n \in 1 .. Len(chunks)
      PROVE  /\ p[n] \in 1 .. Len(spans) /\ spans[p[n]] \in FitCuts(text)
             /\ chunks[n].text = spans[p[n]].text /\ chunks[n].start = spans[p[n]].start
             /\ chunks[n].end = spans[p[n]].end
  <2>1. p[n] \in Firsts(all) /\ chunks[n] = all[p[n]]
    BY <1>1 DEF Picks
  <2>2. p[n] \in 1 .. Len(spans) /\ chunks[n] = ChunkOf(spans[p[n]], states)
    BY <1>1, <2>1 DEF Firsts
  <2> QED
    BY <1>2, <2>2 DEF ChunkOf
<1>4. ASSUME NEW n \in 1 .. Len(chunks)
      PROVE  /\ chunks[n].text # <<>> /\ Slice(text, chunks[n].start, chunks[n].end) = chunks[n].text
             /\ Tokens(chunks[n].text) <= MaxChunk
  <2>1. spans[p[n]] \in Cuts(text) /\ spans[p[n]].text # <<>> /\ Tokens(spans[p[n]].text) <= MaxChunk
    BY <1>3 DEF FitCuts
  <2>2. spans[p[n]].text = Slice(text, spans[p[n]].start, spans[p[n]].end)
    BY <2>1, CutIs
  <2> QED
    BY <1>3, <2>1, <2>2
<1>5. ASSUME NEW n \in 1 .. Len(chunks) - 1 PROVE chunks[n].end <= chunks[n + 1].start
  <2>1. n \in 1 .. Len(chunks) /\ n + 1 \in 1 .. Len(chunks) /\ n < n + 1
    BY <1>1
  <2>2. p \in [1 .. Len(chunks) -> Firsts(all)] /\ Increasing(p)
    BY <1>1 DEF Picks
  <2>3. p[n] < p[n + 1]
    BY <2>1, <2>2 DEF Increasing
  <2>4. spans[p[n]].end <= spans[p[n + 1]].start
    BY <1>2, <1>3, <2>1, <2>3 DEF Laid
  <2> QED
    BY <1>3, <2>1, <2>4
<1>6. \A n \in DOMAIN chunks :
          LET c == chunks[n]
          IN  c.text # <<>> /\ Slice(text, c.start, c.end) = c.text /\ Tokens(c.text) <= MaxChunk
  BY <1>1, <1>4
<1> QED
  BY <1>5, <1>6 DEF chunks

\* What is in no chunk is whitespace, or says what a chunk of the same section says.
LEMMA ChunksCover ==
    ASSUME NEW A, NEW text \in Seq(A), NEW i \in InkAt(text)
    PROVE  \E n \in DOMAIN ChunkMarkdown(text) :
              LET c == ChunkMarkdown(text)[n]
              IN  \/ c.start < i /\ i <= c.end
                  \/ \E o \in 0 .. i - 1 :
                        /\ i <= o + Len(c.text) /\ o + Len(c.text) <= Len(text)
                        /\ Slice(text, o, o + Len(c.text)) = c.text
                        /\ PathFor(SectionStates(text), o) = c.path
<1> DEFINE spans == FinalSpans(text)
           chunks == ChunkMarkdown(text)
           states == SectionStates(text)
<1>1. PICK all, p : /\ Len(all) = Len(spans) /\ DOMAIN all = 1 .. Len(all)
                    /\ \A m \in 1 .. Len(all) : all[m] = ChunkOf(spans[m], states)
                    /\ Len(chunks) \in Nat /\ DOMAIN chunks = 1 .. Len(chunks)
                    /\ Picks(p, chunks, all, Firsts(all))
  BY ChunksPicked
<1>2. Laid(spans, text, 0, Len(text)) /\ spans \in Seq(FitCuts(text) \cap Whole(text, states))
  BY FinalLaid
<1> HIDE DEF spans, chunks, states
<1>3. i \in 0 + 1 .. Len(text) /\ text[i] \notin Whitespace
  BY DEF InkAt
<1>4. PICK m \in 1 .. Len(spans) : spans[m].start < i /\ i <= spans[m].end
  BY <1>2, <1>3 DEF Laid
<1>5. Len(spans) \in Nat /\ spans[m] \in Cuts(text)
  BY <1>2 DEF FitCuts
\* The first chunk that says the same.
<1> DEFINE Same == {k \in 1 .. m : all[k].text = all[m].text /\ all[k].path = all[m].path}
<1>6. m \in Same /\ Same \in SUBSET Nat
  BY <1>1, <1>5
<1>7. PICK f \in Same : \A k \in Same : f <= k
  BY <1>6, Least
<1>8. f \in Firsts(all)
  <2>1. f \in 1 .. m /\ all[f].text = all[m].text /\ all[f].path = all[m].path
    BY <1>7
  <2>2. f \in DOMAIN all
    BY <1>1, <1>5, <2>1
  <2>3. ASSUME NEW k \in 1 .. f - 1, all[k].text = all[f].text, all[k].path = all[f].path PROVE FALSE
    <3>1. k \in 1 .. m /\ k < f
      BY <2>1
    <3>2. k \in Same
      BY <2>1, <2>3, <3>1
    <3> QED
      BY <1>7, <2>1, <3>1, <3>2
  <2> QED
    BY <2>2, <2>3 DEF Firsts
<1>9. PICK n \in 1 .. Len(chunks) : p[n] = f
  BY <1>1, <1>8 DEF Picks
<1>10. chunks[n] = all[f] /\ all[f].text = all[m].text /\ all[f].path = all[m].path
  BY <1>1, <1>7, <1>9 DEF Picks
<1>11. all[m].text = spans[m].text /\ all[m].path = PathFor(states, spans[m].start)
  <2>1. all[m] = ChunkOf(spans[m], states)
    BY <1>1
  <2> QED
    BY <2>1 DEF ChunkOf
<1> DEFINE o == spans[m].start
           c == chunks[n]
<1>12. /\ o \in 0 .. i - 1 /\ i <= o + Len(c.text) /\ o + Len(c.text) <= Len(text)
       /\ Slice(text, o, o + Len(c.text)) = c.text /\ PathFor(states, o) = c.path
  <2>1. /\ spans[m].start \in Nat /\ spans[m].end \in Nat /\ spans[m].end <= Len(text)
        /\ spans[m].text = Slice(text, spans[m].start, spans[m].end)
        /\ Len(spans[m].text) = spans[m].end - spans[m].start
    BY <1>5, CutIs
  <2>2. c.text = spans[m].text /\ PathFor(states, o) = c.path
    BY <1>10, <1>11
  <2>3. o + Len(c.text) = spans[m].end
    BY <2>1, <2>2
  <2>4. o \in 0 .. i - 1
    BY <1>3, <1>4, <2>1
  <2> HIDE DEF o, c
  <2> QED
    BY <1>4, <2>1, <2>2, <2>3, <2>4 DEF o
<1>13. n \in DOMAIN chunks
  BY <1>1
<1> HIDE DEF o
<1> QED
  BY <1>12, <1>13 DEF chunks, states

\* A heading is of one of the levels.
LEMMA HeadingLevels ==
    ASSUME NEW A, NEW text \in Seq(A), NEW k \in 1 .. Len(Headings(text))
    PROVE  Headings(text)[k].level \in {1, 2}
<1> DEFINE lines == KeptLines(text)
           At(i) == Min(InkAt(lines[i]))
           IsAtx(i) ==
               /\ MarkedBy(lines[i], HeadingMark)
               /\ ~IsBlank(SubSeq(lines[i], At(i) + 1, Len(lines[i])))
               /\ OpenFence(lines, i) = "none"
           Heading(i) == [level |-> Level[lines[i][At(i)]],
                          title |-> Strip(SubSeq(lines[i], At(i) + 1, Len(lines[i]))),
                          offset |-> OffsetOf(lines, i) + At(i) - 1]
           ids == [i \in DOMAIN lines |-> i]
           I == {i \in DOMAIN lines : IsAtx(i)}
           found == Selected(ids, I)
           hs == [m \in DOMAIN found |-> Heading(found[m])]
<1>1. Headings(text) = hs
  BY DEF Headings, Map
<1>2. lines \in Seq(Seq(A)) /\ DOMAIN lines = 1 .. Len(lines) /\ Len(lines) \in Nat
  <2>1. lines \in Seq(Seq(A))
    BY LinesTile
  <2> QED
    BY <2>1
<1> HIDE DEF lines
<1>3. ids \in Seq(1 .. Len(lines)) /\ I \in SUBSET DOMAIN ids /\ DOMAIN ids = 1 .. Len(lines)
      /\ \A i \in 1 .. Len(lines) : ids[i] = i
  BY <1>2
<1>4. \A i \in I : lines[i][At(i)] \in HeadingMark
  BY DEF MarkedBy
<1> HIDE DEF ids, I
<1>5. found \in Seq(1 .. Len(lines)) /\ \E p : Picks(p, found, ids, I)
  BY <1>3, SelectedPicks
<1>6. PICK p : Picks(p, found, ids, I)
  BY <1>5
<1> HIDE DEF found
<1>7. DOMAIN found = 1 .. Len(found) /\ Len(found) \in Nat /\ Len(hs) = Len(found)
  BY <1>5
<1>8. k \in 1 .. Len(found) /\ hs[k] = Heading(found[k])
  BY <1>1, <1>7
<1>9. found[k] \in I
  <2>1. p[k] \in I /\ found[k] = ids[p[k]]
    BY <1>6, <1>8 DEF Picks
  <2> QED
    BY <1>3, <2>1
<1>10. lines[found[k]][At(found[k])] \in HeadingMark
  BY <1>4, <1>9
<1>11. \A m \in HeadingMark : Level[m] \in {1, 2}
  BY DEF HeadingMark, Level
<1>12. hs[k].level = Level[lines[found[k]][At(found[k])]]
  BY <1>8
<1> QED
  BY <1>1, <1>10, <1>11, <1>12

\* The path of a section ends with the title of its heading.
LEMMA PathEnds ==
    ASSUME NEW A, NEW text \in Seq(A), NEW k \in 1 .. Len(Headings(text))
    PROVE  /\ SectionStates(text)[k].path # <<>>
           /\ Last(SectionStates(text)[k].path) = Headings(text)[k].title
<1> DEFINE hs == Headings(text)
           N == Len(hs)
           X == {hs[m].title : m \in 1 .. N}
           New(n, above) == Append(SubSeq(above, 1, Min({Len(above), hs[n].level - 1})), hs[n].title)
           Body(f) == [n \in 0 .. Len(hs) |->
                          IF n = 0 THEN <<>>
                          ELSE LET above == f[n - 1]
                                   kept  == Min({Len(above), hs[n].level - 1})
                               IN  Append(SubSeq(above, 1, kept), hs[n].title)]
           Path == CHOOSE f : f = Body(f)
           h == [kv \in (1 .. N) \X Seq(X) |-> New(kv[1], kv[2])]
<1>1. SectionStates(text) = [n \in DOMAIN hs |-> [offset |-> hs[n].offset, path |-> Path[n]]]
  BY DEF SectionStates
<1>2. hs \in Seq(Range(hs))
  BY HeadingsOrdered DEF Ordered
<1>3. \A n \in 1 .. N : hs[n].level \in {1, 2}
  BY HeadingLevels
<1> HIDE DEF hs
<1>4. DOMAIN hs = 1 .. N /\ N \in Nat /\ k \in 1 .. N
  BY <1>2 DEF hs
<1>5. ASSUME NEW n \in 1 .. N, NEW v \in Seq(X)
      PROVE  /\ New(n, v) \in Seq(X) /\ New(n, v) # <<>> /\ Last(New(n, v)) = hs[n].title
  <2> DEFINE J == {Len(v), hs[n].level - 1}
             m == Min(J)
             u == SubSeq(v, 1, m)
  <2>1. J # {} /\ J \in SUBSET (0 .. Len(v) + 1) /\ 0 \in Int /\ Len(v) + 1 \in Int
    BY <1>3
  <2>2. m \in J /\ \A x \in J : m <= x
    <3> HIDE DEF J
    <3> QED
      BY ONLY <2>1, MinOf
  <2>3. m \in 0 .. Len(v)
    BY <2>1, <2>2
  <2> HIDE DEF m
  <2>4. u \in Seq(X) /\ hs[n].title \in X
    BY <2>3
  <2>5. New(n, v) = Append(u, hs[n].title)
    BY DEF m
  <2> HIDE DEF u, X, New
  <2>6. /\ Append(u, hs[n].title) \in Seq(X) /\ Len(Append(u, hs[n].title)) = Len(u) + 1 /\ Len(u) \in Nat
        /\ Append(u, hs[n].title)[Len(u) + 1] = hs[n].title
    BY <2>4
  <2> DEFINE w == Append(u, hs[n].title)
  <2>7. w \in Seq(X) /\ Len(w) = Len(u) + 1 /\ Len(u) \in Nat /\ w[Len(u) + 1] = hs[n].title
    BY <2>6
  <2> HIDE DEF w
  <2>8. Last(w) = hs[n].title /\ w # <<>>
    BY <2>7 DEF Last
  <2> QED
    BY <2>5, <2>7, <2>8 DEF w
<1>6. Steps(h, 1 .. N, Seq(X))
  <2> SUFFICES ASSUME NEW n \in 1 .. N, NEW v \in Seq(X)
               PROVE  h[<<n, v>>] \in Seq(X)
    BY DEF Steps
  <2>1. h[<<n, v>>] = New(n, v)
    OBVIOUS
  <2> HIDE DEF h, New, X
  <2> QED
    BY <1>5, <2>1
<1>7. <<>> \in Seq(X)
  OBVIOUS
<1>8. \A n \in 1 .. N, v \in Seq(X) : h[<<n, v>>] = New(n, v)
  OBVIOUS
<1> HIDE DEF h, X
<1>9. PICK f : Rises(f, N, Seq(X), <<>>, h)
  BY ONLY <1>4, <1>6, <1>7, Rising
<1>10. f = Body(f)
  <2>1. f \in [0 .. N -> Seq(X)] /\ f[0] = <<>> /\ \A n \in 1 .. N : f[n] = h[<<n, f[n - 1]>>]
    BY <1>9 DEF Rises
  <2>2. ASSUME NEW n \in 1 .. N PROVE f[n] = New(n, f[n - 1])
    <3>1. f[n - 1] \in Seq(X)
      BY <1>4, <2>1
    <3> QED
      BY <1>8, <2>1, <3>1
  <2>3. ASSUME NEW n \in 0 .. N PROVE f[n] = IF n = 0 THEN <<>> ELSE New(n, f[n - 1])
    <3> HIDE DEF New
    <3> QED
      BY <1>4, <2>1, <2>2
  <2> HIDE DEF New
  <2>4. f = [n \in 0 .. N |-> IF n = 0 THEN <<>> ELSE New(n, f[n - 1])]
    BY <2>1, <2>3
  <2> QED
    BY <2>4 DEF New
<1>11. /\ Path[0] = <<>>
       /\ \A n \in 1 .. N : Path[n] = New(n, Path[n - 1])
  <2>1. Path = Body(Path)
    BY <1>10
  <2> HIDE DEF Path
  <2>2. \A n \in 0 .. N : Path[n] = Body(Path)[n]
    BY <2>1
  <2>3. \A n \in 0 .. N : Body(Path)[n] = IF n = 0 THEN <<>> ELSE New(n, Path[n - 1])
    OBVIOUS
  <2> HIDE DEF Body, New
  <2> QED
    BY <1>4, <2>2, <2>3
<1> HIDE DEF Path
<1>12. \A n \in 0 .. N : Path[n] \in Seq(X)
  <2> DEFINE S == {n \in 0 .. N : Path[n] \in Seq(X)}
  <2>1. 0 \in S
    <3>1. Path[0] \in Seq(X) /\ 0 \in 0 .. N
      BY ONLY <1>4, <1>7, <1>11
    <3> HIDE DEF New
    <3> QED
      BY <3>1
  <2>2. ASSUME NEW n \in 1 .. N, n - 1 \in S PROVE n \in S
    <3>1. Path[n] = New(n, Path[n - 1]) /\ Path[n - 1] \in Seq(X)
      BY <1>11, <2>2
    <3> HIDE DEF New
    <3>2. Path[n] \in Seq(X)
      BY <1>5, <3>1
    <3> QED
      BY <1>4, <3>2
  <2>3. \A n \in 0 .. N : n \in S
    <3> HIDE DEF S
    <3> QED
      BY ONLY <1>4, <2>1, <2>2, Forwards
  <2> QED
    BY <2>3
<1>13. Path[k] = New(k, Path[k - 1]) /\ Path[k - 1] \in Seq(X)
  <2>1. k - 1 \in 0 .. N
    BY <1>4
  <2> HIDE DEF New
  <2> QED
    BY <1>4, <1>11, <1>12, <2>1
<1>14. SectionStates(text)[k].path = Path[k]
  BY <1>1, <1>4
<1> HIDE DEF New
<1> QED
  BY <1>4, <1>5, <1>13, <1>14 DEF hs

\* A chunk lies in one section, and one that begins with a heading is in its section.
LEMMA ChunksInSections ==
    ASSUME NEW A, NEW text \in Seq(A),
           NEW n \in DOMAIN ChunkMarkdown(text), NEW k \in DOMAIN Headings(text)
    PROVE  LET c == ChunkMarkdown(text)[n]
               heading == Headings(text)[k]
           IN  /\ ~ (c.start < heading.offset /\ heading.offset < c.end)
               /\ heading.offset = c.start => c.path # <<>> /\ Last(c.path) = heading.title
<1> DEFINE spans == FinalSpans(text)
           chunks == ChunkMarkdown(text)
           states == SectionStates(text)
           hs == Headings(text)
           c == chunks[n]
<1>1. PICK all, p : /\ Len(all) = Len(spans) /\ DOMAIN all = 1 .. Len(all)
                    /\ \A i \in 1 .. Len(all) : all[i] = ChunkOf(spans[i], states)
                    /\ Len(chunks) \in Nat /\ DOMAIN chunks = 1 .. Len(chunks)
                    /\ Picks(p, chunks, all, Firsts(all))
  BY ChunksPicked
<1>2. spans \in Seq(FitCuts(text) \cap Whole(text, states))
  BY FinalLaid
<1>3. /\ hs \in Seq(Range(hs)) /\ Ordered(states, Len(text)) /\ Len(states) = Len(hs)
      /\ \A m \in 1 .. Len(hs) : states[m].offset = hs[m].offset
  BY HeadingsOrdered, StatesOrdered DEF Ordered
<1>4. k \in 1 .. Len(hs) /\ Len(hs) \in Nat
  BY <1>3
<1>5. states[k].path # <<>> /\ Last(states[k].path) = hs[k].title
  BY <1>4, PathEnds
<1>6. n \in 1 .. Len(chunks)
  BY <1>1
<1> HIDE DEF spans, chunks, states, hs
<1>7. p[n] \in Firsts(all) /\ c = all[p[n]]
  BY <1>1, <1>6 DEF Picks
<1>8. p[n] \in 1 .. Len(spans) /\ c = ChunkOf(spans[p[n]], states)
  BY <1>1, <1>7 DEF Firsts
<1>9. spans[p[n]] \in Whole(text, states) /\ spans[p[n]] \in Cuts(text)
  BY <1>2, <1>8 DEF FitCuts
<1>10. c.start = spans[p[n]].start /\ c.end = spans[p[n]].end /\ c.path = PathFor(states, c.start)
  BY <1>8 DEF ChunkOf
<1>11. /\ states \in Seq(Range(states))
       /\ \A m \in 1 .. Len(states) : states[m].offset \in Nat
       /\ \A i, m \in 1 .. Len(states) : i < m => states[i].offset < states[m].offset
  BY <1>3 DEF Ordered
<1>12. ~ (c.start < hs[k].offset /\ hs[k].offset < c.end)
  <2>1. hs[k].offset = states[k].offset /\ k \in 1 .. Len(states)
    BY <1>3, <1>4
  <2> QED
    BY <1>9, <1>10, <2>1 DEF Whole
<1>13. ASSUME hs[k].offset = c.start PROVE c.path = states[k].path
  <2> DEFINE before == {m \in DOMAIN states : states[m].offset <= c.start}
  <2>1. DOMAIN states = 1 .. Len(states) /\ Len(states) \in Nat
    BY <1>11
  <2>2. k \in 1 .. Len(states) /\ states[k].offset = c.start /\ c.start \in Nat
    BY <1>3, <1>4, <1>11, <1>13
  <2>3. k \in before /\ before # {} /\ before \in SUBSET (1 .. Len(states))
    BY <2>1, <2>2
  <2>4. 1 \in Int /\ Len(states) \in Int
    BY <2>1
  <2>5. \A m \in before : m <= k
    <3>1. ASSUME NEW m \in before, ~ (m <= k) PROVE FALSE
      <4>1. m \in 1 .. Len(states) /\ states[m].offset <= c.start /\ k < m
        BY <2>1, <2>2, <3>1
      <4>2. states[k].offset < states[m].offset
        BY <1>11, <2>2, <4>1
      <4> QED
        BY <1>11, <2>2, <4>1, <4>2
    <3> QED
      BY <3>1
  <2>6. c.path = states[Max(before)].path
    BY <1>10, <2>3 DEF PathFor
  <2> HIDE DEF before
  <2>7. Max(before) \in before /\ \A m \in before : m <= Max(before)
    BY ONLY <2>3, <2>4, MaxOf
  <2>8. Max(before) = k
    BY <2>1, <2>3, <2>5, <2>7
  <2> QED
    BY <2>6, <2>8
<1>14. hs[k].offset = c.start => c.path # <<>> /\ Last(c.path) = hs[k].title
  BY <1>5, <1>13
<1> QED
  BY <1>12, <1>14 DEF hs, chunks
-----------------------------------------------------------------------------
(* Cleaning.                                                                *)

\* A function on the positions of a sequence.
LEMMA MappedSequence ==
    ASSUME NEW S, NEW T, NEW s \in Seq(S), NEW f, f = [i \in DOMAIN s |-> f[i]],
           \A i \in 1 .. Len(s) : f[i] \in T
    PROVE  f \in Seq(T) /\ Len(f) = Len(s)
<1>1. Len(s) \in Nat /\ DOMAIN s = 1 .. Len(s)
  OBVIOUS
<1>2. f \in [1 .. Len(s) -> T]
  BY <1>1
<1> QED
  BY <1>1, <1>2

\* A part of a sequence, which may be empty.
LEMMA SubSequence ==
    ASSUME NEW T, NEW s \in Seq(T), NEW i \in Nat, NEW k \in Int, 1 <= i, k <= Len(s)
    PROVE  SubSeq(s, i, k) \in Seq(T)
<1>1. CASE i <= k
  BY <1>1
<1>2. CASE ~ (i <= k)
  BY <1>2
<1> QED
  BY <1>1, <1>2

\* Elements that are left out.
LEMMA WithoutSequence ==
    ASSUME NEW T, NEW s \in Seq(T), NEW D
    PROVE  Without(s, D) \in Seq(T)
<1>1. DOMAIN s \ D \in SUBSET DOMAIN s
  OBVIOUS
<1>2. Selected(s, DOMAIN s \ D) \in Seq(T)
  BY <1>1, SelectedPicks
<1> QED
  BY <1>2 DEF Without

\* The texts that are not blank.
LEMMA WithInkSequence ==
    ASSUME NEW T, NEW texts \in Seq(T)
    PROVE  WithInk(texts) \in Seq(T)
<1> DEFINE I == {i \in DOMAIN texts : ~IsBlank(texts[i])}
<1>1. I \in SUBSET DOMAIN texts
  OBVIOUS
<1> HIDE DEF I
<1>2. Selected(texts, I) \in Seq(T)
  BY <1>1, SelectedPicks
<1> QED
  BY <1>2 DEF WithInk, I

\* The positions of a text that are kept at its ends.
LEMMA InnerPart ==
    ASSUME NEW T, NEW s \in Seq(T), NEW I \in SUBSET DOMAIN s
    PROVE  (IF I = {} THEN <<>> ELSE SubSeq(s, Min(I), Max(I))) \in Seq(T)
<1>1. CASE I = {}
  BY <1>1
<1>2. CASE I # {}
  <2>1. I \in SUBSET (1 .. Len(s)) /\ 1 \in Int /\ Len(s) \in Int /\ Len(s) \in Nat
    OBVIOUS
  <2>2. Min(I) \in I /\ Max(I) \in I
    BY ONLY <1>2, <2>1, MinOf, MaxOf
  <2> DEFINE lo == Min(I)
             hi == Max(I)
  <2>3. lo \in 1 .. Len(s) /\ hi \in 1 .. Len(s)
    BY <2>1, <2>2
  <2> HIDE DEF lo, hi
  <2>4. SubSeq(s, lo, hi) \in Seq(T)
    BY <2>1, <2>3, SubSequence
  <2> QED
    BY <1>2, <2>4 DEF lo, hi
<1> QED
  BY <1>1, <1>2

\* s.strip()
LEMMA StripSequence ==
    ASSUME NEW T, NEW s \in Seq(T)
    PROVE  Strip(s) \in Seq(T)
<1>1. InkAt(s) \in SUBSET DOMAIN s
  BY DEF InkAt
<1>2. (IF InkAt(s) = {} THEN <<>> ELSE SubSeq(s, Min(InkAt(s)), Max(InkAt(s)))) \in Seq(T)
  BY <1>1, InnerPart
<1> QED
  BY <1>2 DEF Strip

\* A scan that takes parts of a sequence.
LEMMA ScannedParts ==
    ASSUME NEW T, NEW s \in Seq(T), NEW n \in Nat, NEW piece, NEW last,
           \A i \in 1 .. n : last[i] \in Int /\ last[i] <= Len(s) /\ piece[i] = <<SubSeq(s, i, last[i])>>,
           NEW next, \A i \in 1 .. n : next[i] \in i + 1 .. n + 1
    PROVE  Scanned(n, piece, next) \in Seq(Seq(T))
<1>1. ASSUME NEW i \in 1 .. n PROVE piece[i] \in Seq(Seq(T))
  <2>1. SubSeq(s, i, last[i]) \in Seq(T)
    BY SubSequence
  <2> DEFINE t == SubSeq(s, i, last[i])
  <2>2. t \in Seq(T) /\ piece[i] = <<t>>
    BY <2>1
  <2> HIDE DEF t
  <2> QED
    BY <2>2
<1> QED
  BY ONLY <1>1, n \in Nat, \A i \in 1 .. n : next[i] \in i + 1 .. n + 1, ScannedSequence

\* s.split(sep)
LEMMA SplitSequence ==
    ASSUME NEW T, NEW s \in Seq(T), NEW sep
    PROVE  Split(s, sep) \in Seq(Seq(T))
<1> DEFINE n == Len(s) + 1
           At(i) == {k \in i .. Len(s) : s[k] = sep} \cup {Len(s) + 1}
           Cut(i) == Min({k \in i .. Len(s) : s[k] = sep} \cup {Len(s) + 1})
           piece == [i \in 1 .. Len(s) + 1 |-> <<SubSeq(s, i, Cut(i) - 1)>>]
           next == [i \in 1 .. Len(s) + 1 |-> Cut(i) + 1]
           last == [i \in 1 .. Len(s) + 1 |-> Cut(i) - 1]
<1>1. Split(s, sep) = Scanned(n, piece, next)
  BY DEF Split
<1>2. n \in Nat /\ Len(s) \in Nat
  OBVIOUS
<1>3. ASSUME NEW i \in 1 .. n PROVE Cut(i) \in i .. n
  <2> DEFINE C == At(i)
  <2>1. C \in SUBSET (i .. n) /\ C # {} /\ i \in Int /\ n \in Int
    BY <1>2
  <2>2. Cut(i) = Min(C)
    OBVIOUS
  <2> HIDE DEF C
  <2>3. Min(C) \in C
    BY ONLY <2>1, MinOf
  <2> QED
    BY <2>1, <2>2, <2>3
<1> HIDE DEF Cut
<1>4. ASSUME NEW i \in 1 .. n
      PROVE  /\ next[i] \in i + 1 .. n + 1
             /\ last[i] \in Int /\ last[i] <= Len(s) /\ piece[i] = <<SubSeq(s, i, last[i])>>
  <2>1. next[i] = Cut(i) + 1 /\ last[i] = Cut(i) - 1 /\ piece[i] = <<SubSeq(s, i, Cut(i) - 1)>>
    OBVIOUS
  <2>2. next[i] \in i + 1 .. n + 1 /\ last[i] \in Int /\ last[i] <= Len(s)
    BY <1>2, <1>3, <2>1
  <2> QED
    BY <2>1, <2>2
<1> HIDE DEF n, piece, next, last
<1> QED
  BY <1>1, <1>2, <1>4, ScannedParts

\* sep.join(parts)
LEMMA JoinSequence ==
    ASSUME NEW T, NEW parts \in Seq(Seq(T)), NEW sep \in Seq(T)
    PROVE  Join(parts, sep) \in Seq(T)
<1> DEFINE f == [i \in DOMAIN parts |-> IF i = 1 THEN parts[i] ELSE sep \o parts[i]]
<1>1. f = [i \in DOMAIN parts |-> f[i]]
  OBVIOUS
<1>2. ASSUME NEW i \in 1 .. Len(parts) PROVE f[i] \in Seq(T)
  <2>1. f[i] = IF i = 1 THEN parts[i] ELSE sep \o parts[i]
    OBVIOUS
  <2>2. parts[i] \in Seq(T) /\ sep \o parts[i] \in Seq(T)
    OBVIOUS
  <2> QED
    BY <2>1, <2>2
<1>3. Join(parts, sep) = FlattenSeq(f)
  BY DEF Join
<1> HIDE DEF f
<1>4. f \in Seq(Seq(T))
  BY ONLY <1>1, <1>2, parts \in Seq(Seq(T)), MappedSequence
<1> QED
  BY <1>3, <1>4, FlattenSequence

\* The atoms that the passes put in are atoms.
LEMMA SomeTexts ==
    /\ <<>> \in Text /\ <<NL>> \in Text /\ <<NL, NL>> \in Text /\ <<SP>> \in Text /\ <<Bar>> \in Text
    /\ <<"-">> \in Text /\ NL \in Atoms /\ SP \in Atoms /\ JoinedWord \in Atoms
    /\ <<SP, PageWord, Number>> \in Text
<1>1. NL \in Atoms /\ SP \in Atoms /\ Bar \in Atoms /\ JoinedWord \in Atoms /\ PageWord \in Atoms
      /\ Number \in Atoms /\ "-" \in Atoms
  BY DEF NL, SP, Bar, JoinedWord, PageWord, Number, Atoms, Whitespace, Words, ItemMarkers, Bullets
<1>2. \A x \in Atoms : <<x>> \in Text
  BY DEF Text
<1>3. \A x, y \in Atoms : <<x, y>> \in Text
  BY DEF Text
<1>4. \A x, y, z \in Atoms : <<x, y, z>> \in Text
  BY DEF Text
<1>5. <<>> \in Text
  BY DEF Text
<1> QED
  BY <1>1, <1>2, <1>3, <1>4, <1>5

\* Texts of some of the atoms, those that the passes put in among them.
TextIn(W)  == Seq(W)
Letters(W) == W \subseteq Atoms /\ {NL, SP, "-", JoinedWord} \subseteq W

\* The atoms are such.
LEMMA TextLetters == Letters(Atoms) /\ Text = TextIn(Atoms)
  BY SomeTexts DEF Letters, TextIn, Text, Atoms, ItemMarkers, Bullets

\* What the passes put in is among the letters.
LEMMA SomeIn ==
    ASSUME NEW W, Letters(W)
    PROVE  /\ <<>> \in TextIn(W) /\ <<NL>> \in TextIn(W) /\ <<NL, NL>> \in TextIn(W) /\ <<SP>> \in TextIn(W)
           /\ <<"-">> \in TextIn(W) /\ NL \in W /\ SP \in W /\ JoinedWord \in W
<1>1. NL \in W /\ SP \in W /\ JoinedWord \in W /\ "-" \in W
  BY DEF Letters
<1>2. \A x \in W : <<x>> \in TextIn(W)
  BY DEF TextIn
<1>3. \A x, y \in W : <<x, y>> \in TextIn(W)
  BY DEF TextIn
<1>4. <<>> \in TextIn(W)
  BY DEF TextIn
<1> QED
  BY <1>1, <1>2, <1>3, <1>4

\* Steps that stay in T.
LEMMA StepsWhen ==
    ASSUME NEW K, NEW V, NEW g, \A i \in K : \A v \in V : g[<<i, v>>] \in V
    PROVE  Steps(g, K, V)
  BY Zenon DEF Steps

\* The spaces in front of a line are a text.
LEMMA SpacesIn == ASSUME NEW W, Letters(W), NEW n \in Nat PROVE Spaces(n) \in TextIn(W)
<1>1. Spaces(n) \in [1 .. n -> W]
  BY SomeIn DEF Spaces
<1> QED
  BY <1>1 DEF TextIn

\* Two texts one after the other are a text.
LEMMA ConcatIn == ASSUME NEW W, Letters(W), NEW s \in TextIn(W), NEW t \in TextIn(W) PROVE s \o t \in TextIn(W)
  BY DEF TextIn

\* The spaces at the beginning of a line, and the rest of it.
LEMMA IndentOfIn ==
    ASSUME NEW W, Letters(W), NEW line \in TextIn(W)
    PROVE  /\ Indent(line) \in 0 .. Len(line) /\ Indent(line) \in Nat
           /\ Outdent(line) \in TextIn(W)
           /\ \A atoms : StartsWith(Outdent(line), atoms) => Tail(Outdent(line)) \in TextIn(W)
<1> DEFINE I == InkAt(line) \cup {Len(line) + 1}
           n == Len(line) + 1
<1>1. I \in SUBSET (1 .. n) /\ I # {} /\ 1 \in Int /\ n \in Int /\ Len(line) \in Nat
  BY DEF InkAt, TextIn
<1>2. Indent(line) = Min(I) - 1
  BY DEF Indent
<1> HIDE DEF I
<1>3. Min(I) \in I
  BY ONLY <1>1, MinOf
<1>4. Indent(line) \in 0 .. Len(line) /\ Indent(line) \in Nat
  <2>1. Min(I) \in 1 .. n
    BY <1>1, <1>3
  <2> HIDE DEF I
  <2>2. Min(I) - 1 \in 0 .. Len(line)
    BY <1>1, <2>1
  <2> QED
    BY <1>1, <1>2, <2>2
<1>5. Outdent(line) \in TextIn(W)
  <2> DEFINE d == Indent(line) + 1
  <2>1. d \in Nat /\ 1 <= d /\ Len(line) \in Int /\ Len(line) <= Len(line)
    BY <1>1, <1>4
  <2>2. line \in Seq(W)
    BY DEF TextIn
  <2> HIDE DEF d
  <2>3. SubSeq(line, d, Len(line)) \in Seq(W)
    BY ONLY <2>1, <2>2, SubSequence
  <2> QED
    BY <2>3 DEF Outdent, TextIn, d
<1>6. ASSUME NEW atoms, StartsWith(Outdent(line), atoms) PROVE Tail(Outdent(line)) \in TextIn(W)
  <2> DEFINE t == Outdent(line)
  <2>1. t \in TextIn(W) /\ t # <<>>
    BY <1>5, <1>6 DEF StartsWith
  <2> HIDE DEF t
  <2>2. Tail(t) \in TextIn(W)
    BY <2>1 DEF TextIn
  <2> QED
    BY <2>2 DEF t
<1> QED
  BY <1>4, <1>5, <1>6

\* _normalize_lists, bullet characters.
LEMMA DotBulletIn == ASSUME NEW W, Letters(W), NEW line \in TextIn(W) PROVE DotBullet(line) \in TextIn(W)
<1> DEFINE t == Outdent(line)
           d == Indent(line)
<1>1. d \in Nat /\ (StartsWith(t, {Dots}) => Tail(t) \in TextIn(W))
  BY IndentOfIn
<1>2. DotBullet(line) = IF StartsWith(t, {Dots}) THEN Spaces(d) \o <<"-">> \o Tail(t) ELSE line
  BY DEF DotBullet
<1> HIDE DEF t, d
<1>3. CASE StartsWith(t, {Dots})
  <2>1. Spaces(d) \o <<"-">> \in TextIn(W)
    BY <1>1, SpacesIn, SomeIn, ConcatIn
  <2>2. Spaces(d) \o <<"-">> \o Tail(t) \in TextIn(W)
    BY <1>1, <1>3, <2>1, ConcatIn
  <2> QED
    BY <1>2, <1>3, <2>2
<1>4. CASE ~ StartsWith(t, {Dots})
  BY <1>2, <1>4
<1> QED
  BY <1>3, <1>4

\* _normalize_lists, markers that are not a dash.
LEMMA DashBulletIn == ASSUME NEW W, Letters(W), NEW line \in TextIn(W) PROVE DashBullet(line) \in TextIn(W)
<1> DEFINE t == Outdent(line)
           d == Indent(line)
<1>1. d \in Nat /\ (StartsWith(t, {"*", "+"}) => Tail(t) \in TextIn(W))
  BY IndentOfIn
<1>2. DashBullet(line) = IF StartsWith(t, {"*", "+"}) THEN Spaces(d) \o <<"-">> \o Tail(t) ELSE line
  BY DEF DashBullet
<1> HIDE DEF t, d
<1>3. CASE StartsWith(t, {"*", "+"})
  <2>1. Spaces(d) \o <<"-">> \in TextIn(W)
    BY <1>1, SpacesIn, SomeIn, ConcatIn
  <2>2. Spaces(d) \o <<"-">> \o Tail(t) \in TextIn(W)
    BY <1>1, <1>3, <2>1, ConcatIn
  <2> QED
    BY <1>2, <1>3, <2>2
<1>4. CASE ~ StartsWith(t, {"*", "+"})
  BY <1>2, <1>4
<1> QED
  BY <1>3, <1>4

\* _normalize_lists, the flattened levels of a PDF.
LEMMA PdfBulletIn == ASSUME NEW W, Letters(W), NEW line \in TextIn(W) PROVE PdfBullet(line) \in TextIn(W)
<1> DEFINE bare == IF StartsWith(line, {"-"}) THEN Tail(line) ELSE line
<1>1. bare \in TextIn(W)
  <2>1. StartsWith(line, {"-"}) => line # <<>>
    BY DEF StartsWith
  <2>2. line # <<>> => Tail(line) \in TextIn(W)
    BY DEF TextIn
  <2> QED
    BY <2>1, <2>2
<1>2. PdfBullet(line) = CASE StartsWith(bare, {Circle})  -> Spaces(2) \o <<"-">> \o Tail(bare)
                          [] StartsWith(bare, {Section}) -> Spaces(4) \o <<"-">> \o Tail(bare)
                          [] OTHER -> line
  BY DEF PdfBullet
<1> HIDE DEF bare
<1>3. ASSUME NEW n \in Nat, bare # <<>> PROVE Spaces(n) \o <<"-">> \o Tail(bare) \in TextIn(W)
  <2>1. Spaces(n) \o <<"-">> \in TextIn(W)
    BY SpacesIn, SomeIn, ConcatIn
  <2>2. Tail(bare) \in TextIn(W)
    BY <1>1, <1>3 DEF TextIn
  <2> QED
    BY <2>1, <2>2, ConcatIn
<1>4. \A a : StartsWith(bare, a) => bare # <<>>
  BY DEF StartsWith
<1>5. CASE StartsWith(bare, {Circle})
  <2>1. PdfBullet(line) \in {Spaces(2) \o <<"-">> \o Tail(bare), Spaces(4) \o <<"-">> \o Tail(bare)}
    <3>1. Circle # Section
      BY DEF Circle, Section
    <3>2. ~ StartsWith(bare, {Section})
      BY <1>5, <3>1 DEF StartsWith
    <3> QED
      BY <1>2, <1>5, <3>2
  <2> QED
    BY <1>3, <1>4, <1>5, <2>1
<1>6. CASE StartsWith(bare, {Section}) /\ ~ StartsWith(bare, {Circle})
  <2>1. PdfBullet(line) = Spaces(4) \o <<"-">> \o Tail(bare)
    BY <1>2, <1>6
  <2> QED
    BY <1>3, <1>4, <1>6, <2>1
<1>7. CASE ~ StartsWith(bare, {Circle}) /\ ~ StartsWith(bare, {Section})
  BY <1>2, <1>7
<1> QED
  BY <1>5, <1>6, <1>7

\* _normalize_lists, MarkItDown's indentation.
LEMMA MarkItDownIndentIn == ASSUME NEW W, Letters(W), NEW line \in TextIn(W) PROVE MarkItDownIndent(line) \in TextIn(W)
<1> DEFINE t == Outdent(line)
           depth == CASE Head(t) = "+" -> 2
                      [] Head(t) = "-" -> 3
                      [] Head(t) = "*" -> 4
<1>1. MarkItDownIndent(line) = IF Indent(line) = 0 \/ ~StartsWith(t, Bullets) THEN line
                               ELSE Spaces(2 * depth) \o <<"-">> \o Tail(t)
  BY DEF MarkItDownIndent
<1>2. StartsWith(t, Bullets) => Tail(t) \in TextIn(W)
  BY IndentOfIn
<1>3. StartsWith(t, Bullets) => depth \in {2, 3, 4}
  <2> SUFFICES ASSUME StartsWith(t, Bullets) PROVE depth \in {2, 3, 4}
    OBVIOUS
  <2>1. Head(t) \in {"+", "-", "*"}
    BY DEF StartsWith, Bullets
  <2> QED
    BY <2>1
<1> HIDE DEF t, depth
<1>4. CASE Indent(line) # 0 /\ StartsWith(t, Bullets)
  <2>1. 2 * depth \in Nat
    BY <1>3, <1>4
  <2>2. Spaces(2 * depth) \o <<"-">> \in TextIn(W)
    BY <2>1, SpacesIn, SomeIn, ConcatIn
  <2>3. Spaces(2 * depth) \o <<"-">> \o Tail(t) \in TextIn(W)
    BY <1>2, <1>4, <2>2, ConcatIn
  <2> QED
    BY <1>1, <1>4, <2>3
<1>5. CASE ~ (Indent(line) # 0 /\ StartsWith(t, Bullets))
  BY <1>1, <1>5
<1> QED
  BY <1>4, <1>5

\* The lines of a text are texts.
LEMMA LinesIn ==
    ASSUME NEW W, Letters(W), NEW text \in TextIn(W)
    PROVE  Lines(text) \in Seq(TextIn(W))
  BY SplitSequence DEF Lines, TextIn

\* Lines joined are a text.
LEMMA FromLinesIn ==
    ASSUME NEW W, Letters(W), NEW lines \in Seq(TextIn(W))
    PROVE  FromLines(lines) \in TextIn(W)
  BY JoinSequence, SomeIn DEF FromLines, TextIn

\* The lines of a text, each rewritten.
LEMMA MappedLinesIn ==
    ASSUME NEW W, Letters(W), NEW text \in TextIn(W), NEW f, f = [i \in DOMAIN Lines(text) |-> f[i]],
           \A i \in 1 .. Len(Lines(text)) : f[i] \in TextIn(W)
    PROVE  FromLines(f) \in TextIn(W)
<1> DEFINE lines == Lines(text)
<1>1. lines \in Seq(TextIn(W))
  BY LinesIn
<1>2. \A i \in 1 .. Len(lines) : f[i] \in TextIn(W)
  OBVIOUS
<1>3. f = [i \in DOMAIN lines |-> f[i]]
  OBVIOUS
<1> HIDE DEF lines
<1>4. f \in Seq(TextIn(W))
  BY ONLY <1>1, <1>2, <1>3, MappedSequence
<1> QED
  BY <1>4, FromLinesIn

\* _normalize_whitespace, line ends, makes a text.
LEMMA UnixLinesIn == ASSUME NEW W, Letters(W), NEW text \in TextIn(W) PROVE UnixLines(text) \in TextIn(W)
<1>1. DOMAIN text = 1 .. Len(text) /\ Len(text) \in Nat
  BY DEF TextIn
<1>2. ASSUME NEW i \in 1 .. Len(text) PROVE (IF text[i] = CRLF THEN NL ELSE text[i]) \in W
  BY SomeIn DEF TextIn
<1>3. UnixLines(text) \in [1 .. Len(text) -> W]
  BY <1>1, <1>2 DEF UnixLines
<1> QED
  BY <1>1, <1>3 DEF TextIn

\* The pages of a text are texts.
LEMMA PagesIn == ASSUME NEW W, Letters(W), NEW text \in TextIn(W) PROVE Pages(text) \in Seq(TextIn(W))
  BY SplitSequence, WithInkSequence DEF Pages, TextIn

\* _normalize_page_breaks makes a text.
LEMMA BreakPagesIn == ASSUME NEW W, Letters(W), NEW text \in TextIn(W) PROVE BreakPages(text) \in TextIn(W)
<1>1. Split(text, FF) \in Seq(TextIn(W))
  BY SplitSequence DEF TextIn
<1> QED
  BY <1>1, SomeIn, JoinSequence DEF BreakPages, TextIn

\* _strip_page_edge makes a text.
LEMMA WithoutEdgeIn ==
    ASSUME NEW W, Letters(W), NEW page \in TextIn(W), NEW edge, NEW first
    PROVE  WithoutEdge(page, edge, first) \in TextIn(W)
<1> DEFINE lines == Lines(page)
           at == EdgeAt(lines, first)
           bare == [lines EXCEPT ![at] = <<>>]
<1>1. lines \in Seq(TextIn(W))
  BY LinesIn
<1>2. WithoutEdge(page, edge, first) \in {page, FromLines(bare)}
  BY DEF WithoutEdge
<1> HIDE DEF lines, at
<1>3. bare = [i \in DOMAIN lines |-> bare[i]]
  OBVIOUS
<1>4. ASSUME NEW i \in 1 .. Len(lines) PROVE bare[i] \in TextIn(W)
  <2>1. lines[i] \in TextIn(W) /\ i \in DOMAIN lines /\ <<>> \in TextIn(W)
    BY <1>1, SomeIn
  <2>2. bare[i] = IF i = at THEN <<>> ELSE lines[i]
    BY <2>1
  <2> HIDE DEF bare
  <2> QED
    BY <2>1, <2>2
<1> HIDE DEF bare
<1>5. bare \in Seq(TextIn(W))
  BY ONLY <1>1, <1>3, <1>4, MappedSequence
<1>6. FromLines(bare) \in TextIn(W)
  BY <1>5, FromLinesIn
<1> QED
  BY <1>2, <1>6

\* A page without the line ends around it is a text.
LEMMA TrimLinesIn == ASSUME NEW W, Letters(W), NEW page \in TextIn(W) PROVE TrimLines(page) \in TextIn(W)
<1> DEFINE I == {i \in DOMAIN page : page[i] # NL}
<1>1. I \in SUBSET DOMAIN page /\ page \in Seq(W)
  BY DEF TextIn
<1> HIDE DEF I
<1>2. (IF I = {} THEN <<>> ELSE SubSeq(page, Min(I), Max(I))) \in Seq(W)
  BY ONLY <1>1, InnerPart
<1> QED
  BY <1>2 DEF TrimLines, I, TextIn

\* The pages without their running lines are texts.
LEMMA PagesWithoutIn ==
    ASSUME NEW W, Letters(W), NEW pages \in Seq(TextIn(W)), NEW header, NEW footer
    PROVE  PagesWithout(pages, header, footer) \in Seq(TextIn(W))
<1> DEFINE f == [i \in DOMAIN pages |-> WithoutEdge(WithoutEdge(pages[i], header, TRUE), footer, FALSE)]
<1>1. f = [i \in DOMAIN pages |-> f[i]]
  OBVIOUS
<1>2. ASSUME NEW i \in 1 .. Len(pages) PROVE f[i] \in TextIn(W)
  <2>1. i \in DOMAIN pages /\ pages[i] \in TextIn(W)
    OBVIOUS
  <2>2. f[i] = WithoutEdge(WithoutEdge(pages[i], header, TRUE), footer, FALSE)
    BY <2>1
  <2>3. WithoutEdge(pages[i], header, TRUE) \in TextIn(W)
    BY <2>1, WithoutEdgeIn
  <2> HIDE DEF f
  <2> QED
    BY <2>2, <2>3, WithoutEdgeIn
<1>3. PagesWithout(pages, header, footer) = WithInk(f)
  BY DEF PagesWithout, Map
<1> HIDE DEF f
<1>4. f \in Seq(TextIn(W))
  BY ONLY <1>1, <1>2, MappedSequence, pages \in Seq(TextIn(W))
<1> QED
  BY <1>3, <1>4, WithInkSequence

\* _strip_repeated_headers_and_footers makes a text.
LEMMA StripEdgesIn == ASSUME NEW W, Letters(W), NEW text \in TextIn(W) PROVE StripEdges(text) \in TextIn(W)
<1> DEFINE pages == Pages(text)
           rest == PagesWithout(pages, RepeatedEdge(pages, TRUE), RepeatedEdge(pages, FALSE))
           f == [i \in DOMAIN rest |-> TrimLines(rest[i])]
<1>1. pages \in Seq(TextIn(W))
  BY PagesIn
<1>2. StripPages(pages) = Join(f, <<NL, NL>>)
  BY DEF StripPages, Map
<1>3. StripEdges(text) \in {text, StripPages(pages)}
  BY DEF StripEdges
<1> HIDE DEF pages
<1>4. rest \in Seq(TextIn(W))
  BY <1>1, PagesWithoutIn
<1> HIDE DEF rest
<1>5. f = [i \in DOMAIN rest |-> f[i]]
  OBVIOUS
<1>6. ASSUME NEW i \in 1 .. Len(rest) PROVE f[i] \in TextIn(W)
  <2>1. i \in DOMAIN rest /\ rest[i] \in TextIn(W)
    BY <1>4
  <2>2. f[i] = TrimLines(rest[i])
    BY <2>1
  <2> HIDE DEF f
  <2> QED
    BY <2>1, <2>2, TrimLinesIn
<1> HIDE DEF f
<1>7. f \in Seq(TextIn(W))
  BY ONLY <1>4, <1>5, <1>6, MappedSequence
<1>8. Join(f, <<NL, NL>>) \in TextIn(W)
  BY <1>7, SomeIn, JoinSequence DEF TextIn
<1> QED
  BY <1>2, <1>3, <1>8

\* _strip_page_numbers makes a text.
LEMMA StripPageNumbersIn == ASSUME NEW W, Letters(W), NEW text \in TextIn(W) PROVE StripPageNumbers(text) \in TextIn(W)
<1> DEFINE lines == Lines(text)
           IsNumber(i) == Strip(lines[i]) = <<PageNumber>>
           Gap(i, k) == \A m \in i .. k : IsBlank(lines[m]) \/ IsNumber(m)
           InGap(i) == \E k \in DOMAIN lines : IsNumber(k) /\ Gap(Min({i, k}), Max({i, k}))
           Gone(i) == i > 1 /\ InGap(i) /\ InGap(i - 1) /\ ~(IsNumber(i) /\ IsNumber(i - 1))
           bare == [i \in DOMAIN lines |-> IF InGap(i) THEN <<>> ELSE lines[i]]
           D == {i \in DOMAIN lines : Gone(i)}
<1>1. StripPageNumbers(text) = FromLines(Without(bare, D))
  BY DEF StripPageNumbers
<1>2. lines \in Seq(TextIn(W))
  BY LinesIn
<1> HIDE DEF lines, InGap, Gone
<1>3. bare = [i \in DOMAIN lines |-> bare[i]]
  OBVIOUS
<1>4. ASSUME NEW i \in 1 .. Len(lines) PROVE bare[i] \in TextIn(W)
  <2>1. lines[i] \in TextIn(W) /\ i \in DOMAIN lines /\ <<>> \in TextIn(W)
    BY <1>2, SomeIn
  <2>2. bare[i] = IF InGap(i) THEN <<>> ELSE lines[i]
    BY <2>1
  <2> HIDE DEF bare
  <2> QED
    BY <2>1, <2>2
<1> HIDE DEF bare, D
<1>5. bare \in Seq(TextIn(W))
  BY ONLY <1>2, <1>3, <1>4, MappedSequence
<1> QED
  BY <1>1, <1>5, WithoutSequence, FromLinesIn

\* _normalize_whitespace, spaces, makes a text.
LEMMA NormalizeSpacesIn == ASSUME NEW W, Letters(W), NEW text \in TextIn(W) PROVE NormalizeSpaces(text) \in TextIn(W)
  BY WithoutSequence DEF NormalizeSpaces, TextIn

\* _normalize_dehyphenation makes a text.
LEMMA DehyphenateIn == ASSUME NEW W, Letters(W), NEW text \in TextIn(W) PROVE Dehyphenate(text) \in TextIn(W)
<1> DEFINE Next1(i) == Min({k \in i + 1 .. Len(text) : text[k] \notin {SP, NL}} \cup {Len(text) + 1})
           Broken(i) == /\ text[i] = HyphenWord
                        /\ Next1(i) <= Len(text) /\ text[Next1(i)] \in LowerCase
                        /\ \E k \in i + 1 .. Next1(i) - 1 : text[k] = NL
           gone == UNION {i + 1 .. Next1(i) - 1 : i \in {k \in DOMAIN text : Broken(k)}}
           f == [i \in DOMAIN text |-> IF Broken(i) THEN JoinedWord ELSE text[i]]
<1>1. Dehyphenate(text) = Without(f, gone)
  BY DEF Dehyphenate
<1> HIDE DEF Broken, gone
<1>2. text \in Seq(W)
  BY DEF TextIn
<1>3. f = [i \in DOMAIN text |-> f[i]]
  OBVIOUS
<1>4. ASSUME NEW i \in 1 .. Len(text) PROVE f[i] \in W
  <2>1. text[i] \in W /\ i \in DOMAIN text
    BY <1>2
  <2>2. f[i] = IF Broken(i) THEN JoinedWord ELSE text[i]
    BY <2>1
  <2> HIDE DEF f
  <2> QED
    BY <2>1, <2>2, SomeIn
<1> HIDE DEF f
<1>5. f \in Seq(W)
  BY ONLY <1>2, <1>3, <1>4, MappedSequence
<1> QED
  BY <1>1, <1>5, WithoutSequence DEF TextIn

\* _fix_header_spacing makes a text.
LEMMA SpaceHeadingsIn == ASSUME NEW W, Letters(W), NEW text \in TextIn(W) PROVE SpaceHeadings(text) \in TextIn(W)
<1> DEFINE lines == Lines(text)
           Marked(i) == \E k \in 1 .. Len(lines[i]) - 1 : lines[i][k] \in HeadingMark
           Tight1(i) == Marked(i) /\ i < Len(lines) /\ (lines[i + 1] # <<>> \/ i + 1 = Len(lines))
           f == [i \in DOMAIN lines |-> IF Tight1(i) THEN lines[i] \o <<NL>> ELSE lines[i]]
<1>1. SpaceHeadings(text) = FromLines(f)
  BY DEF SpaceHeadings, FromLines
<1>2. lines \in Seq(TextIn(W))
  BY LinesIn
<1> HIDE DEF lines, Tight1
<1>3. f = [i \in DOMAIN lines |-> f[i]]
  OBVIOUS
<1>4. ASSUME NEW i \in 1 .. Len(lines) PROVE f[i] \in TextIn(W)
  <2>1. lines[i] \in TextIn(W) /\ i \in DOMAIN lines
    BY <1>2
  <2>2. f[i] = IF Tight1(i) THEN lines[i] \o <<NL>> ELSE lines[i]
    BY <2>1
  <2>3. lines[i] \o <<NL>> \in TextIn(W)
    BY <2>1, SomeIn, ConcatIn
  <2> HIDE DEF f
  <2> QED
    BY <2>1, <2>2, <2>3
<1> HIDE DEF f
<1>5. f \in Seq(TextIn(W))
  BY ONLY <1>2, <1>3, <1>4, MappedSequence
<1> QED
  BY <1>1, <1>5, FromLinesIn

\* _normalize_lists makes a text.
LEMMA NormalizeListsIn == ASSUME NEW W, Letters(W), NEW text \in TextIn(W) PROVE NormalizeLists(text) \in TextIn(W)
<1> DEFINE lines == Lines(text)
           f == [i \in DOMAIN lines |-> DashBullet(MarkItDownIndent(PdfBullet(DotBullet(lines[i]))))]
<1>1. NormalizeLists(text) = FromLines(f)
  BY DEF NormalizeLists, EachLine, Map
<1>2. lines \in Seq(TextIn(W))
  BY LinesIn
<1>3. f = [i \in DOMAIN lines |-> f[i]]
  OBVIOUS
<1> HIDE DEF lines
<1>4. ASSUME NEW i \in 1 .. Len(lines) PROVE f[i] \in TextIn(W)
  <2>1. lines[i] \in TextIn(W) /\ i \in DOMAIN lines
    BY <1>2
  <2>2. f[i] = DashBullet(MarkItDownIndent(PdfBullet(DotBullet(lines[i]))))
    BY <2>1
  <2> HIDE DEF f
  <2>3. PdfBullet(DotBullet(lines[i])) \in TextIn(W)
    BY <2>1, DotBulletIn, PdfBulletIn
  <2> QED
    BY <2>2, <2>3, MarkItDownIndentIn, DashBulletIn
<1> HIDE DEF f
<1>5. f \in Seq(TextIn(W))
  BY ONLY <1>2, <1>3, <1>4, MappedSequence
<1> QED
  BY <1>1, <1>5, FromLinesIn

\* The last line that is not blank is one of the lines.
LEMMA LastItemIndentOfIn ==
    ASSUME NEW W, Letters(W), NEW lines, NEW repaired \in Seq(TextIn(W)), NEW i, Continues(lines, repaired, i)
    PROVE  LastItemIndent(repaired) \in Nat
<1> DEFINE I == {k \in DOMAIN repaired : ~IsBlank(repaired[k])}
           n == Len(repaired)
<1>1. I # {} /\ I \in SUBSET (1 .. n) /\ 1 \in Int /\ n \in Int
  BY DEF Continues
<1>2. LastItemIndent(repaired) = Indent(repaired[Max(I)])
  BY DEF LastItemIndent
<1> HIDE DEF I
<1>3. Max(I) \in I
  BY ONLY <1>1, MaxOf
<1>4. repaired[Max(I)] \in TextIn(W)
  <2>1. Max(I) \in 1 .. Len(repaired)
    BY <1>1, <1>3
  <2> HIDE DEF I
  <2> QED
    BY <2>1
<1> QED
  BY <1>2, <1>4, IndentOfIn

\* _repair_list_continuations makes a text.
LEMMA RepairListsIn == ASSUME NEW W, Letters(W), NEW text \in TextIn(W) PROVE RepairLists(text) \in TextIn(W)
<1> DEFINE lines == Lines(text)
           N == Len(lines)
           NextInk(i) == Min({k \in i + 1 .. Len(lines) : ~IsBlank(lines[k])} \cup {Len(lines) + 1})
           Dropped(repaired, i) ==
               /\ IsBlank(lines[i])
               /\ \E k \in DOMAIN repaired : ~IsBlank(repaired[k])
               /\ NextInk(i) <= Len(lines)
               /\ Continues(lines, repaired, NextInk(i))
           New(i, done) ==
               IF Dropped(done, i) THEN done
               ELSE IF ~IsBlank(lines[i]) /\ Continues(lines, done, i)
               THEN Append(done, Spaces(LastItemIndent(done) + 2) \o Strip(lines[i]))
               ELSE Append(done, lines[i])
           Body(f) == [i \in 0 .. Len(lines) |->
               IF i = 0 THEN <<>>
               ELSE LET done == f[i - 1]
                    IN  IF Dropped(done, i) THEN done
                        ELSE IF ~IsBlank(lines[i]) /\ Continues(lines, done, i)
                        THEN Append(done, Spaces(LastItemIndent(done) + 2) \o Strip(lines[i]))
                        ELSE Append(done, lines[i])]
           F == CHOOSE f : f = Body(f)
           h == [iv \in (1 .. N) \X Seq(TextIn(W)) |-> New(iv[1], iv[2])]
<1>1. RepairLists(text) = FromLines(F[N])
  BY DEF RepairLists
<1>2. lines \in Seq(TextIn(W)) /\ N \in Nat /\ <<>> \in Seq(TextIn(W))
  BY LinesIn
<1> HIDE DEF lines, Dropped
<1>3. ASSUME NEW i \in 1 .. N, NEW v \in Seq(TextIn(W)) PROVE New(i, v) \in Seq(TextIn(W))
  <2>1. lines[i] \in TextIn(W)
    BY <1>2
  <2>2. Append(v, lines[i]) \in Seq(TextIn(W))
    BY <2>1
  <2>3. ASSUME Continues(lines, v, i)
        PROVE  Append(v, Spaces(LastItemIndent(v) + 2) \o Strip(lines[i])) \in Seq(TextIn(W))
    <3>1. LastItemIndent(v) + 2 \in Nat
      BY <2>3, LastItemIndentOfIn
    <3>2. Strip(lines[i]) \in TextIn(W)
      BY <2>1, StripSequence DEF TextIn
    <3>3. Spaces(LastItemIndent(v) + 2) \o Strip(lines[i]) \in TextIn(W)
      BY <3>1, <3>2, SpacesIn, ConcatIn
    <3> QED
      BY <3>3
  <2> QED
    BY <2>2, <2>3
<1>4. \A i \in 1 .. N : \A v \in Seq(TextIn(W)) : h[<<i, v>>] = New(i, v)
  OBVIOUS
<1> HIDE DEF New, h
<1>5. Steps(h, 1 .. N, Seq(TextIn(W)))
  <2>1. ASSUME NEW i \in 1 .. N, NEW v \in Seq(TextIn(W)) PROVE h[<<i, v>>] \in Seq(TextIn(W))
    BY <1>3, <1>4
  <2> QED
    BY ONLY <2>1, StepsWhen
<1>6. PICK f : Rises(f, N, Seq(TextIn(W)), <<>>, h)
  BY ONLY <1>2, <1>5, Rising
<1>7. f \in [0 .. N -> Seq(TextIn(W))] /\ f[0] = <<>> /\ \A i \in 1 .. N : f[i] = New(i, f[i - 1])
  <2>1. f \in [0 .. N -> Seq(TextIn(W))] /\ f[0] = <<>> /\ \A i \in 1 .. N : f[i] = h[<<i, f[i - 1]>>]
    BY <1>6 DEF Rises
  <2>2. \A i \in 1 .. N : f[i - 1] \in Seq(TextIn(W))
    BY SMTT(30), <1>2, <2>1
  <2> QED
    BY <1>4, <2>1, <2>2
<1>8. f = [i \in 0 .. N |-> IF i = 0 THEN <<>> ELSE New(i, f[i - 1])]
  BY <1>2, <1>7
<1>9. f = Body(f)
  BY <1>8 DEF New
<1>10. F = Body(F)
  BY <1>9
<1> HIDE DEF F
<1>11. \A i \in 0 .. N : F[i] = Body(F)[i]
  BY <1>10
<1>12. \A i \in 0 .. N : Body(F)[i] = IF i = 0 THEN <<>> ELSE New(i, F[i - 1])
  BY DEF New
<1> HIDE DEF Body
<1> DEFINE S == {i \in 0 .. N : F[i] \in Seq(TextIn(W))}
<1>13. 0 \in S
  <2>1. 0 \in 0 .. N
    BY <1>2
  <2>2. F[0] = <<>>
    BY <1>11, <1>12, <2>1
  <2> QED
    BY <1>2, <2>1, <2>2
<1>14. ASSUME NEW i \in 1 .. N, i - 1 \in S PROVE i \in S
  <2>1. F[i] = New(i, F[i - 1]) /\ F[i - 1] \in Seq(TextIn(W)) /\ i \in 0 .. N
    BY <1>2, <1>11, <1>12, <1>14
  <2> QED
    BY <1>3, <2>1
<1> HIDE DEF S
<1>15. \A i \in 0 .. N : i \in S
  BY ONLY <1>2, <1>13, <1>14, Forwards
<1>16. F[N] \in Seq(TextIn(W))
  BY <1>2, <1>15 DEF S
<1> QED
  BY <1>1, <1>16, FromLinesIn

\* The spaces in front of a line are a text.
LEMMA SpacesText == ASSUME NEW n \in Nat PROVE Spaces(n) \in Text
  BY TextLetters, SpacesIn

\* Two texts one after the other are a text.
LEMMA ConcatText == ASSUME NEW s \in Text, NEW t \in Text PROVE s \o t \in Text
  BY TextLetters, ConcatIn

\* The spaces at the beginning of a line, and the rest of it.
LEMMA IndentOf ==
    ASSUME NEW line \in Text
    PROVE  /\ Indent(line) \in 0 .. Len(line) /\ Indent(line) \in Nat
           /\ Outdent(line) \in Text
           /\ \A atoms : StartsWith(Outdent(line), atoms) => Tail(Outdent(line)) \in Text
  BY TextLetters, IndentOfIn

\* _normalize_lists, bullet characters.
LEMMA DotBulletText == ASSUME NEW line \in Text PROVE DotBullet(line) \in Text
  BY TextLetters, DotBulletIn

\* _normalize_lists, markers that are not a dash.
LEMMA DashBulletText == ASSUME NEW line \in Text PROVE DashBullet(line) \in Text
  BY TextLetters, DashBulletIn

\* _normalize_lists, the flattened levels of a PDF.
LEMMA PdfBulletText == ASSUME NEW line \in Text PROVE PdfBullet(line) \in Text
  BY TextLetters, PdfBulletIn

\* _normalize_lists, MarkItDown's indentation.
LEMMA MarkItDownIndentText == ASSUME NEW line \in Text PROVE MarkItDownIndent(line) \in Text
  BY TextLetters, MarkItDownIndentIn

\* The lines of a text are texts.
LEMMA LinesText ==
    ASSUME NEW text \in Text
    PROVE  Lines(text) \in Seq(Text)
  BY TextLetters, LinesIn

\* Lines joined are a text.
LEMMA FromLinesText ==
    ASSUME NEW lines \in Seq(Text)
    PROVE  FromLines(lines) \in Text
  BY TextLetters, FromLinesIn

\* The lines of a text, each rewritten.
LEMMA MappedLines ==
    ASSUME NEW text \in Text, NEW f, f = [i \in DOMAIN Lines(text) |-> f[i]],
           \A i \in 1 .. Len(Lines(text)) : f[i] \in Text
    PROVE  FromLines(f) \in Text
  BY TextLetters, MappedLinesIn

\* _normalize_whitespace, line ends, makes a text.
LEMMA UnixLinesText == ASSUME NEW text \in Text PROVE UnixLines(text) \in Text
  BY TextLetters, UnixLinesIn

\* The pages of a text are texts.
LEMMA PagesText == ASSUME NEW text \in Text PROVE Pages(text) \in Seq(Text)
  BY TextLetters, PagesIn

\* _normalize_page_breaks makes a text.
LEMMA BreakPagesText == ASSUME NEW text \in Text PROVE BreakPages(text) \in Text
  BY TextLetters, BreakPagesIn

\* _strip_page_edge makes a text.
LEMMA WithoutEdgeText ==
    ASSUME NEW page \in Text, NEW edge, NEW first
    PROVE  WithoutEdge(page, edge, first) \in Text
  BY TextLetters, WithoutEdgeIn

\* A page without the line ends around it is a text.
LEMMA TrimLinesText == ASSUME NEW page \in Text PROVE TrimLines(page) \in Text
  BY TextLetters, TrimLinesIn

\* The pages without their running lines are texts.
LEMMA PagesWithoutText ==
    ASSUME NEW pages \in Seq(Text), NEW header, NEW footer
    PROVE  PagesWithout(pages, header, footer) \in Seq(Text)
  BY TextLetters, PagesWithoutIn

\* _strip_repeated_headers_and_footers makes a text.
LEMMA StripEdgesText == ASSUME NEW text \in Text PROVE StripEdges(text) \in Text
  BY TextLetters, StripEdgesIn

\* _strip_page_numbers makes a text.
LEMMA StripPageNumbersText == ASSUME NEW text \in Text PROVE StripPageNumbers(text) \in Text
  BY TextLetters, StripPageNumbersIn

\* _normalize_whitespace, spaces, makes a text.
LEMMA NormalizeSpacesText == ASSUME NEW text \in Text PROVE NormalizeSpaces(text) \in Text
  BY TextLetters, NormalizeSpacesIn

\* _collapse_blank_lines makes a text.
LEMMA CollapseBlanksText == ASSUME NEW text \in Text PROVE CollapseBlanks(text) \in Text
  BY WithoutSequence DEF CollapseBlanks, Text

\* _normalize_dehyphenation makes a text.
LEMMA DehyphenateText == ASSUME NEW text \in Text PROVE Dehyphenate(text) \in Text
  BY TextLetters, DehyphenateIn

\* _fix_header_spacing makes a text.
LEMMA SpaceHeadingsText == ASSUME NEW text \in Text PROVE SpaceHeadings(text) \in Text
  BY TextLetters, SpaceHeadingsIn

\* _normalize_lists makes a text.
LEMMA NormalizeListsText == ASSUME NEW text \in Text PROVE NormalizeLists(text) \in Text
  BY TextLetters, NormalizeListsIn

\* The cells of a row without the spaces around them.
LEMMA StripEach ==
    ASSUME NEW cells \in Seq(Text)
    PROVE  Map(Strip, cells) \in Seq(Text)
<1> DEFINE f == [i \in DOMAIN cells |-> Strip(cells[i])]
<1>1. f = [i \in DOMAIN cells |-> f[i]] /\ Map(Strip, cells) = f
  BY DEF Map
<1>2. ASSUME NEW i \in 1 .. Len(cells) PROVE f[i] \in Text
  <2>1. cells[i] \in Text /\ i \in DOMAIN cells
    OBVIOUS
  <2>2. f[i] = Strip(cells[i])
    BY <2>1
  <2> HIDE DEF f
  <2> QED
    BY <2>1, <2>2, StripSequence DEF Text
<1> HIDE DEF f
<1>3. f \in Seq(Text)
  BY ONLY ZenonT(30), <1>1, <1>2, cells \in Seq(Text), MappedSequence
<1> QED
  BY <1>1, <1>3

\* _clean_tables makes a text.
LEMMA CleanTablesText == ASSUME NEW text \in Text PROVE CleanTables(text) \in Text
<1> DEFINE lines == Lines(text)
           Row(line) == IF Bar \notin Range(line) THEN line
                        ELSE Join(Map(Strip, Split(line, Bar)), <<Bar>>)
           f == [i \in DOMAIN lines |-> Row(lines[i])]
<1>1. CleanTables(text) = FromLines(f)
  BY DEF CleanTables, EachLine, Map
<1>2. lines \in Seq(Text)
  BY LinesText
<1>3. f = [i \in DOMAIN lines |-> f[i]]
  OBVIOUS
<1> HIDE DEF lines
<1>4. ASSUME NEW line \in Text PROVE Row(line) \in Text
  <2>1. Split(line, Bar) \in Seq(Text)
    BY SplitSequence DEF Text
  <2>2. Map(Strip, Split(line, Bar)) \in Seq(Text)
    BY <2>1, StripEach
  <2>3. Join(Map(Strip, Split(line, Bar)), <<Bar>>) \in Text
    BY <2>2, SomeTexts, JoinSequence DEF Text
  <2> QED
    BY <2>3
<1>5. ASSUME NEW i \in 1 .. Len(lines) PROVE f[i] \in Text
  <2>1. lines[i] \in Text /\ i \in DOMAIN lines
    BY <1>2
  <2>2. f[i] = Row(lines[i])
    BY <2>1
  <2> HIDE DEF f, Row
  <2> QED
    BY <1>4, <2>1, <2>2
<1> HIDE DEF f
<1>6. f \in Seq(Text)
  BY ONLY <1>2, <1>3, <1>5, MappedSequence
<1> QED
  BY <1>1, <1>6, FromLinesText

\* The last line that is not blank is one of the lines.
LEMMA LastItemIndentOf ==
    ASSUME NEW lines, NEW repaired \in Seq(Text), NEW i, Continues(lines, repaired, i)
    PROVE  LastItemIndent(repaired) \in Nat
  BY TextLetters, LastItemIndentOfIn

\* _repair_list_continuations makes a text.
LEMMA RepairListsText == ASSUME NEW text \in Text PROVE RepairLists(text) \in Text
  BY TextLetters, RepairListsIn

\* What is between the characters left out at its ends is a text.
LEMMA TrimText == ASSUME NEW s \in Text, NEW edge PROVE Trim(s, edge) \in Text
<1> DEFINE I == {i \in DOMAIN s : s[i] \notin edge}
<1>1. I \in SUBSET DOMAIN s /\ s \in Seq(Atoms)
  BY DEF Text
<1> HIDE DEF I
<1>2. (IF I = {} THEN <<>> ELSE SubSeq(s, Min(I), Max(I))) \in Seq(Atoms)
  BY ONLY <1>1, InnerPart
<1> QED
  BY <1>2 DEF Trim, I, Text

\* A run of spaces made one leaves a text.
LEMMA OneSpaceText == ASSUME NEW s \in Text PROVE OneSpace(s) \in Text
  BY WithoutSequence DEF OneSpace, Text

\* _clean_toc_fragment makes a text.
LEMMA TocFragmentText == ASSUME NEW line \in Text PROVE TocFragment(line) \in Text
<1> DEFINE f == [i \in DOMAIN line |-> IF line[i] = Leader THEN SP ELSE line[i]]
<1>1. TocFragment(line) = Trim(OneSpace(f), {SP, Bar})
  BY DEF TocFragment, Map
<1>2. line \in Seq(Atoms) /\ f = [i \in DOMAIN line |-> f[i]]
  BY DEF Text
<1>3. ASSUME NEW i \in 1 .. Len(line) PROVE f[i] \in Atoms
  <2>1. line[i] \in Atoms /\ i \in DOMAIN line
    BY <1>2
  <2>2. f[i] = IF line[i] = Leader THEN SP ELSE line[i]
    BY <2>1
  <2> HIDE DEF f
  <2> QED
    BY <2>1, <2>2, SomeTexts
<1> HIDE DEF f
<1>4. f \in Seq(Atoms)
  BY ONLY <1>2, <1>3, MappedSequence
<1>5. f \in Text
  BY <1>4 DEF Text
<1> QED
  BY <1>1, <1>5, OneSpaceText, TrimText

\* What is between the characters around a title is a text.
LEMMA TitleText == ASSUME NEW s \in Text PROVE Title(s) \in Text
  BY TrimText DEF Title

\* An entry of a table of contents is a text.
LEMMA EntryText == ASSUME NEW title \in Text PROVE Entry(title, Number) \in Text
  BY SomeTexts, ConcatText DEF Entry

\* _split_markdown_table_row makes texts.
LEMMA CellsText == ASSUME NEW line \in Text PROVE Cells(line) \in Seq(Text)
<1> DEFINE cells == Map(Strip, Split(line, Bar))
           lo == IF Head(cells) = <<>> THEN 2 ELSE 1
           hi == IF Len(cells) > 1 /\ Last(cells) = <<>> THEN Len(cells) - 1 ELSE Len(cells)
<1>1. cells \in Seq(Text)
  BY SplitSequence, StripEach DEF Text
<1>2. Cells(line) = SubSeq(cells, lo, hi)
  BY DEF Cells, WithoutEmptyEnds
<1> HIDE DEF cells
<1>3. lo \in Nat /\ 1 <= lo /\ hi \in Int /\ hi <= Len(cells)
  BY <1>1
<1> HIDE DEF lo, hi
<1>4. SubSeq(cells, lo, hi) \in Seq(Text)
  BY ONLY <1>1, <1>3, SubSequence
<1> QED
  BY <1>2, <1>4

\* _toc_entry_from_cells makes a text.
LEMMA TocEntryText == ASSUME NEW cells \in Seq(Text) PROVE TocEntry(cells) \in Text
<1> DEFINE clean == [i \in DOMAIN cells |-> TocFragment(cells[i])]
           page == {i \in DOMAIN clean : clean[i] = <<Number>>
                                          /\ \A k \in i + 1 .. Len(clean) : clean[k] # <<Number>>}
           D == page \cup {i \in DOMAIN clean : ~ (clean[i] # <<>> /\ ~IsSeparatorOnly(clean[i]))}
           title == Title(Join(Without(clean, D), <<SP>>))
<1>1. TocEntry(cells) \in {title, Entry(title, Number)}
  BY DEF TocEntry, Map
<1>2. clean = [i \in DOMAIN cells |-> clean[i]]
  OBVIOUS
<1>3. ASSUME NEW i \in 1 .. Len(cells) PROVE clean[i] \in Text
  <2>1. cells[i] \in Text /\ i \in DOMAIN cells
    OBVIOUS
  <2>2. clean[i] = TocFragment(cells[i])
    BY <2>1
  <2> HIDE DEF clean
  <2> QED
    BY <2>1, <2>2, TocFragmentText
<1> HIDE DEF clean, D
<1>4. clean \in Seq(Text)
  BY ONLY <1>2, <1>3, cells \in Seq(Text), MappedSequence
<1>5. Join(Without(clean, D), <<SP>>) \in Text
  <2>1. Without(clean, D) \in Seq(Text)
    BY <1>4, WithoutSequence
  <2> QED
    BY <2>1, SomeTexts, JoinSequence DEF Text
<1>6. title \in Text
  BY <1>5, TitleText
<1> HIDE DEF title
<1> QED
  BY <1>1, <1>6, EntryText

\* _normalize_toc_table_block makes lines.
LEMMA TocTableText == ASSUME NEW block \in Seq(Text) PROVE TocTable(block) \in Seq(Text)
<1> DEFINE rows == [i \in DOMAIN block |-> Cells(block[i])]
           Skip(i) == IsSeparatorRow(rows[i]) \/ (i = 1 /\ Len(rows) > 1 /\ IsSeparatorRow(rows[2]))
           entries == [i \in DOMAIN rows |-> IF Skip(i) THEN <<>> ELSE TocEntry(rows[i])]
           D == {i \in DOMAIN entries : entries[i] = <<>>}
<1>1. TocTable(block) \in {block, Without(entries, D)}
  BY DEF TocTable, TableEntries, Map
<1>2. rows = [i \in DOMAIN block |-> rows[i]]
  OBVIOUS
<1>3. ASSUME NEW i \in 1 .. Len(block) PROVE rows[i] \in Seq(Text)
  <2>1. block[i] \in Text /\ i \in DOMAIN block
    OBVIOUS
  <2>2. rows[i] = Cells(block[i])
    BY <2>1
  <2> HIDE DEF rows
  <2> QED
    BY <2>1, <2>2, CellsText
<1> HIDE DEF rows
<1>4. rows \in Seq(Seq(Text))
  BY ONLY <1>2, <1>3, block \in Seq(Text), MappedSequence
<1>5. entries = [i \in DOMAIN rows |-> entries[i]]
  OBVIOUS
<1> HIDE DEF Skip
<1>6. ASSUME NEW i \in 1 .. Len(rows) PROVE entries[i] \in Text
  <2>1. rows[i] \in Seq(Text) /\ i \in DOMAIN rows
    BY <1>4
  <2>2. entries[i] = IF Skip(i) THEN <<>> ELSE TocEntry(rows[i])
    BY <2>1
  <2> HIDE DEF entries
  <2> QED
    BY <2>1, <2>2, TocEntryText, SomeTexts
<1> HIDE DEF entries, D
<1>7. entries \in Seq(Text)
  BY ONLY <1>4, <1>5, <1>6, MappedSequence
<1> QED
  BY <1>1, <1>7, WithoutSequence

\* _normalize_toc_line makes lines.
LEMMA TocLineText == ASSUME NEW line \in Text PROVE TocLine(line) \in Seq(Text)
<1> DEFINE cleaned == TocFragment(Strip(line))
           title == Title(SubSeq(cleaned, 1, Len(cleaned) - 2))
<1>1. cleaned \in Text
  BY StripSequence, TocFragmentText DEF Text
<1>2. TocLine(line) \in {<<line>>, <<>>, LeaderLine(cleaned)}
  BY DEF TocLine
<1> HIDE DEF cleaned
<1>3. LeaderLine(cleaned) \in {<<>>, <<Title(cleaned)>>, <<Entry(title, Number)>>}
  BY DEF LeaderLine
<1>4. title \in Text
  <2>1. SubSeq(cleaned, 1, Len(cleaned) - 2) \in Text
    BY <1>1, SubSequence DEF Text
  <2> QED
    BY <2>1, TitleText
<1> HIDE DEF title
<1>5. Title(cleaned) \in Text /\ Entry(title, Number) \in Text
  BY <1>1, <1>4, TitleText, EntryText
<1>6. \A t \in Text : <<t>> \in Seq(Text)
  OBVIOUS
<1>7. /\ <<line>> \in Seq(Text) /\ <<>> \in Seq(Text) /\ <<Title(cleaned)>> \in Seq(Text)
      /\ <<Entry(title, Number)>> \in Seq(Text)
  BY <1>5, <1>6
<1> QED
  BY ONLY <1>2, <1>3, <1>7

\* _normalize_toc_region makes lines.
LEMMA TocRegionText == ASSUME NEW lines \in Seq(Text) PROVE TocRegion(lines) \in Seq(Text)
<1> DEFINE n == Len(lines)
           HasBar(i) == Bar \in Range(lines[i])
           Free(i) == {k \in i .. Len(lines) : ~HasBar(k)} \cup {Len(lines) + 1}
           BlockEnd(i) == Min({k \in i .. Len(lines) : ~HasBar(k)} \cup {Len(lines) + 1})
           Cleaned(i) == IF HasBar(i) THEN TocTable(SubSeq(lines, i, BlockEnd(i) - 1)) ELSE TocLine(lines[i])
           piece == [i \in DOMAIN lines |-> Cleaned(i)]
           next == [i \in DOMAIN lines |-> IF HasBar(i) THEN BlockEnd(i) ELSE i + 1]
<1>1. TocRegion(lines) = Scanned(n, piece, next)
  BY DEF TocRegion
<1>2. n \in Nat /\ DOMAIN lines = 1 .. n
  OBVIOUS
<1> HIDE DEF HasBar
<1>3. ASSUME NEW i \in 1 .. n
      PROVE  BlockEnd(i) \in i .. n + 1 /\ (HasBar(i) => BlockEnd(i) # i)
  <2> DEFINE C == Free(i)
             m == n + 1
  <2>1. C \in SUBSET (i .. m) /\ C # {} /\ i \in Int /\ m \in Int /\ (HasBar(i) => i \notin C)
    BY <1>2
  <2>2. BlockEnd(i) = Min(C)
    OBVIOUS
  <2> HIDE DEF C, m
  <2>3. Min(C) \in C
    BY ONLY <2>1, MinOf
  <2> QED
    BY <2>1, <2>2, <2>3 DEF m
<1> HIDE DEF BlockEnd
<1>4. ASSUME NEW i \in 1 .. n
      PROVE  next[i] \in i + 1 .. n + 1 /\ piece[i] \in Seq(Text)
  <2>1. next[i] = IF HasBar(i) THEN BlockEnd(i) ELSE i + 1
    BY <1>2
  <2>2. piece[i] \in {TocTable(SubSeq(lines, i, BlockEnd(i) - 1)), TocLine(lines[i])}
    BY <1>2
  <2> HIDE DEF piece, next
  <2>3. next[i] \in i + 1 .. n + 1
    BY <1>2, <1>3, <2>1
  <2>4. SubSeq(lines, i, BlockEnd(i) - 1) \in Seq(Text)
    <3>1. BlockEnd(i) - 1 \in Int /\ BlockEnd(i) - 1 <= Len(lines)
      BY <1>2, <1>3
    <3> QED
      BY <3>1, SubSequence
  <2>5. lines[i] \in Text
    BY <1>2
  <2> QED
    BY <2>2, <2>3, <2>4, <2>5, TocTableText, TocLineText
<1> HIDE DEF n, piece, next
<1> QED
  BY <1>1, <1>2, <1>4, ScannedSequence

\* _find_toc_region_end: a region ends behind its beginning, at the last line at the latest.
LEMMA TocRegionEndOf ==
    ASSUME NEW lines \in Seq(Text), NEW start \in 1 .. Len(lines) + 1
    PROVE  TocRegionEnd(lines, start) \in start .. Len(lines) + 1
<1> DEFINE n == Len(lines) + 1
           SawEntry(i) == \E k \in start .. i - 1 : ~IsBlank(lines[k]) /\ LooksLikeToc(lines[k])
           Ends(i) ==
               \/ i = Len(lines) + 1
               \/ IsHeading(lines[i]) /\ ~IsTocHeading(lines[i])
               \/ /\ ~IsBlank(lines[i]) /\ ~LooksLikeToc(lines[i])
                  /\ SawEntry(i) \/ "LONG" \in Range(lines[i])
           I == {i \in start .. Len(lines) + 1 : Ends(i)}
<1>1. TocRegionEnd(lines, start) = Min(I)
  BY DEF TocRegionEnd
<1>2. I # {} /\ I \in SUBSET (start .. n) /\ start \in Int /\ n \in Int
  OBVIOUS
<1> HIDE DEF I, n
<1>3. Min(I) \in I
  BY ONLY <1>2, MinOf
<1> QED
  BY <1>1, <1>2, <1>3 DEF n

\* normalize_toc_blocks makes a text.
LEMMA NormalizeTocText == ASSUME NEW text \in Text PROVE NormalizeToc(text) \in Text
<1> DEFINE lines == Lines(text)
           n == Len(lines)
           End(i) == IF IsTocHeading(lines[i]) THEN TocRegionEnd(lines, i + 1) ELSE i + 1
           Cleaned(i) == <<lines[i]>> \o TocRegion(SubSeq(lines, i + 1, End(i) - 1))
           piece == [i \in DOMAIN lines |-> Cleaned(i)]
           next == [i \in DOMAIN lines |-> End(i)]
<1>1. NormalizeToc(text) = FromLines(Scanned(n, piece, next))
  BY DEF NormalizeToc, NormalizeTocLines
<1>2. lines \in Seq(Text) /\ n \in Nat /\ DOMAIN lines = 1 .. n
  BY LinesText
<1> HIDE DEF lines
<1>3. ASSUME NEW i \in 1 .. n PROVE End(i) \in i + 1 .. n + 1
  <2>1. i + 1 \in 1 .. Len(lines) + 1
    BY <1>2
  <2>2. TocRegionEnd(lines, i + 1) \in i + 1 .. Len(lines) + 1
    BY <1>2, <2>1, TocRegionEndOf
  <2> QED
    BY <1>2, <2>2
<1> HIDE DEF End
<1>4. ASSUME NEW i \in 1 .. n
      PROVE  next[i] \in i + 1 .. n + 1 /\ piece[i] \in Seq(Text)
  <2>1. next[i] = End(i) /\ piece[i] = <<lines[i]>> \o TocRegion(SubSeq(lines, i + 1, End(i) - 1))
    BY <1>2
  <2> HIDE DEF piece, next
  <2>2. SubSeq(lines, i + 1, End(i) - 1) \in Seq(Text)
    <3> DEFINE j == i + 1
               k == End(i) - 1
    <3>1. j \in Nat /\ 1 <= j /\ k \in Int /\ k <= Len(lines)
      BY <1>2, <1>3
    <3> HIDE DEF j, k
    <3>2. SubSeq(lines, j, k) \in Seq(Text)
      BY ONLY <1>2, <3>1, SubSequence
    <3> QED
      BY <3>2 DEF j, k
  <2>3. TocRegion(SubSeq(lines, i + 1, End(i) - 1)) \in Seq(Text)
    BY <2>2, TocRegionText
  <2>4. <<lines[i]>> \in Seq(Text)
    BY <1>2
  <2>5. <<lines[i]>> \o TocRegion(SubSeq(lines, i + 1, End(i) - 1)) \in Seq(Text)
    BY <2>3, <2>4
  <2> QED
    BY <1>3, <2>1, <2>5
<1> HIDE DEF n, piece, next
<1>5. Scanned(n, piece, next) \in Seq(Text)
  BY <1>2, <1>4, ScannedSequence
<1> QED
  BY <1>1, <1>5, FromLinesText

\* All passes together.
LEMMA CleanProseText == ASSUME NEW text \in Text PROVE CleanProse(text) \in Text
<1>1. CleanPages(text) \in Text
  BY UnixLinesText, StripEdgesText, BreakPagesText, StripPageNumbersText DEF CleanPages
<1>2. CleanLines(CleanPages(text)) \in Text
  BY <1>1, NormalizeSpacesText, DehyphenateText, SpaceHeadingsText DEF CleanLines
<1>3. CleanLists(CleanLines(CleanPages(text))) \in Text
  BY <1>2, NormalizeListsText, RepairListsText DEF CleanLists
<1> QED
  BY <1>3, NormalizeTocText, CleanTablesText, CollapseBlanksText DEF CleanProse

\* The blocks between and of the fences.
LEMMA FencedBlocksText ==
    ASSUME NEW text \in Text
    PROVE  FencedBlocks(text) \in Seq([fenced : BOOLEAN, text : Text])
<1> DEFINE T == [fenced : BOOLEAN, text : Text]
           lines == KeptLines(text)
           n == Len(lines)
           Block(fenced, i, k) == [fenced |-> fenced, text |-> FlattenSeq(SubSeq(lines, i, k))]
           Closing(i) == {k \in i + 1 .. Len(lines) : ClosesFence(lines[k], Head(Outdent(lines[i])))}
                         \cup {Len(lines)}
           Opening(i) == {k \in i .. Len(lines) : OpensFence(lines[k])} \cup {Len(lines) + 1}
           CloseAt(i) == Min({k \in i + 1 .. Len(lines) :
                                  ClosesFence(lines[k], Head(Outdent(lines[i])))} \cup {Len(lines)})
           OpenAt(i) == Min({k \in i .. Len(lines) : OpensFence(lines[k])} \cup {Len(lines) + 1})
           End(i) == IF OpensFence(lines[i]) THEN CloseAt(i) ELSE OpenAt(i) - 1
           piece == [i \in DOMAIN lines |-> <<Block(OpensFence(lines[i]), i, End(i))>>]
           next == [i \in DOMAIN lines |-> End(i) + 1]
<1>1. FencedBlocks(text) = Scanned(n, piece, next)
  BY DEF FencedBlocks
<1>2. lines \in Seq(Text) /\ n \in Nat /\ DOMAIN lines = 1 .. n
  <2>1. KeptLines(text) \in Seq(Seq(Atoms))
    BY LinesTile DEF Text
  <2> QED
    BY <2>1 DEF Text
<1> HIDE DEF lines
<1>3. ASSUME NEW i \in 1 .. n PROVE CloseAt(i) \in i .. n
  <2> DEFINE C == Closing(i)
  <2>1. C \in SUBSET (i .. n) /\ C # {} /\ i \in Int /\ n \in Int
    BY <1>2
  <2>2. CloseAt(i) = Min(C)
    OBVIOUS
  <2> HIDE DEF C
  <2>3. Min(C) \in C
    BY ONLY <2>1, MinOf
  <2> QED
    BY <2>1, <2>2, <2>3
<1>4. ASSUME NEW i \in 1 .. n PROVE OpenAt(i) \in i .. n + 1 /\ (~OpensFence(lines[i]) => OpenAt(i) # i)
  <2> DEFINE C == Opening(i)
             m == n + 1
  <2>1. C \in SUBSET (i .. m) /\ C # {} /\ i \in Int /\ m \in Int /\ (~OpensFence(lines[i]) => i \notin C)
    BY <1>2
  <2>2. OpenAt(i) = Min(C)
    OBVIOUS
  <2> HIDE DEF C, m
  <2>3. Min(C) \in C
    BY ONLY <2>1, MinOf
  <2> QED
    BY <2>1, <2>2, <2>3 DEF m
<1>5. ASSUME NEW i \in 1 .. n PROVE End(i) \in i .. n
  <2> HIDE DEF CloseAt, OpenAt
  <2> QED
    BY <1>2, <1>3, <1>4
<1> HIDE DEF End
<1>6. ASSUME NEW i \in 1 .. n PROVE next[i] \in i + 1 .. n + 1 /\ piece[i] \in Seq(T)
  <2>1. next[i] = End(i) + 1 /\ piece[i] = <<Block(OpensFence(lines[i]), i, End(i))>>
    BY <1>2
  <2> HIDE DEF piece, next
  <2>2. next[i] \in i + 1 .. n + 1
    BY <1>2, <1>5, <2>1
  <2>3. SubSeq(lines, i, End(i)) \in Seq(Text)
    <3> DEFINE k == End(i)
    <3>1. i \in Nat /\ 1 <= i /\ k \in Int /\ k <= Len(lines)
      BY <1>2, <1>5
    <3> HIDE DEF k
    <3>2. SubSeq(lines, i, k) \in Seq(Text)
      BY ONLY <1>2, <3>1, SubSequence
    <3> QED
      BY <3>2 DEF k
  <2>4. FlattenSeq(SubSeq(lines, i, End(i))) \in Text
    BY <2>3, FlattenSequence DEF Text
  <2>5. OpensFence(lines[i]) \in BOOLEAN
    BY DEF OpensFence, StartsWith
  <2> DEFINE b == Block(OpensFence(lines[i]), i, End(i))
  <2>6. b \in T
    BY <2>4, <2>5
  <2> HIDE DEF b, T
  <2>7. <<b>> \in Seq(T)
    BY <2>6
  <2> QED
    BY <2>1, <2>2, <2>7 DEF b
<1> HIDE DEF n, piece, next, T
<1>7. Scanned(n, piece, next) \in Seq(T)
  BY <1>2, <1>6, ScannedSequence
<1> QED
  BY <1>1, <1>7 DEF T

\* Cleaned Markdown is a text.
LEMMA CleanMarkdownText == ASSUME NEW text \in Text PROVE CleanMarkdown(text) \in Text
<1> DEFINE blocks == FencedBlocks(text)
           f == [i \in DOMAIN blocks |-> CleanBlock(blocks[i])]
           T == [fenced : BOOLEAN, text : Text]
<1>1. CleanMarkdown(text) = Strip(FlattenSeq(f)) \o <<NL>>
  BY DEF CleanMarkdown, FlatMap, Map
<1>2. blocks \in Seq(T)
  BY FencedBlocksText
<1> HIDE DEF T
<1>3. f = [i \in DOMAIN blocks |-> f[i]]
  OBVIOUS
<1> HIDE DEF blocks
<1>4. ASSUME NEW i \in 1 .. Len(blocks) PROVE f[i] \in Text
  <2>1. blocks[i] \in T /\ i \in DOMAIN blocks
    BY <1>2
  <2>2. f[i] = CleanBlock(blocks[i])
    BY <2>1
  <2>3. blocks[i].text \in Text
    BY <2>1 DEF T
  <2> HIDE DEF f
  <2> QED
    BY <2>2, <2>3, CleanProseText DEF CleanBlock
<1> HIDE DEF f
<1>5. f \in Seq(Text)
  BY ONLY <1>2, <1>3, <1>4, MappedSequence
<1>6. Strip(FlattenSeq(f)) \in Text
  BY <1>5, FlattenSequence, StripSequence DEF Text
<1> QED
  BY <1>1, <1>6, SomeTexts, ConcatText
-----------------------------------------------------------------------------
(* Sequences spelled out, and parts of them.                                *)

\* Concatenation is associative.
LEMMA Assoc ==
    ASSUME NEW T, NEW s \in Seq(T), NEW t \in Seq(T), NEW u \in Seq(T)
    PROVE  s \o (t \o u) = (s \o t) \o u
OBVIOUS

\* An append is a concatenation with a sequence of one element.
LEMMA AppendIs ==
    ASSUME NEW T, NEW s \in Seq(T), NEW x \in T
    PROVE  /\ Append(s, x) = s \o <<x>>
           /\ <<x>> \in Seq(T) /\ Append(s, x) \in Seq(T)
OBVIOUS

\* An append behind a concatenation is an append to its second half.
LEMMA ConcatAppend ==
    ASSUME NEW T, NEW s \in Seq(T), NEW t \in Seq(T), NEW x \in T
    PROVE  s \o Append(t, x) = Append(s \o t, x)
OBVIOUS

\* The empty sequence changes nothing at either end of a concatenation.
LEMMA ConcatEmpty ==
    ASSUME NEW T, NEW s \in Seq(T)
    PROVE  s \o <<>> = s /\ <<>> \o s = s
OBVIOUS

\* Flattening one more sequence puts it behind the others.
LEMMA FlattenAppend ==
    ASSUME NEW T, NEW seqs \in Seq(Seq(T)), NEW x \in Seq(T)
    PROVE  FlattenSeq(Append(seqs, x)) = FlattenSeq(seqs) \o x
<1> DEFINE n == Len(seqs)
           more == Append(seqs, x)
<1>1. more \in Seq(Seq(T)) /\ Len(more) = n + 1 /\ n \in Nat /\ more[n + 1] = x
      /\ \A k \in 1 .. n : more[k] = seqs[k]
  OBVIOUS
<1>2. PICK f : Joins(f, T, seqs) /\ FlattenSeq(seqs) = f[n]
  BY FlattenSteps
<1>3. PICK g : Joins(g, T, more) /\ FlattenSeq(more) = g[Len(more)]
  BY <1>1, FlattenSteps
<1>4. f[0] = <<>> /\ \A k \in 1 .. n : f[k] = f[k - 1] \o seqs[k]
  BY <1>2 DEF Joins
<1>5. g[0] = <<>> /\ \A k \in 1 .. n + 1 : g[k] = g[k - 1] \o more[k]
  <2> HIDE DEF more, n
  <2> QED
    BY <1>1, <1>3 DEF Joins
<1> HIDE DEF n, more
<1>6. \A k \in 0 .. n : g[k] = f[k]
  <2> DEFINE S == {k \in Int : g[k] = f[k]}
  <2>1. 0 \in S
    BY <1>4, <1>5
  <2>2. ASSUME NEW k \in 1 .. n, k - 1 \in S PROVE k \in S
    <3>1. g[k - 1] = f[k - 1] /\ k \in 1 .. n + 1
      BY <1>1, <2>2
    <3>2. f[k] = f[k - 1] \o seqs[k] /\ g[k] = g[k - 1] \o more[k] /\ more[k] = seqs[k]
      BY <1>1, <1>4, <1>5, <3>1
    <3>3. g[k] = f[k]
      BY <3>1, <3>2
    <3> QED
      BY <3>3
  <2> HIDE DEF S
  <2>3. \A k \in 0 .. n : k \in S
    BY ONLY <1>1, <2>1, <2>2, Forwards
  <2> QED
    BY <2>3 DEF S
<1>7. g[n + 1] = g[(n + 1) - 1] \o x /\ (n + 1) - 1 = n /\ n \in 0 .. n
  <2>1. n + 1 \in 1 .. n + 1 /\ (n + 1) - 1 = n /\ n \in 0 .. n
    BY <1>1
  <2>2. g[n + 1] = g[(n + 1) - 1] \o more[n + 1]
    BY ONLY <1>5, <2>1
  <2> QED
    BY ONLY <1>1, <2>1, <2>2
<1>8. FlattenSeq(more) = f[n] \o x
  <2>1. FlattenSeq(more) = g[n + 1] /\ g[n] = f[n]
    BY <1>1, <1>3, <1>6, <1>7
  <2> QED
    BY ONLY <1>7, <2>1
<1> QED
  BY <1>2, <1>8 DEF more

\* A function on 1 .. n is a sequence.
LEMMA IsSeq ==
    ASSUME NEW U, NEW n \in Nat, NEW m \in [1 .. n -> U]
    PROVE  m \in Seq(U) /\ Len(m) = n /\ DOMAIN m = 1 .. n /\ \A i \in 1 .. n : m[i] \in U
OBVIOUS

\* Joining nothing, and one sequence.
LEMMA FlattenFew ==
    ASSUME NEW T, NEW x \in Seq(T)
    PROVE  FlattenSeq(<<>>) = <<>> /\ FlattenSeq(<<x>>) = x
<1>1. <<>> \in Seq(Seq(T)) /\ Len(<<>>) = 0 /\ <<>> \in Seq(T)
  OBVIOUS
<1>2. PICK f : Joins(f, T, <<>>) /\ FlattenSeq(<<>>) = f[0]
  BY <1>1, FlattenSteps
<1>3. FlattenSeq(<<>>) = <<>>
  BY <1>2 DEF Joins
<1>4. FlattenSeq(Append(<<>>, x)) = FlattenSeq(<<>>) \o x
  BY <1>1, FlattenAppend
<1>5. Append(<<>>, x) = <<x>> /\ <<>> \o x = x
  OBVIOUS
<1> QED
  BY <1>3, <1>4, <1>5

\* Induction over a sequence: what holds of nothing and still holds with one more
\* element holds of the sequence.
LEMMA SeqInduction ==
    ASSUME NEW T, NEW s \in Seq(T), NEW P, <<>> \in P,
           \A v \in Seq(T), x \in T : v \in P => Append(v, x) \in P
    PROVE  s \in P
<1> DEFINE n == Len(s)
           upto == [k \in 0 .. n |-> SubSeq(s, 1, k)]
           S == {k \in Int : upto[k] \in P}
<1>1. n \in Nat /\ upto[n] = s /\ upto[0] = <<>>
  OBVIOUS
<1>2. ASSUME NEW k \in 1 .. n
      PROVE  upto[k] = Append(upto[k - 1], s[k]) /\ upto[k - 1] \in Seq(T) /\ s[k] \in T
  <2>1. /\ SubSeq(s, 1, k - 1) \in Seq(T) /\ s[k] \in T
        /\ SubSeq(s, 1, k) = Append(SubSeq(s, 1, k - 1), s[k])
    OBVIOUS
  <2>2. upto[k] = SubSeq(s, 1, k) /\ upto[k - 1] = SubSeq(s, 1, k - 1)
    OBVIOUS
  <2> QED
    BY ONLY <2>1, <2>2
<1> HIDE DEF upto, n
<1>3. 0 \in S
  BY <1>1
<1>4. ASSUME NEW k \in 1 .. n, k - 1 \in S PROVE k \in S
  <2>1. upto[k - 1] \in P
    BY <1>4
  <2>2. upto[k] \in P
    BY <1>2, <2>1
  <2> QED
    BY <2>2
<1> HIDE DEF S
<1>5. \A k \in 0 .. n : k \in S
  BY ONLY <1>1, <1>3, <1>4, Forwards
<1>6. n \in S
  BY <1>1, <1>5
<1> QED
  BY <1>1, <1>6 DEF S

\* Joining goes through the concatenation.
LEMMA FlattenConcat ==
    ASSUME NEW T, NEW a \in Seq(Seq(T)), NEW b \in Seq(Seq(T))
    PROVE  FlattenSeq(a \o b) = FlattenSeq(a) \o FlattenSeq(b)
<1> DEFINE P == {v \in Seq(Seq(T)) : FlattenSeq(a \o v) = FlattenSeq(a) \o FlattenSeq(v)}
<1>1. FlattenSeq(a) \in Seq(T)
  BY FlattenSequence
<1>2. <<>> \in P
  <2>1. a \o <<>> = a /\ FlattenSeq(a) \o <<>> = FlattenSeq(a) /\ <<>> \in Seq(Seq(T)) /\ <<>> \in Seq(T)
    BY <1>1, ConcatEmpty
  <2>2. FlattenSeq(<<>>) = <<>>
    BY <2>1, FlattenFew
  <2> QED
    BY <2>1, <2>2
<1>3. ASSUME NEW v \in Seq(Seq(T)), NEW x \in Seq(T), v \in P PROVE Append(v, x) \in P
  <2>1. a \o Append(v, x) = Append(a \o v, x) /\ a \o v \in Seq(Seq(T)) /\ Append(v, x) \in Seq(Seq(T))
    OBVIOUS
  <2>2. FlattenSeq(Append(a \o v, x)) = FlattenSeq(a \o v) \o x
    BY <2>1, FlattenAppend
  <2>3. FlattenSeq(Append(v, x)) = FlattenSeq(v) \o x
    BY FlattenAppend
  <2>4. FlattenSeq(v) \in Seq(T)
    BY FlattenSequence
  <2>5. FlattenSeq(a) \o (FlattenSeq(v) \o x) = (FlattenSeq(a) \o FlattenSeq(v)) \o x
    BY ONLY <1>1, <2>4, x \in Seq(T), Assoc
  <2>6. FlattenSeq(a \o v) = FlattenSeq(a) \o FlattenSeq(v)
    BY <1>3
  <2> QED
    BY <2>1, <2>2, <2>3, <2>5, <2>6
<1> HIDE DEF P
<1>4. b \in P
  BY ONLY b \in Seq(Seq(T)), <1>2, <1>3, SeqInduction
<1> QED
  BY <1>4 DEF P

\* What g makes of the elements of s, joined.
Spelled(g, s) == FlattenSeq([i \in DOMAIN s |-> g[s[i]]])

\* Spelling goes through the concatenation.
LEMMA SpelledParts ==
    ASSUME NEW S, NEW T, NEW g \in [S -> Seq(T)]
    PROVE  /\ \A s \in Seq(S) : Spelled(g, s) \in Seq(T)
           /\ Spelled(g, <<>>) = <<>>
           /\ \A x \in S : Spelled(g, <<x>>) = g[x]
           /\ \A s \in Seq(S), t \in Seq(S) : Spelled(g, s \o t) = Spelled(g, s) \o Spelled(g, t)
           /\ \A s \in Seq(S), x \in S : Spelled(g, Append(s, x)) = Spelled(g, s) \o g[x]
<1> DEFINE Image(s) == [i \in DOMAIN s |-> g[s[i]]]
<1>1. ASSUME NEW s \in Seq(S)
      PROVE  Image(s) \in Seq(Seq(T)) /\ Len(Image(s)) = Len(s) /\ \A i \in 1 .. Len(s) : Image(s)[i] = g[s[i]]
  <2> DEFINE m == Image(s)
  <2>1. m = [i \in DOMAIN s |-> m[i]] /\ \A i \in 1 .. Len(s) : m[i] = g[s[i]] /\ g[s[i]] \in Seq(T)
    OBVIOUS
  <2> HIDE DEF m
  <2>2. m = [i \in DOMAIN s |-> m[i]] /\ \A i \in 1 .. Len(s) : m[i] \in Seq(T)
    BY <2>1
  <2>3. m \in Seq(Seq(T)) /\ Len(m) = Len(s)
    <3> DEFINE U == Seq(T)
    <3>1. m = [i \in DOMAIN s |-> m[i]] /\ \A i \in 1 .. Len(s) : m[i] \in U
      BY <2>2
    <3> HIDE DEF U
    <3>2. DOMAIN s = 1 .. Len(s) /\ Len(s) \in Nat
      OBVIOUS
    <3>3. m = [i \in 1 .. Len(s) |-> m[i]]
      BY ONLY <3>1, <3>2
    <3>4. m \in [1 .. Len(s) -> U]
      BY ONLY <3>1, <3>3
    <3>5. m \in Seq(U) /\ Len(m) = Len(s)
      BY ONLY <3>2, <3>4, IsSeq
    <3> QED
      BY <3>5 DEF U
  <2> QED
    BY <2>1, <2>3 DEF m
<1>2. ASSUME NEW s \in Seq(S) PROVE Spelled(g, s) \in Seq(T)
  <2> HIDE DEF Image
  <2>1. FlattenSeq(Image(s)) \in Seq(T)
    BY <1>1, FlattenSequence
  <2> QED
    BY <2>1 DEF Spelled, Image
<1>3. Spelled(g, <<>>) = <<>>
  <2>1. Image(<<>>) = <<>>
    OBVIOUS
  <2>2. <<>> \in Seq(T)
    OBVIOUS
  <2>3. FlattenSeq(<<>>) = <<>>
    BY <2>2, FlattenFew
  <2> HIDE DEF Image
  <2> QED
    BY <2>1, <2>3 DEF Spelled, Image
<1>4. ASSUME NEW x \in S PROVE Spelled(g, <<x>>) = g[x]
  <2>1. Image(<<x>>) = <<g[x]>> /\ g[x] \in Seq(T)
    OBVIOUS
  <2>2. FlattenSeq(<<g[x]>>) = g[x]
    BY <2>1, FlattenFew
  <2> HIDE DEF Image
  <2> QED
    BY <2>1, <2>2 DEF Spelled, Image
<1>5. ASSUME NEW s \in Seq(S), NEW t \in Seq(S)
      PROVE  Spelled(g, s \o t) = Spelled(g, s) \o Spelled(g, t)
  <2> DEFINE a == Image(s)
             b == Image(t)
             c == Image(s \o t)
  <2>1. s \o t \in Seq(S) /\ Len(s \o t) = Len(s) + Len(t) /\ Len(s) \in Nat /\ Len(t) \in Nat
        /\ (\A i \in 1 .. Len(s) : (s \o t)[i] = s[i])
        /\ \A i \in Len(s) + 1 .. Len(s) + Len(t) : (s \o t)[i] = t[i - Len(s)]
    OBVIOUS
  <2>2. /\ a \in Seq(Seq(T)) /\ Len(a) = Len(s) /\ \A i \in 1 .. Len(s) : a[i] = g[s[i]]
        /\ b \in Seq(Seq(T)) /\ Len(b) = Len(t) /\ \A i \in 1 .. Len(t) : b[i] = g[t[i]]
    BY <1>1
  <2>3. c \in Seq(Seq(T)) /\ Len(c) = Len(s \o t) /\ \A i \in 1 .. Len(s \o t) : c[i] = g[(s \o t)[i]]
    <3> HIDE DEF Image
    <3> QED
      BY <1>1, <2>1
  <2> HIDE DEF a, b, c
  <2>4. c = a \o b
    <3> DEFINE d == a \o b
    <3>1. d \in Seq(Seq(T)) /\ Len(d) = Len(c)
          /\ (\A i \in 1 .. Len(s) : d[i] = a[i])
          /\ \A i \in Len(s) + 1 .. Len(s) + Len(t) : d[i] = b[i - Len(s)]
      BY <2>1, <2>2, <2>3
    <3> HIDE DEF d
    <3>2. \A i \in 1 .. Len(c) : c[i] = d[i]
      <4> SUFFICES ASSUME NEW i \in 1 .. Len(c) PROVE c[i] = d[i]
        OBVIOUS
      <4>0. Len(c) = Len(s) + Len(t) /\ c[i] = g[(s \o t)[i]]
        BY <2>1, <2>3
      <4>1. CASE i \in 1 .. Len(s)
        BY <2>1, <2>2, <3>1, <4>0, <4>1
      <4>2. CASE i \in Len(s) + 1 .. Len(s) + Len(t)
        <5>1. i - Len(s) \in 1 .. Len(t)
          BY <2>1, <4>2
        <5> QED
          BY <2>1, <2>2, <3>1, <4>0, <4>2, <5>1
      <4> QED
        BY <2>1, <4>0, <4>1, <4>2
    <3>3. c = d
      BY <2>3, <3>1, <3>2, SameSequence
    <3> QED
      BY <3>3 DEF d
  <2>5. FlattenSeq(a \o b) = FlattenSeq(a) \o FlattenSeq(b)
    BY <2>2, FlattenConcat
  <2> QED
    BY <2>4, <2>5 DEF Spelled, a, b, c
<1>6. ASSUME NEW s \in Seq(S), NEW x \in S PROVE Spelled(g, Append(s, x)) = Spelled(g, s) \o g[x]
  <2>1. Append(s, x) = s \o <<x>> /\ <<x>> \in Seq(S)
    OBVIOUS
  <2> QED
    BY <1>4, <1>5, <2>1
<1> QED
  BY <1>2, <1>3, <1>4, <1>5, <1>6

\* A quotation, element by element.
Quoted(t, p) == \E i \in Nat : i + Len(p) <= Len(t) /\ \A k \in 1 .. Len(p) : t[i + k] = p[k]

\* Quotes, element by element.
LEMMA QuotesAt ==
    ASSUME NEW A, NEW t \in Seq(A), NEW p \in Seq(A)
    PROVE  Quotes(t, p) <=> Quoted(t, p)
<1>0. Len(t) \in Nat /\ Len(p) \in Nat
  OBVIOUS
<1>1. ASSUME NEW i \in Nat, i + Len(p) <= Len(t)
      PROVE  SubSeq(t, i + 1, i + Len(p)) = p <=> \A k \in 1 .. Len(p) : t[i + k] = p[k]
  <2> DEFINE u == SubSeq(t, i + 1, i + Len(p))
  <2>1. u \in Seq(A) /\ Len(u) = Len(p) /\ \A k \in 1 .. Len(p) : u[k] = t[i + k]
    <3>1. CASE Len(p) = 0
      BY <3>1
    <3>2. CASE Len(p) # 0
      <4>1. i + 1 \in 1 .. Len(t) /\ i + Len(p) \in 1 .. Len(t)
        BY <1>0, <1>1, <3>2
      <4> QED
        BY SMTT(40), <1>0, <1>1, <4>1
    <3> QED
      BY <3>1, <3>2
  <2> HIDE DEF u
  <2>2. u = p <=> \A k \in 1 .. Len(p) : u[k] = p[k]
    BY <2>1, SameSequence
  <2> QED
    BY <2>1, <2>2 DEF u
<1>2. ASSUME Quotes(t, p)
      PROVE  Quoted(t, p)
  <2>1. PICK i \in 0 .. Len(t) - Len(p) : SubSeq(t, i + 1, i + Len(p)) = p
    BY <1>2 DEF Quotes
  <2>2. i \in Nat /\ i + Len(p) <= Len(t)
    BY <1>0
  <2> QED
    BY <1>1, <2>1, <2>2 DEF Quoted
<1>3. ASSUME NEW i \in Nat, i + Len(p) <= Len(t), \A k \in 1 .. Len(p) : t[i + k] = p[k]
      PROVE  Quotes(t, p)
  <2>1. i \in 0 .. Len(t) - Len(p)
    BY <1>0, <1>3
  <2>2. SubSeq(t, i + 1, i + Len(p)) = p
    BY <1>1, <1>3
  <2> QED
    BY <2>1, <2>2 DEF Quotes
<1> QED
  BY <1>2, <1>3 DEF Quoted

\* A quotation stays one in a longer text.
LEMMA QuotesIn ==
    ASSUME NEW A, NEW s \in Seq(A), NEW p \in Seq(A), NEW a \in Seq(A), NEW b \in Seq(A), Quotes(s, p)
    PROVE  Quotes(a \o (s \o b), p)
<1> DEFINE t == a \o (s \o b)
<1>1. PICK i \in Nat : i + Len(p) <= Len(s) /\ \A k \in 1 .. Len(p) : s[i + k] = p[k]
  <2>1. Quoted(s, p)
    BY QuotesAt
  <2> QED
    BY <2>1 DEF Quoted
<1>2. /\ t \in Seq(A) /\ Len(t) = Len(a) + Len(s) + Len(b) /\ Len(a) \in Nat /\ Len(b) \in Nat
      /\ Len(s) \in Nat /\ Len(p) \in Nat
      /\ \A k \in 1 .. Len(s) : t[Len(a) + k] = s[k]
  <2>1. s \o b \in Seq(A) /\ Len(s \o b) = Len(s) + Len(b) /\ \A k \in 1 .. Len(s) : (s \o b)[k] = s[k]
    OBVIOUS
  <2>2. Len(a) \in Nat /\ Len(b) \in Nat /\ Len(s) \in Nat /\ Len(p) \in Nat
    OBVIOUS
  <2> DEFINE u == s \o b
  <2> HIDE DEF u
  <2>3. a \o u \in Seq(A) /\ Len(a \o u) = Len(a) + Len(u) /\ \A k \in 1 .. Len(u) : (a \o u)[Len(a) + k] = u[k]
    BY <2>1 DEF u
  <2> QED
    BY <2>1, <2>2, <2>3 DEF u
<1> HIDE DEF t
<1>3. ASSUME NEW k \in 1 .. Len(p) PROVE t[(Len(a) + i) + k] = p[k]
  <2>1. i + k \in 1 .. Len(s) /\ (Len(a) + i) + k = Len(a) + (i + k)
    BY <1>1, <1>2
  <2> QED
    BY <1>1, <1>2, <2>1
<1>4. Len(a) + i \in Nat /\ (Len(a) + i) + Len(p) <= Len(t)
  BY <1>1, <1>2
<1>5. Quotes(t, p)
  BY <1>2, <1>3, <1>4, QuotesAt DEF Quoted
<1> QED
  BY <1>5 DEF t

\* A text quotes itself.
LEMMA QuotesSelf == ASSUME NEW A, NEW p \in Seq(A) PROVE Quotes(p, p)
<1>1. 0 \in Nat /\ 0 + Len(p) <= Len(p) /\ \A k \in 1 .. Len(p) : p[0 + k] = p[k]
  OBVIOUS
<1> QED
  BY <1>1, QuotesAt DEF Quoted

\* u is s from m, its first ink, to k, its last.
Inner(u, s, m, k) ==
    /\ m \in InkAt(s) /\ k \in InkAt(s) /\ m \in 1 .. Len(s) /\ k \in 1 .. Len(s) /\ m <= k
    /\ \A i \in InkAt(s) : m <= i /\ i <= k
    /\ u = SubSeq(s, m, k) /\ Len(u) = k - m + 1
    /\ \A i \in 1 .. k - m + 1 : u[i] = s[m - 1 + i]

\* Strip, by the positions it keeps.
LEMMA StripIs ==
    ASSUME NEW A, NEW s \in Seq(A), InkAt(s) # {}
    PROVE  \E m, k : Inner(Strip(s), s, m, k)
<1> DEFINE I == InkAt(s)
           m == Min(I)
           k == Max(I)
<1>1. I \in SUBSET (1 .. Len(s)) /\ 1 \in Int /\ Len(s) \in Int /\ I # {}
  BY DEF InkAt
<1>2. Strip(s) = SubSeq(s, m, k)
  BY DEF Strip
<1> HIDE DEF I
<1>3. m \in I /\ \A i \in I : m <= i
  BY ONLY <1>1, MinOf
<1>4. k \in I /\ \A i \in I : i <= k
  BY ONLY <1>1, MaxOf
<1> HIDE DEF m, k
<1>5. m \in 1 .. Len(s) /\ k \in 1 .. Len(s) /\ m <= k
  BY <1>1, <1>3, <1>4
<1>7. SubSeq(s, m, k) \in Seq(A) /\ Len(SubSeq(s, m, k)) = k - m + 1
      /\ \A i \in 1 .. k - m + 1 : SubSeq(s, m, k)[i] = s[m - 1 + i]
  BY <1>5
<1> QED
  BY <1>2, <1>3, <1>4, <1>5, <1>7 DEF I, Inner

\* A quotation loses at its ends what the text loses there.
LEMMA QuotesStripped ==
    ASSUME NEW t \in Text, NEW p \in Text, Quotes(t, p)
    PROVE  Quotes(Strip(t) \o <<NL>>, Strip(p))
<1> DEFINE u == Strip(t) \o <<NL>>
<1>1. t \in Seq(Atoms) /\ p \in Seq(Atoms) /\ <<NL>> \in Seq(Atoms)
  BY SomeTexts DEF Text
<1>2. Strip(t) \in Seq(Atoms) /\ Strip(p) \in Seq(Atoms)
  BY <1>1, StripSequence
<1>3. /\ u \in Seq(Atoms) /\ Len(u) = Len(Strip(t)) + 1
      /\ \A i \in 1 .. Len(Strip(t)) : u[i] = Strip(t)[i]
  BY <1>1, <1>2
<1> HIDE DEF u
<1>4. CASE InkAt(p) = {}
  <2>1. Strip(p) = <<>>
    BY <1>4 DEF Strip
  <2>2. 0 + Len(<<>>) <= Len(u) /\ \A i \in 1 .. Len(<<>>) : u[0 + i] = <<>>[i]
    BY <1>3
  <2>3. Quotes(u, <<>>)
    <3>1. <<>> \in Seq(Atoms)
      OBVIOUS
    <3>2. Quoted(u, <<>>)
      BY <2>2 DEF Quoted
    <3> QED
      BY ONLY <1>3, <3>1, <3>2, QuotesAt
  <2> QED
    BY <2>1, <2>3 DEF u
<1>5. CASE InkAt(p) # {}
  <2>1. PICK i \in Nat : i + Len(p) <= Len(t) /\ \A k \in 1 .. Len(p) : t[i + k] = p[k]
    <3>1. Quoted(t, p)
      BY <1>1, QuotesAt
    <3> QED
      BY <3>1 DEF Quoted
  <2>2. PICK m, k : Inner(Strip(p), p, m, k)
    BY <1>1, <1>5, StripIs
  <2>3. i + m \in InkAt(t) /\ i + k \in InkAt(t)
    BY <1>1, <2>1, <2>2 DEF InkAt, Inner
  <2>4. PICK b, c : Inner(Strip(t), t, b, c)
    BY <1>1, <2>3, StripIs
  <2> DEFINE d == i + m - b
  <2>5. i + m \in b .. c /\ i + k \in b .. c
    <3>1. i + m \in Int /\ i + k \in Int /\ b \in Int /\ c \in Int
      BY <2>2, <2>4 DEF Inner
    <3>2. \A j \in InkAt(t) : b <= j /\ j <= c
      BY <2>4 DEF Inner
    <3> QED
      BY ONLY <2>3, <3>1, <3>2
  <2>6. d \in Nat /\ d + (k - m + 1) <= c - b + 1
    BY <2>2, <2>4, <2>5 DEF Inner
  <2>7. ASSUME NEW e \in 1 .. Len(Strip(p)) PROVE u[d + e] = Strip(p)[e]
    <3>1. e \in 1 .. k - m + 1 /\ m - 1 + e \in 1 .. Len(p)
      BY <2>2 DEF Inner
    <3>2. d + e \in 1 .. c - b + 1
      <4>1. k \in Int /\ m \in Int /\ b \in Int /\ c \in Int
        BY <2>2, <2>4 DEF Inner
      <4> HIDE DEF d
      <4> QED
        BY ONLY <2>6, <3>1, <4>1
    <3>3. u[d + e] = t[b - 1 + (d + e)]
      BY <1>3, <2>4, <3>2 DEF Inner
    <3>4. b - 1 + (d + e) = i + (m - 1 + e)
      BY <2>2, <2>4, <3>1 DEF Inner
    <3>5. t[i + (m - 1 + e)] = p[m - 1 + e]
      BY <2>1, <3>1
    <3> QED
      BY <2>2, <3>1, <3>3, <3>4, <3>5 DEF Inner
  <2>8. d + Len(Strip(p)) <= Len(u)
    BY <1>3, <2>2, <2>4, <2>6 DEF Inner
  <2> HIDE DEF d
  <2> QED
    BY <1>2, <1>3, <2>6, <2>7, <2>8, QuotesAt DEF u, Quoted
<1> QED
  BY <1>4, <1>5

\* An element of a sequence.
LEMMA ElementOf == ASSUME NEW U, NEW s \in Seq(U), NEW k \in 1 .. Len(s) PROVE s[k] \in U
OBVIOUS

\* Spelling, law by law.
LEMMA SpelledSeq == ASSUME NEW S, NEW T, NEW g \in [S -> Seq(T)], NEW s \in Seq(S) PROVE Spelled(g, s) \in Seq(T)
BY SpelledParts

\* The empty sequence spells the empty one.
LEMMA SpelledNone == ASSUME NEW S, NEW T, NEW g \in [S -> Seq(T)] PROVE Spelled(g, <<>>) = <<>>
BY SpelledParts

\* One element spells its own piece.
LEMMA SpelledOne == ASSUME NEW S, NEW T, NEW g \in [S -> Seq(T)], NEW x \in S PROVE Spelled(g, <<x>>) = g[x]
BY SpelledParts

\* A concatenation spells what its halves spell.
LEMMA SpelledConcat ==
    ASSUME NEW S, NEW T, NEW g \in [S -> Seq(T)], NEW s \in Seq(S), NEW t \in Seq(S)
    PROVE  Spelled(g, s \o t) = Spelled(g, s) \o Spelled(g, t)
BY SMTT(60), SpelledParts

\* One more element adds its piece at the end.
LEMMA SpelledAppend ==
    ASSUME NEW S, NEW T, NEW g \in [S -> Seq(T)], NEW s \in Seq(S), NEW x \in S
    PROVE  Spelled(g, Append(s, x)) = Spelled(g, s) \o g[x]
BY SMTT(60), SpelledParts

\* pre[n] is the first n elements of s.
Beginnings(pre, T, s) ==
    /\ pre \in [0 .. Len(s) -> Seq(T)] /\ pre[0] = <<>> /\ pre[Len(s)] = s
    /\ \A n \in 1 .. Len(s) : pre[n] = Append(pre[n - 1], s[n])
    /\ \A n \in 0 .. Len(s) : Len(pre[n]) = n /\ \A i \in 1 .. n : pre[n][i] = s[i]

\* The beginnings of a sequence, one for each length, as a function to induct along.
LEMMA PrefixesOf == ASSUME NEW T, NEW s \in Seq(T) PROVE \E pre : Beginnings(pre, T, s)
<1> DEFINE n == Len(s)
           pre == [k \in 0 .. n |-> SubSeq(s, 1, k)]
<1>1. n \in Nat /\ pre[n] = s /\ pre[0] = <<>>
  OBVIOUS
<1>2. ASSUME NEW k \in 1 .. n PROVE pre[k] = Append(pre[k - 1], s[k])
  <2>1. SubSeq(s, 1, k) = Append(SubSeq(s, 1, k - 1), s[k])
    OBVIOUS
  <2>2. pre[k] = SubSeq(s, 1, k) /\ pre[k - 1] = SubSeq(s, 1, k - 1)
    OBVIOUS
  <2> QED
    BY ONLY <2>1, <2>2
<1>3. ASSUME NEW k \in 0 .. n
      PROVE  pre[k] \in Seq(T) /\ Len(pre[k]) = k /\ \A i \in 1 .. k : pre[k][i] = s[i]
  <2>1. SubSeq(s, 1, k) \in Seq(T) /\ Len(SubSeq(s, 1, k)) = k /\ \A i \in 1 .. k : SubSeq(s, 1, k)[i] = s[i]
    OBVIOUS
  <2>2. pre[k] = SubSeq(s, 1, k)
    OBVIOUS
  <2> QED
    BY ONLY <2>1, <2>2
<1>4. pre \in [0 .. n -> Seq(T)]
  <2>1. pre = [k \in 0 .. n |-> pre[k]]
    OBVIOUS
  <2> HIDE DEF pre
  <2> QED
    BY <1>3, <2>1
<1> HIDE DEF pre
<1>5. Beginnings(pre, T, s)
  BY <1>1, <1>2, <1>3, <1>4 DEF Beginnings
<1> QED
  BY <1>5

\* f selects the positions I of s, one after the other.
Selects(f, T, s, I) ==
    /\ f \in [0 .. Len(s) -> Seq(T)] /\ Selected(s, I) = f[Len(s)] /\ f[0] = <<>>
    /\ \A k \in 1 .. Len(s) : f[k] = IF k \in I THEN Append(f[k - 1], s[k]) ELSE f[k - 1]

\* The fold behind Selected as a function on the positions.
LEMMA SelectedRun == ASSUME NEW T, NEW s \in Seq(T), NEW I PROVE \E f : Selects(f, T, s, I)
<1>1. PICK f \in [0 .. Len(s) -> Seq(T)] :
               /\ Selected(s, I) = f[Len(s)]
               /\ f[0] = <<>>
               /\ \A k \in 1 .. Len(s) : f[k] = IF k \in I THEN Append(f[k - 1], s[k]) ELSE f[k - 1]
  BY SelectedSteps
<1> QED
  BY <1>1 DEF Selects

\* What is selected, one element after the other.
LEMMA SelectedAppend ==
    ASSUME NEW T, NEW I, NEW s \in Seq(T), NEW x \in T
    PROVE  /\ Selected(s, I) \in Seq(T)
           /\ Selected(Append(s, x), I) = IF Len(s) + 1 \in I THEN Append(Selected(s, I), x) ELSE Selected(s, I)
<1> DEFINE n == Len(s)
           t == Append(s, x)
<1>1. t \in Seq(T) /\ Len(t) = n + 1 /\ n \in Nat /\ t[n + 1] = x /\ \A k \in 1 .. n : t[k] = s[k]
  OBVIOUS
<1>2. PICK f : Selects(f, T, s, I)
  BY SelectedRun
<1>7. t \in Seq(T)
  BY <1>1
<1> HIDE DEF t
<1>3. PICK g : Selects(g, T, t, I)
  BY ONLY <1>7, SelectedRun
<1> HIDE DEF n
<1>4. \A k \in 0 .. n : g[k] = f[k]
  <2> DEFINE S == {k \in Int : g[k] = f[k]}
  <2>1. 0 \in S
    BY <1>2, <1>3 DEF Selects
  <2>2. ASSUME NEW k \in 1 .. n, k - 1 \in S PROVE k \in S
    <3>1. g[k - 1] = f[k - 1] /\ k \in 1 .. n + 1
      BY <1>1, <2>2
    <3>2. g[k] = IF k \in I THEN Append(g[k - 1], s[k]) ELSE g[k - 1]
      BY <1>1, <1>3, <3>1 DEF Selects
    <3>3. f[k] = IF k \in I THEN Append(f[k - 1], s[k]) ELSE f[k - 1]
      BY <1>2 DEF n, Selects
    <3>4. g[k] = f[k]
      BY ONLY <3>1, <3>2, <3>3
    <3> QED
      BY <3>4
  <2> HIDE DEF S
  <2>3. \A k \in 0 .. n : k \in S
    BY ONLY <1>1, <2>1, <2>2, Forwards
  <2> QED
    BY <2>3 DEF S
<1>5. Selected(t, I) = IF n + 1 \in I THEN Append(Selected(s, I), x) ELSE Selected(s, I)
  <2>1. (n + 1) - 1 = n /\ n + 1 \in 1 .. n + 1 /\ n \in 0 .. n
    BY <1>1
  <2>2. g[n + 1] = IF n + 1 \in I THEN Append(g[(n + 1) - 1], t[n + 1]) ELSE g[(n + 1) - 1]
    BY <1>1, <1>3, <2>1 DEF Selects
  <2>3. g[(n + 1) - 1] = f[n]
    BY <1>4, <2>1
  <2>4. f[n] = Selected(s, I) /\ g[n + 1] = Selected(t, I)
    BY <1>1, <1>2, <1>3 DEF n, Selects
  <2> QED
    BY ONLY <1>1, <2>2, <2>3, <2>4
<1>6. Selected(s, I) \in Seq(T)
  BY <1>2 DEF Selects
<1> QED
  BY <1>5, <1>6 DEF n, t

\* Nothing is selected from the empty sequence.
LEMMA SelectedNone == ASSUME NEW I PROVE Selected(<<>>, I) = <<>>
<1> DEFINE e == SubSeq(<<NL>>, 1, 0)
<1>1. e \in Seq({NL}) /\ Len(e) = 0 /\ e = <<>>
  OBVIOUS
<1> HIDE DEF e
<1>3. e \in Seq({NL})
  BY <1>1
<1>2. PICK f : Selects(f, {NL}, e, I)
  BY ONLY <1>3, SelectedRun
<1> QED
  BY <1>1, <1>2 DEF Selects

\* Only the positions that the sequence has count.
LEMMA SelectedSame ==
    ASSUME NEW T, NEW s \in Seq(T), NEW I, NEW J, \A i \in 1 .. Len(s) : i \in I <=> i \in J
    PROVE  Selected(s, I) = Selected(s, J)
<1> DEFINE n == Len(s)
           S == {k \in Int : k \in 0 .. n => \A p \in Seq(T) : Len(p) = k => Selected(p, I) = Selected(p, J)}
<1>1. n \in Nat
  OBVIOUS
<1>2. 0 \in S
  <2>1. ASSUME NEW p \in Seq(T), Len(p) = 0 PROVE Selected(p, I) = Selected(p, J)
    <3>1. p = <<>>
      BY <2>1
    <3> QED
      BY <3>1, SelectedNone
  <2> QED
    BY <2>1
<1>3. ASSUME NEW k \in 1 .. n, k - 1 \in S PROVE k \in S
  <2>1. ASSUME NEW p \in Seq(T), Len(p) = k PROVE Selected(p, I) = Selected(p, J)
    <3> DEFINE q == SubSeq(p, 1, k - 1)
    <3>1. q \in Seq(T) /\ Len(q) = k - 1 /\ p[k] \in T /\ p = Append(q, p[k]) /\ k - 1 \in 0 .. n
      BY <1>1, <2>1
    <3> HIDE DEF q
    <3>2. Selected(q, I) = Selected(q, J)
      BY <1>3, <3>1
    <3>3. (k - 1) + 1 = k /\ (k \in I <=> k \in J)
      OBVIOUS
    <3> DEFINE x == p[k]
    <3>4. x \in T
      BY <3>1
    <3> HIDE DEF x, S
    <3>5. /\ Selected(Append(q, x), I) = IF Len(q) + 1 \in I THEN Append(Selected(q, I), x) ELSE Selected(q, I)
          /\ Selected(Append(q, x), J) = IF Len(q) + 1 \in J THEN Append(Selected(q, J), x) ELSE Selected(q, J)
      BY ONLY <3>1, <3>4, SelectedAppend
    <3> QED
      BY ONLY <3>1, <3>2, <3>3, <3>5 DEF x
  <2> QED
    BY <2>1
<1> HIDE DEF S, n
<1>4. \A k \in 0 .. n : k \in S
  BY ONLY <1>1, <1>2, <1>3, Forwards
<1>5. n \in S /\ n \in 0 .. n
  BY <1>1, <1>4
<1> QED
  BY <1>5 DEF S, n

\* Without, one element after the other.
LEMMA WithoutAppend ==
    ASSUME NEW T, NEW D, NEW s \in Seq(T), NEW x \in T
    PROVE  /\ Without(s, D) \in Seq(T)
           /\ Without(Append(s, x), D) = IF Len(s) + 1 \in D THEN Without(s, D) ELSE Append(Without(s, D), x)
<1> DEFINE t == Append(s, x)
           n == Len(s)
           I == DOMAIN t \ D
<1>1. t \in Seq(T) /\ Len(t) = n + 1 /\ n \in Nat /\ DOMAIN t = 1 .. n + 1 /\ DOMAIN s = 1 .. n
  OBVIOUS
<1> HIDE DEF t
<1>2. \A i \in 1 .. Len(s) : i \in DOMAIN s \ D <=> i \in I
  BY <1>1
<1>3. n + 1 \in I <=> n + 1 \notin D
  BY <1>1
<1> HIDE DEF I
<1>4. Selected(s, DOMAIN s \ D) = Selected(s, I)
  BY ONLY <1>2, s \in Seq(T), SelectedSame
<1>5. /\ Selected(s, I) \in Seq(T)
      /\ Selected(t, I) = IF n + 1 \in I THEN Append(Selected(s, I), x) ELSE Selected(s, I)
  BY SelectedAppend DEF t
<1>6. Without(t, D) = Selected(t, I)
  BY DEF Without, I
<1>7. Without(s, D) = Selected(s, I)
  BY <1>4 DEF Without
<1> QED
  BY <1>3, <1>5, <1>6, <1>7 DEF t

\* Nothing is left of the empty sequence.
LEMMA WithoutNone == ASSUME NEW D PROVE Without(<<>>, D) = <<>>
BY SelectedNone DEF Without

\* What is left out of a sequence and spells nothing does not change what it spells.
LEMMA SpelledSelected ==
    ASSUME NEW S, NEW T, NEW g \in [S -> Seq(T)], NEW s \in Seq(S), NEW I,
           \A i \in 1 .. Len(s) : i \notin I => g[s[i]] = <<>>
    PROVE  Spelled(g, Selected(s, I)) = Spelled(g, s)
<1>1. PICK pre : Beginnings(pre, S, s)
  BY PrefixesOf
<1> DEFINE n == Len(s)
           Q == {k \in Int : k \in 0 .. n => Spelled(g, Selected(pre[k], I)) = Spelled(g, pre[k])}
<1>2. n \in Nat /\ \A k \in 1 .. n : s[k] \in S
  OBVIOUS
<1>3. 0 \in Q
  BY <1>1, SelectedNone DEF Beginnings
<1>4. ASSUME NEW k \in 1 .. n, k - 1 \in Q PROVE k \in Q
  <2> DEFINE v == pre[k - 1]
             x == s[k]
  <2>1. v \in Seq(S) /\ x \in S /\ pre[k] = Append(v, x) /\ Len(v) + 1 = k
    <3>1. k - 1 \in 0 .. n /\ (k - 1) + 1 = k
      BY <1>2
    <3> QED
      BY <1>1, <1>2, <3>1 DEF Beginnings
  <2>2. Spelled(g, Selected(v, I)) = Spelled(g, v)
    BY <1>2, <1>4
  <2>3. k \notin I => g[x] = <<>>
    OBVIOUS
  <2> HIDE DEF v, x
  <2>4. /\ Selected(v, I) \in Seq(S)
        /\ Selected(Append(v, x), I) = IF Len(v) + 1 \in I THEN Append(Selected(v, I), x) ELSE Selected(v, I)
    BY ONLY <2>1, SelectedAppend
  <2>5. /\ Spelled(g, Append(v, x)) = Spelled(g, v) \o g[x]
        /\ Spelled(g, Append(Selected(v, I), x)) = Spelled(g, Selected(v, I)) \o g[x]
        /\ Spelled(g, v) \in Seq(T)
    <3> DEFINE w == Selected(v, I)
    <3>1. w \in Seq(S)
      BY <2>4
    <3> HIDE DEF w
    <3>2. Spelled(g, Append(v, x)) = Spelled(g, v) \o g[x] /\ Spelled(g, v) \in Seq(T)
      BY <2>1, SpelledAppend, SpelledSeq
    <3>3. Spelled(g, Append(w, x)) = Spelled(g, w) \o g[x]
      BY <2>1, <3>1, SpelledAppend
    <3> QED
      BY <3>2, <3>3 DEF w
  <2>6. g[x] = <<>> => Spelled(g, v) \o g[x] = Spelled(g, v)
    BY <2>5, ConcatEmpty
  <2>7. Spelled(g, Selected(pre[k], I)) = Spelled(g, pre[k])
    BY ONLY <2>1, <2>2, <2>3, <2>4, <2>5, <2>6
  <2> QED
    BY <2>7
<1> HIDE DEF Q, n
<1>5. \A k \in 0 .. n : k \in Q
  BY ONLY <1>2, <1>3, <1>4, Forwards
<1>6. n \in Q /\ n \in 0 .. n
  BY <1>2, <1>5
<1> QED
  BY <1>1, <1>6 DEF Beginnings, Q, n

-----------------------------------------------------------------------------
(* What is left of a sequence.                                              *)

\* s is t with some of its elements left out.
Sub(s, t) == Within(s, t, Len(t))

\* Every sequence is found in itself with nothing left out.
LEMMA SubSelf == ASSUME NEW T, NEW s \in Seq(T) PROVE Sub(s, s)
<1> DEFINE f == [k \in 1 .. Len(s) |-> k]
<1>1. f \in [1 .. Len(s) -> 1 .. Len(s)] /\ Increasing(f) /\ \A k \in 1 .. Len(s) : s[k] = s[f[k]]
  BY DEF Increasing
<1> QED
  BY <1>1 DEF Sub, Within

\* The empty sequence is found in every sequence.
LEMMA SubNone == ASSUME NEW t PROVE Sub(<<>>, t)
BY NothingWithin DEF Sub

\* What is left of what is left of a sequence is left of it.
LEMMA SubTrans ==
    ASSUME NEW T, NEW r \in Seq(T), NEW s \in Seq(T), NEW t \in Seq(T), Sub(r, s), Sub(s, t)
    PROVE  Sub(r, t)
<1>1. Len(s) \in 0 .. Len(s) /\ Within(r, s, Len(s)) /\ Within(s, t, Len(t))
  BY DEF Sub
<1>2. Within(r, t, Len(t))
  BY <1>1, WithinWithin
<1> QED
  BY <1>2 DEF Sub

\* Sequences found in two halves are found, side by side, in the whole.
LEMMA SubConcat ==
    ASSUME NEW T, NEW a \in Seq(T), NEW b \in Seq(T), NEW c \in Seq(T), NEW d \in Seq(T), Sub(a, c), Sub(b, d)
    PROVE  Sub(a \o b, c \o d)
<1> DEFINE n == Len(c)
           m == Len(d)
           s == c \o d
<1>1. n \in Nat /\ m \in Nat /\ s \in Seq(T) /\ Len(s) = n + m /\ (\A i \in 1 .. m : d[i] = s[n + i])
      /\ \A i \in 1 .. n : s[i] = c[i]
  OBVIOUS
<1>2. n + m <= Len(s) /\ Len(d) = m
  BY <1>1
<1>3. Within(a, c, n) /\ Within(b, d, Len(d))
  BY DEF Sub
<1> HIDE DEF n, m, s
<1>4. Within(a, s, n)
  <2>1. PICK f \in [1 .. Len(a) -> 1 .. n] : Increasing(f) /\ \A k \in 1 .. Len(a) : a[k] = c[f[k]]
    BY <1>3 DEF Within
  <2>2. \A k \in 1 .. Len(a) : a[k] = s[f[k]]
    BY <1>1, <2>1
  <2> QED
    BY <2>1, <2>2 DEF Within
<1>5. Within(a \o b, s, n + m)
  BY ONLY <1>1, <1>2, <1>3, <1>4, a \in Seq(T), b \in Seq(T), d \in Seq(T), WithinExtended
<1> QED
  BY <1>1, <1>5 DEF Sub, s

\* What is selected of a sequence is the sequence with elements left out.
LEMMA SubSelected == ASSUME NEW T, NEW s \in Seq(T), NEW I PROVE Sub(Selected(s, I), s) /\ Selected(s, I) \in Seq(T)
<1> DEFINE J == I \cap DOMAIN s
<1>1. J \in SUBSET DOMAIN s /\ \A i \in 1 .. Len(s) : i \in I <=> i \in J
  OBVIOUS
<1> HIDE DEF J
<1>2. Selected(s, I) = Selected(s, J)
  BY <1>1, SelectedSame
<1>3. Selected(s, J) \in Seq(T) /\ Within(Selected(s, J), s, Len(s))
  BY <1>1, SelectedWithin
<1> QED
  BY <1>2, <1>3 DEF Sub

\* Fewer positions select less.
LEMMA SubMono ==
    ASSUME NEW T, NEW s \in Seq(T), NEW J \in SUBSET DOMAIN s, NEW I \in SUBSET J
    PROVE  Sub(Selected(s, I), Selected(s, J))
<1> DEFINE v == Selected(s, I)
           w == Selected(s, J)
<1>1. I \in SUBSET DOMAIN s
  OBVIOUS
<1>2. v \in Seq(T) /\ w \in Seq(T)
  BY <1>1, SelectedPicks
<1>3. PICK p : Picks(p, v, s, I)
  BY <1>1, SelectedPicks
<1>4. PICK q : Picks(q, w, s, J)
  BY SelectedPicks
<1> HIDE DEF v, w
<1> DEFINE f == [k \in 1 .. Len(v) |-> CHOOSE m \in 1 .. Len(w) : q[m] = p[k]]
<1>5. ASSUME NEW k \in 1 .. Len(v) PROVE f[k] \in 1 .. Len(w) /\ q[f[k]] = p[k] /\ p[k] \in 1 .. Len(s)
  <2>1. p[k] \in I
    BY <1>3 DEF Picks
  <2>2. \E m \in 1 .. Len(w) : q[m] = p[k]
    BY <1>4, <2>1 DEF Picks
  <2>3. p[k] \in DOMAIN s
    BY <1>1, <2>1
  <2> QED
    BY <2>2, <2>3
<1>6. f \in [1 .. Len(v) -> 1 .. Len(w)] /\ DOMAIN f = 1 .. Len(v)
  BY <1>5
<1>7. \A k \in 1 .. Len(v) : v[k] = w[f[k]]
  <2> HIDE DEF f
  <2> SUFFICES ASSUME NEW k \in 1 .. Len(v) PROVE v[k] = w[f[k]]
    OBVIOUS
  <2>1. v[k] = s[p[k]]
    BY <1>3 DEF Picks
  <2>2. w[f[k]] = s[q[f[k]]]
    BY <1>4, <1>5 DEF Picks
  <2> QED
    BY <1>5, <2>1, <2>2
<1> HIDE DEF f
<1>8. ASSUME NEW i \in 1 .. Len(v), NEW k \in 1 .. Len(v), i < k PROVE f[i] < f[k]
  <2>1. p[i] < p[k]
    <3>1. DOMAIN p = 1 .. Len(v) /\ Increasing(p)
      BY <1>3 DEF Picks
    <3> QED
      BY <1>8, <3>1 DEF Increasing
  <2>2. q[f[i]] = p[i] /\ q[f[k]] = p[k] /\ f[i] \in 1 .. Len(w) /\ f[k] \in 1 .. Len(w)
        /\ p[i] \in Int /\ p[k] \in Int
    BY <1>5
  <2>3. \A a, b \in 1 .. Len(w) : a < b => q[a] < q[b]
    <3>1. DOMAIN q = 1 .. Len(w) /\ Increasing(q)
      BY <1>4 DEF Picks
    <3> QED
      BY <3>1 DEF Increasing
  <2>4. CASE f[k] < f[i]
    BY <2>1, <2>2, <2>3, <2>4
  <2>5. CASE f[k] = f[i]
    BY <2>1, <2>2, <2>5
  <2> QED
    BY <2>2, <2>4, <2>5
<1>9. Increasing(f)
  BY <1>6, <1>8 DEF Increasing
<1>10. Within(v, w, Len(w))
  BY <1>6, <1>7, <1>9 DEF Within
<1> QED
  BY <1>10 DEF Sub, v, w

\* What is shorter line by line is shorter.
LEMMA SubFlatten ==
    ASSUME NEW T, NEW as \in Seq(Seq(T)), NEW bs \in Seq(Seq(T)), Len(as) = Len(bs),
           \A i \in 1 .. Len(as) : Sub(as[i], bs[i])
    PROVE  Sub(FlattenSeq(as), FlattenSeq(bs))
<1>1. PICK f : Joins(f, T, as) /\ FlattenSeq(as) = f[Len(as)]
  BY FlattenSteps
<1>2. PICK g : Joins(g, T, bs) /\ FlattenSeq(bs) = g[Len(bs)]
  BY FlattenSteps
<1> DEFINE n == Len(as)
           S == {k \in Int : Sub(f[k], g[k])}
<1>3. n \in Nat
  OBVIOUS
<1>4. 0 \in S
  BY <1>1, <1>2, SubNone DEF Joins
<1>5. ASSUME NEW k \in 1 .. n, k - 1 \in S PROVE k \in S
  <2>1. f[k] = f[k - 1] \o as[k] /\ g[k] = g[k - 1] \o bs[k]
    BY <1>1, <1>2 DEF Joins
  <2>2. f[k - 1] \in Seq(T) /\ g[k - 1] \in Seq(T)
    <3>1. k - 1 \in 0 .. n
      BY <1>3
    <3>2. f \in [0 .. n -> Seq(T)] /\ g \in [0 .. n -> Seq(T)]
      BY <1>1, <1>2 DEF Joins
    <3> QED
      BY ONLY <3>1, <3>2
  <2>3. as[k] \in Seq(T) /\ bs[k] \in Seq(T) /\ Sub(as[k], bs[k])
    <3>1. k \in 1 .. Len(as) /\ k \in 1 .. Len(bs)
      OBVIOUS
    <3>2. Sub(as[k], bs[k])
      BY ONLY <3>1, \A i \in 1 .. Len(as) : Sub(as[i], bs[i])
    <3>3. as[k] \in Seq(T)
      BY <3>1, ElementOf
    <3>4. bs[k] \in Seq(T)
      BY <3>1, ElementOf
    <3> QED
      BY <3>2, <3>3, <3>4
  <2>5. Sub(f[k - 1], g[k - 1]) /\ k \in Int
    BY <1>5
  <2>4. Sub(f[k - 1] \o as[k], g[k - 1] \o bs[k])
    <3> DEFINE a == f[k - 1]
               b == as[k]
               c == g[k - 1]
               d == bs[k]
    <3>1. a \in Seq(T) /\ b \in Seq(T) /\ c \in Seq(T) /\ d \in Seq(T) /\ Sub(a, c) /\ Sub(b, d)
      BY <2>2, <2>3, <2>5
    <3> HIDE DEF a, b, c, d
    <3>2. Sub(a \o b, c \o d)
      BY <3>1, SubConcat
    <3> QED
      BY <3>2 DEF a, b, c, d
  <2>6. Sub(f[k], g[k])
    BY ONLY <2>1, <2>4
  <2> QED
    BY <2>5, <2>6
<1> HIDE DEF S, n
<1>6. \A k \in 0 .. n : k \in S
  BY ONLY <1>3, <1>4, <1>5, Forwards
<1>7. n \in S
  BY <1>3, <1>6
<1> QED
  BY <1>1, <1>2, <1>7 DEF S, n

\* The search for the elements of s in t.
Search(g, s, t) ==
    /\ g \in [0 .. Len(t) -> 0 .. Len(s)] /\ g[0] = 0
    /\ \A k \in 1 .. Len(t) :
          g[k] = IF g[k - 1] < Len(s) /\ s[g[k - 1] + 1] = t[k] THEN g[k - 1] + 1 ELSE g[k - 1]

\* The greedy search of IsThinned as a function on the positions.
LEMMA SearchOf ==
    ASSUME NEW T, NEW s \in Seq(T), NEW t \in Seq(T)
    PROVE  \E g : Search(g, s, t) /\ (IsThinned(s, t) <=> g[Len(t)] = Len(s))
<1> DEFINE n == Len(t)
           m == Len(s)
           Step(k, v) == IF v < Len(s) /\ s[v + 1] = t[k] THEN v + 1 ELSE v
           Body(f) == [k \in 0 .. Len(t) |-> IF k = 0 THEN 0 ELSE Step(k, f[k - 1])]
           F == CHOOSE f : f = Body(f)
           h == [p \in (1 .. n) \X (0 .. m) |-> Step(p[1], p[2])]
<1>1. n \in Nat /\ m \in Nat /\ 0 \in 0 .. m
  OBVIOUS
<1>2. ASSUME NEW i \in 1 .. n, NEW v \in 0 .. m PROVE h[<<i, v>>] = Step(i, v) /\ Step(i, v) \in 0 .. m
  <2>1. h[<<i, v>>] = Step(i, v)
    <3> HIDE DEF Step
    <3> QED
      OBVIOUS
  <2>2. CASE v < m /\ s[v + 1] = t[i]
    BY <1>1, <2>1, <2>2
  <2>3. CASE ~(v < m /\ s[v + 1] = t[i])
    BY <1>1, <2>1, <2>3
  <2> QED
    BY <2>2, <2>3
<1> HIDE DEF h, Step
<1>3. Steps(h, 1 .. n, 0 .. m)
  BY <1>2 DEF Steps
<1>4. PICK o : Rises(o, n, 0 .. m, 0, h)
  BY ONLY <1>1, <1>3, Rising
<1>5. o \in [0 .. n -> 0 .. m] /\ o[0] = 0
  BY <1>4 DEF Rises
<1>6. ASSUME NEW i \in 1 .. n PROVE o[i] = Step(i, o[i - 1])
  <2>1. i - 1 \in 0 .. n
    BY <1>1
  <2>2. o[i - 1] \in 0 .. m /\ o[i] = h[<<i, o[i - 1]>>]
    BY <1>4, <1>5, <2>1 DEF Rises
  <2> QED
    BY <1>2, <2>2
<1>7. o = Body(o)
  <2>1. ASSUME NEW i \in 0 .. n PROVE o[i] = Body(o)[i]
    <3>1. CASE i = 0
      BY <1>5, <3>1
    <3>2. CASE i # 0
      <4>1. i \in 1 .. n
        BY <3>2
      <4>2. Body(o)[i] = Step(i, o[i - 1])
        BY <3>2
      <4> QED
        BY <1>6, <4>1, <4>2
    <3> QED
      BY <3>1, <3>2
  <2>2. o = [i \in 0 .. n |-> o[i]] /\ Body(o) = [i \in 0 .. n |-> Body(o)[i]]
    BY <1>5
  <2> HIDE DEF Body
  <2> QED
    BY <2>1, <2>2
<1>8. F = Body(F)
  BY <1>7
<1>9. IsThinned(s, t) <=> F[Len(t)] = Len(s)
  BY DEF IsThinned, Step
<1> HIDE DEF F
<1>10. F = [i \in 0 .. n |-> IF i = 0 THEN 0 ELSE Step(i, F[i - 1])]
  BY <1>8
<1> HIDE DEF Body, n, m
<1>11. \A i \in 0 .. n : F[i] = o[i]
  <2> DEFINE S == {i \in Int : F[i] = o[i]}
  <2>1. 0 \in S
    BY <1>1, <1>5, <1>10
  <2>2. ASSUME NEW i \in 1 .. n, i - 1 \in S PROVE i \in S
    <3>1. F[i] = Step(i, F[i - 1])
      BY <1>1, <1>10
    <3>2. F[i - 1] = o[i - 1]
      BY <2>2
    <3>3. F[i] = o[i]
      BY <1>6, <3>1, <3>2
    <3> QED
      BY <3>3
  <2> HIDE DEF S
  <2>3. \A i \in 0 .. n : i \in S
    BY ONLY <1>1, <2>1, <2>2, Forwards
  <2> QED
    BY <2>3 DEF S
<1>12. F[n] = o[n]
  BY <1>1, <1>11
<1>13. Search(o, s, t)
  BY <1>5, <1>6 DEF Search, Step, n, m
<1> QED
  BY <1>9, <1>12, <1>13 DEF n

\* The search finds what is there.
LEMMA SubIsThinned ==
    ASSUME NEW T, NEW s \in Seq(T), NEW t \in Seq(T), Sub(s, t)
    PROVE  IsThinned(s, t)
<1>1. PICK g : Search(g, s, t) /\ (IsThinned(s, t) <=> g[Len(t)] = Len(s))
  BY SearchOf
<1>2. PICK f \in [1 .. Len(s) -> 1 .. Len(t)] : Increasing(f) /\ \A k \in 1 .. Len(s) : s[k] = t[f[k]]
  BY DEF Sub, Within
<1> DEFINE n == Len(t)
           m == Len(s)
           \* what is to be found up to k
           Seen(k) == \A j \in 1 .. m : f[j] <= k => g[k] >= j
           S == {k \in Int : Seen(k)}
<1>3. n \in Nat /\ m \in Nat /\ g \in [0 .. n -> 0 .. m] /\ f \in [1 .. m -> 1 .. n]
  BY <1>1, <1>2 DEF Search
<1>4. 0 \in S
  <2>1. \A j \in 1 .. m : ~ (f[j] <= 0)
    BY <1>3
  <2> QED
    BY <2>1
<1>5. ASSUME NEW k \in 1 .. n, k - 1 \in S PROVE k \in S
  <2>1. Seen(k - 1)
    BY <1>5
  <2> DEFINE a == g[k - 1]
             b == g[k]
  <2>2. b = IF a < m /\ s[a + 1] = t[k] THEN a + 1 ELSE a
    BY <1>1 DEF Search
  <2>3. a \in 0 .. m
    <3>1. k - 1 \in 0 .. n
      BY <1>3
    <3> QED
      BY <1>3, <3>1
  <2>4. \A j \in 1 .. m : f[j] <= k - 1 => a >= j
    BY <2>1
  <2> HIDE DEF a, b, n, m
  <2>5. ASSUME NEW j \in 1 .. m, f[j] <= k PROVE b >= j
    <3>1. f[j] \in 1 .. n
      BY <1>3
    <3>2. CASE f[j] <= k - 1
      <4>1. a >= j
        BY <2>4, <3>2
      <4> QED
        BY <2>2, <2>3, <4>1
    <3>3. CASE f[j] = k
      <4>1. j = 1 \/ j - 1 \in 1 .. m
        BY <1>3
      <4>2. a >= j - 1
        <5>1. CASE j = 1
          BY <2>3, <5>1
        <5>2. CASE j - 1 \in 1 .. m
          <6>1. f[j - 1] < f[j] /\ f[j - 1] \in 1 .. n
            <7>1. j - 1 < j /\ DOMAIN f = 1 .. m
              BY <1>3
            <7> QED
              BY <1>2, <1>3, <5>2, <7>1 DEF Increasing
          <6>2. f[j - 1] <= k - 1
            BY <3>3, <6>1
          <6> QED
            BY <2>4, <5>2, <6>2
        <5> QED
          BY <4>1, <5>1, <5>2
      <4>3. s[j] = t[k]
        BY <1>2, <3>3 DEF m
      <4>4. CASE a = j - 1
        <5>1. a + 1 = j /\ a < m
          BY <2>3, <4>4, <1>3
        <5>2. b = a + 1
          BY <2>2, <4>3, <5>1
        <5> QED
          BY <5>1, <5>2
      <4>5. CASE a >= j
        BY <2>2, <2>3, <4>5
      <4> QED
        BY <2>3, <4>2, <4>4, <4>5
    <3> QED
      BY <2>5, <3>1, <3>2, <3>3
  <2>6. Seen(k)
    BY <2>5 DEF b
  <2> QED
    BY <2>6
<1>6. Seen(n)
  <2> HIDE DEF S, n
  <2>1. \A k \in 0 .. n : k \in S
    BY ONLY <1>3, <1>4, <1>5, Forwards
  <2>2. n \in S
    BY <1>3, <2>1
  <2> QED
    BY <2>2 DEF S
<1>7. g[n] = m
  <2>1. g[n] \in 0 .. m
    BY <1>3
  <2>2. m = 0 \/ (m \in 1 .. m /\ f[m] <= n)
    BY <1>3
  <2>3. m = 0 \/ g[n] >= m
    BY <1>6, <2>2
  <2> QED
    BY <1>3, <2>1, <2>3
<1> QED
  BY <1>1, <1>7

-----------------------------------------------------------------------------
(* What a text says: the words and the gist of its lines.                   *)

\* What is selected by what it is.
Picked(s, P) == Selected(s, {i \in DOMAIN s : s[i] \in P})

\* Picking by membership, one element at a time.
LEMMA PickedAppend ==
    ASSUME NEW T, NEW P, NEW s \in Seq(T), NEW x \in T
    PROVE  /\ Picked(s, P) \in Seq(T) /\ Picked(<<>>, P) = <<>>
           /\ Picked(Append(s, x), P) = IF x \in P THEN Append(Picked(s, P), x) ELSE Picked(s, P)
<1> DEFINE t == Append(s, x)
           I == {i \in DOMAIN s : s[i] \in P}
           J == {i \in DOMAIN t : t[i] \in P}
           n == Len(s)
<1>1. /\ t \in Seq(T) /\ Len(t) = n + 1 /\ n \in Nat /\ t[n + 1] = x /\ (\A k \in 1 .. n : t[k] = s[k])
      /\ DOMAIN t = 1 .. n + 1 /\ DOMAIN s = 1 .. n
  OBVIOUS
<1> HIDE DEF t
<1>2. (\A i \in 1 .. Len(s) : i \in I <=> i \in J) /\ (n + 1 \in J <=> x \in P)
  BY <1>1
<1> HIDE DEF I, J
<1>3. Selected(s, I) = Selected(s, J)
  BY ONLY <1>2, s \in Seq(T), SelectedSame
<1>4. /\ Selected(s, J) \in Seq(T)
      /\ Selected(t, J) = IF n + 1 \in J THEN Append(Selected(s, J), x) ELSE Selected(s, J)
  BY SelectedAppend DEF t
<1>5. Picked(t, P) = Selected(t, J) /\ Picked(s, P) = Selected(s, I)
  BY DEF Picked, I, J
<1>6. Picked(<<>>, P) = <<>>
  BY SelectedNone DEF Picked
<1> QED
  BY <1>2, <1>3, <1>4, <1>5, <1>6 DEF t

word == [x \in Atoms |-> IF x \notin Words THEN <<>> ELSE IF x = HyphenWord THEN <<JoinedWord>> ELSE <<x>>]
ink  == [x \in Atoms |-> IF x \in Noise THEN <<>> ELSE <<x>>]

\* The letters' words and gists are texts, and no word is noise or a line end.
LEMMA LettersAre ==
    /\ word \in [Atoms -> Seq(Atoms)] /\ ink \in [Atoms -> Seq(Atoms)] /\ Words \subseteq Atoms
    /\ LineEnds \subseteq Noise /\ Noise \subseteq Atoms /\ SP \in Noise /\ SP \notin LineEnds /\ NL \in LineEnds
    /\ Whitespace = LineEnds \cup {SP}
    /\ Words \cap Noise = {} /\ HyphenWord \in Words /\ JoinedWord \in Words /\ HyphenWord # JoinedWord
    /\ Bar \notin Noise /\ Bar \notin Words /\ Bar \in Atoms
<1>1. Words \subseteq Atoms /\ JoinedWord \in Atoms /\ HyphenWord \in Words /\ JoinedWord \in Words
  BY DEF Atoms, Words
<1>2. \A x \in Atoms : <<x>> \in Seq(Atoms)
  OBVIOUS
<1>3. <<>> \in Seq(Atoms)
  OBVIOUS
<1>4. word \in [Atoms -> Seq(Atoms)]
  BY <1>1, <1>2, <1>3 DEF word
<1>5. ink \in [Atoms -> Seq(Atoms)]
  BY <1>2, <1>3 DEF ink
<1>6. LineEnds \subseteq Noise /\ SP \in Noise /\ SP \notin LineEnds /\ NL \in LineEnds /\ Whitespace = LineEnds \cup {SP}
  BY DEF LineEnds, Noise, Whitespace, SP, NL, CRLF, FF
<1>7. Noise \subseteq Atoms
  BY DEF Noise, Atoms, Whitespace, Bullets, ItemMarkers
<1>8. Words \cap Noise = {} /\ HyphenWord # JoinedWord /\ Bar \notin Noise /\ Bar \notin Words
  BY DEF Words, Noise, LowerWords, HyphenWord, JoinedWord, Whitespace, NL, CRLF, FF, SP, Bullets, Dots, Circle,
         Section, PageNumber, Bar
<1>9. Bar \in Atoms
  BY DEF Atoms
<1> QED
  BY <1>1, <1>4, <1>5, <1>6, <1>7, <1>8, <1>9

\* The gist of a text is spelled letter by letter.
LEMMA GistIs == ASSUME NEW t \in Text PROVE Gist(t) = Spelled(ink, t)
<1> DEFINE P == {v \in Seq(Atoms) : Picked(v, Atoms \ Noise) = Spelled(ink, v)}
<1>1. <<>> \in P
  BY PickedAppend, SpelledNone, LettersAre, SelectedNone DEF Picked
<1>2. ASSUME NEW v \in Seq(Atoms), NEW x \in Atoms, v \in P PROVE Append(v, x) \in P
  <2> DEFINE p == Picked(v, Atoms \ Noise)
  <2>1. /\ p \in Seq(Atoms)
        /\ Picked(Append(v, x), Atoms \ Noise) = IF x \in Atoms \ Noise THEN Append(p, x) ELSE p
    BY PickedAppend
  <2>2. p = Spelled(ink, v)
    BY <1>2
  <2>3. Spelled(ink, Append(v, x)) = Spelled(ink, v) \o ink[x]
    <3>1. ink \in [Atoms -> Seq(Atoms)]
      BY LettersAre
    <3> QED
      BY ONLY <3>1, v \in Seq(Atoms), x \in Atoms, SpelledAppend
  <2> HIDE DEF p
  <2>4. p \o <<>> = p /\ p \o <<x>> = Append(p, x)
    BY <2>1
  <2>5. ink[x] = IF x \in Noise THEN <<>> ELSE <<x>>
    BY DEF ink
  <2>6. Picked(Append(v, x), Atoms \ Noise) = Spelled(ink, Append(v, x))
    BY ONLY <2>1, <2>2, <2>3, <2>4, <2>5, x \in Atoms
  <2>7. Append(v, x) \in Seq(Atoms)
    OBVIOUS
  <2> QED
    BY <2>6, <2>7
<1> HIDE DEF P
<1>3. t \in Seq(Atoms)
  BY DEF Text
<1>4. t \in P
  BY ONLY <1>1, <1>2, <1>3, SeqInduction
<1>5. Gist(t) = Picked(t, Atoms \ Noise)
  <2>1. \A i \in 1 .. Len(t) : i \in {k \in DOMAIN t : t[k] \notin Noise} <=> i \in {k \in DOMAIN t : t[k] \in Atoms \ Noise}
    BY <1>3
  <2>2. Selected(t, {k \in DOMAIN t : t[k] \notin Noise}) = Selected(t, {k \in DOMAIN t : t[k] \in Atoms \ Noise})
    BY <1>3, <2>1, SelectedSame
  <2> QED
    BY <2>2 DEF Gist, Picked
<1> QED
  BY <1>4, <1>5 DEF P

\* The words of a text are spelled letter by letter.
LEMMA WordsAre == ASSUME NEW t \in Text PROVE WordsOf(t) = Spelled(word, t)
<1> DEFINE Ren(x) == IF x = HyphenWord THEN JoinedWord ELSE x
           P == {v \in Seq(Atoms) : Map(Ren, Picked(v, Words)) = Spelled(word, v)}
<1>0. ASSUME NEW p \in Seq(Atoms), NEW x \in Atoms
      PROVE  Map(Ren, p) \in Seq(Atoms) /\ Map(Ren, Append(p, x)) = Map(Ren, p) \o <<Ren(x)>>
  <2> DEFINE q == Append(p, x)
             m == Map(Ren, p)
             w == Map(Ren, q)
             n == Len(p)
  <2>1. q \in Seq(Atoms) /\ Len(q) = n + 1 /\ n \in Nat /\ q[n + 1] = x /\ (\A k \in 1 .. n : q[k] = p[k])
        /\ DOMAIN q = 1 .. n + 1 /\ DOMAIN p = 1 .. n
    OBVIOUS
  <2>2. m = [i \in DOMAIN p |-> m[i]] /\ w = [i \in DOMAIN q |-> w[i]]
        /\ (\A i \in 1 .. n : m[i] = Ren(p[i])) /\ \A i \in 1 .. n + 1 : w[i] = Ren(q[i])
    BY <2>1 DEF Map
  <2>3. \A y \in Atoms : Ren(y) \in Atoms
    BY LettersAre
  <2>4. (\A i \in 1 .. n : p[i] \in Atoms) /\ \A i \in 1 .. n + 1 : q[i] \in Atoms
    BY <2>1
  <2> HIDE DEF q, m, w, Ren, n
  <2>5. m \in Seq(Atoms) /\ Len(m) = n
    <3>1. \A i \in 1 .. Len(p) : m[i] \in Atoms
      <4>1. n = Len(p)
        BY DEF n
      <4> QED
        BY ONLY <2>2, <2>3, <2>4, <4>1
    <3>2. m \in Seq(Atoms) /\ Len(m) = Len(p)
      <4>1. m = [i \in DOMAIN p |-> m[i]]
        BY <2>2
      <4> QED
        BY ONLY <3>1, <4>1, p \in Seq(Atoms), MappedSequence
    <3> QED
      BY <3>2 DEF n
  <2>6. w \in Seq(Atoms) /\ Len(w) = n + 1
    <3>1. \A i \in 1 .. Len(q) : w[i] \in Atoms
      BY <2>1, <2>2, <2>3, <2>4
    <3> QED
      BY ONLY <2>1, <2>2, <3>1, MappedSequence
  <2>7. w = m \o <<Ren(x)>>
    <3> DEFINE y == Ren(x)
    <3>1. y \in Atoms /\ w[n + 1] = y /\ \A i \in 1 .. n : w[i] = m[i]
      BY <2>1, <2>2, <2>3
    <3> HIDE DEF y
    <3> QED
      BY ONLY <2>1, <2>5, <2>6, <3>1 DEF y
  <2> QED
    BY <2>5, <2>7 DEF m, w, q
<1>1. <<>> \in P
  <2>1. Picked(<<>>, Words) = <<>>
    BY SelectedNone DEF Picked
  <2>2. Map(Ren, <<>>) = <<>>
    BY DEF Map
  <2>3. Spelled(word, <<>>) = <<>>
    BY SpelledNone, LettersAre
  <2> QED
    BY <2>1, <2>2, <2>3
<1>2. ASSUME NEW v \in Seq(Atoms), NEW x \in Atoms, v \in P PROVE Append(v, x) \in P
  <2> DEFINE p == Picked(v, Words)
             m == Map(Ren, p)
  <2>1. /\ p \in Seq(Atoms)
        /\ Picked(Append(v, x), Words) = IF x \in Words THEN Append(p, x) ELSE p
    BY PickedAppend
  <2>2. m = Spelled(word, v)
    BY <1>2
  <2>3. Spelled(word, Append(v, x)) = Spelled(word, v) \o word[x]
    <3>1. word \in [Atoms -> Seq(Atoms)]
      BY LettersAre
    <3> QED
      BY ONLY <3>1, v \in Seq(Atoms), x \in Atoms, SpelledAppend
  <2>4. m \in Seq(Atoms) /\ Map(Ren, Append(p, x)) = m \o <<Ren(x)>>
    BY <1>0, <2>1
  <2>5. word[x] = IF x \notin Words THEN <<>> ELSE <<Ren(x)>>
    BY DEF word
  <2> HIDE DEF p, m, Ren
  <2>6. m \o <<>> = m
    BY <2>4
  <2>7. Map(Ren, Picked(Append(v, x), Words)) = Spelled(word, Append(v, x))
    <3>1. CASE x \in Words
      BY <2>1, <2>2, <2>3, <2>4, <2>5, <3>1
    <3>2. CASE x \notin Words
      BY <2>1, <2>2, <2>3, <2>5, <2>6, <3>2 DEF m
    <3> QED
      BY <3>1, <3>2
  <2>8. Append(v, x) \in Seq(Atoms)
    OBVIOUS
  <2> QED
    BY <2>7, <2>8
<1> HIDE DEF P
<1>3. t \in Seq(Atoms)
  BY DEF Text
<1>4. t \in P
  BY ONLY <1>1, <1>2, <1>3, SeqInduction
<1>5. WordsOf(t) = Map(Ren, Picked(t, Words))
  BY DEF WordsOf, Picked
<1> QED
  BY <1>4, <1>5 DEF P

\* The words of one text behind another.
LEMMA WordsConcat ==
    ASSUME NEW s \in Text, NEW t \in Text
    PROVE  WordsOf(s \o t) = WordsOf(s) \o WordsOf(t) /\ WordsOf(s) \in Text
<1>1. s \o t \in Text /\ s \in Seq(Atoms) /\ t \in Seq(Atoms)
  BY DEF Text
<1>2. WordsOf(s) = Spelled(word, s) /\ WordsOf(t) = Spelled(word, t) /\ WordsOf(s \o t) = Spelled(word, s \o t)
  BY <1>1, WordsAre
<1>3. Spelled(word, s \o t) = Spelled(word, s) \o Spelled(word, t) /\ Spelled(word, s) \in Text
  <2>1. word \in [Atoms -> Seq(Atoms)]
    BY LettersAre
  <2>2. Spelled(word, s \o t) = Spelled(word, s) \o Spelled(word, t)
    BY ONLY <1>1, <2>1, SpelledConcat
  <2>3. Spelled(word, s) \in Seq(Atoms)
    BY ONLY <1>1, <2>1, SpelledSeq
  <2> QED
    BY <2>2, <2>3 DEF Text
<1> QED
  BY <1>2, <1>3

\* k, its last line ended.
Close(k) == IF k = <<>> \/ k[Len(k)] = NL THEN k ELSE Append(k, NL)
Closed(k) == k = <<>> \/ k[Len(k)] = NL

\* k and then x: noise goes, and a line without anything else.
Press(k, x) == IF x \in LineEnds THEN Close(k) ELSE IF x \in Noise THEN k ELSE Append(k, x)

From(k, t) ==
    LET After[n \in 0 .. Len(t)] == IF n = 0 THEN k ELSE Press(After[n - 1], t[n])
    IN  After[Len(t)]

\* The lines of a text, as far as they are more than noise.
Core(t) == Close(From(<<>>, t))

\* One letter pressed onto a core leaves a text.
LEMMA PressText == ASSUME NEW k \in Text, NEW x \in Atoms PROVE Press(k, x) \in Text /\ Close(k) \in Text
BY SomeTexts DEF Press, Close, Text

Presses(f, k, t) ==
    /\ f \in [0 .. Len(t) -> Text] /\ f[0] = k
    /\ \A n \in 1 .. Len(t) : f[n] = Press(f[n - 1], t[n])

\* The presses of From as a function on the positions.
LEMMA FromRun == ASSUME NEW k \in Text, NEW t \in Text PROVE \E f : Presses(f, k, t) /\ From(k, t) = f[Len(t)]
<1> DEFINE n == Len(t)
           Body(f) == [i \in 0 .. Len(t) |-> IF i = 0 THEN k ELSE Press(f[i - 1], t[i])]
           F == CHOOSE f : f = Body(f)
           h == [p \in (1 .. n) \X Text |-> Press(p[2], t[p[1]])]
<1>1. n \in Nat /\ \A i \in 1 .. n : t[i] \in Atoms
  BY DEF Text
<1>2. ASSUME NEW i \in 1 .. n, NEW v \in Text PROVE h[<<i, v>>] = Press(v, t[i]) /\ Press(v, t[i]) \in Text
  BY <1>1, PressText
<1> HIDE DEF h
<1>3. Steps(h, 1 .. n, Text)
  BY <1>2 DEF Steps
<1>4. PICK o : Rises(o, n, Text, k, h)
  BY ONLY <1>1, <1>3, k \in Text, Rising
<1>5. o \in [0 .. n -> Text] /\ o[0] = k
  BY <1>4 DEF Rises
<1>6. ASSUME NEW i \in 1 .. n PROVE o[i] = Press(o[i - 1], t[i])
  <2>1. i - 1 \in 0 .. n
    BY <1>1
  <2>2. o[i - 1] \in Text /\ o[i] = h[<<i, o[i - 1]>>]
    BY <1>4, <1>5, <2>1 DEF Rises
  <2> QED
    BY <1>2, <2>2
<1>7. o = Body(o)
  <2>1. ASSUME NEW i \in 0 .. n PROVE o[i] = Body(o)[i]
    <3>1. CASE i = 0
      BY <1>5, <3>1
    <3>2. CASE i # 0
      <4>1. i \in 1 .. n
        BY <3>2
      <4>2. Body(o)[i] = Press(o[i - 1], t[i])
        BY <3>2
      <4> QED
        BY <1>6, <4>1, <4>2
    <3> QED
      BY <3>1, <3>2
  <2>2. o = [i \in 0 .. n |-> o[i]] /\ Body(o) = [i \in 0 .. n |-> Body(o)[i]]
    BY <1>5
  <2> HIDE DEF Body
  <2> QED
    BY <2>1, <2>2
<1>8. F = Body(F)
  BY <1>7
<1>9. From(k, t) = F[Len(t)]
  BY DEF From
<1> HIDE DEF F
<1>10. F = [i \in 0 .. n |-> IF i = 0 THEN k ELSE Press(F[i - 1], t[i])]
  BY <1>8
<1> HIDE DEF Body, n
<1>11. \A i \in 0 .. n : F[i] = o[i]
  <2> DEFINE S == {i \in Int : F[i] = o[i]}
  <2>1. 0 \in S
    BY <1>1, <1>5, <1>10
  <2>2. ASSUME NEW i \in 1 .. n, i - 1 \in S PROVE i \in S
    <3>1. F[i] = Press(F[i - 1], t[i])
      BY <1>1, <1>10
    <3>2. F[i - 1] = o[i - 1]
      BY <2>2
    <3>3. F[i] = o[i]
      BY <1>6, <3>1, <3>2
    <3> QED
      BY <3>3
  <2> HIDE DEF S
  <2>3. \A i \in 0 .. n : i \in S
    BY ONLY <1>1, <2>1, <2>2, Forwards
  <2> QED
    BY <2>3 DEF S
<1>12. From(k, t) = o[n]
  BY <1>1, <1>9, <1>11 DEF n
<1>13. Presses(o, k, t)
  BY <1>5, <1>6 DEF Presses, n
<1> QED
  BY <1>12, <1>13 DEF n

\* Pressing a text onto a core leaves a text.
LEMMA FromText == ASSUME NEW k \in Text, NEW t \in Text PROVE From(k, t) \in Text
<1>1. PICK f : Presses(f, k, t) /\ From(k, t) = f[Len(t)]
  BY FromRun
<1>2. Len(t) \in 0 .. Len(t)
  BY DEF Text
<1> QED
  BY <1>1, <1>2 DEF Presses

\* Pressing the empty text changes nothing.
LEMMA FromNone == ASSUME NEW k \in Text PROVE From(k, <<>>) = k
<1>1. <<>> \in Text /\ Len(<<>>) = 0
  BY DEF Text
<1>2. PICK f : Presses(f, k, <<>>) /\ From(k, <<>>) = f[Len(<<>>)]
  BY <1>1, FromRun
<1> QED
  BY <1>1, <1>2 DEF Presses

\* Pressing one more letter.
LEMMA FromAppend ==
    ASSUME NEW k \in Text, NEW t \in Text, NEW x \in Atoms
    PROVE  From(k, Append(t, x)) = Press(From(k, t), x)
<1> DEFINE u == Append(t, x)
           n == Len(t)
<1>1. u \in Text /\ Len(u) = n + 1 /\ n \in Nat /\ u[n + 1] = x /\ \A i \in 1 .. n : u[i] = t[i]
  BY DEF Text
<1> HIDE DEF u
<1>2. PICK f : Presses(f, k, t) /\ From(k, t) = f[Len(t)]
  BY FromRun
<1>3. PICK g : Presses(g, k, u) /\ From(k, u) = g[Len(u)]
  BY <1>1, FromRun
<1> HIDE DEF n
<1>4. \A i \in 0 .. n : g[i] = f[i]
  <2> DEFINE S == {i \in Int : g[i] = f[i]}
  <2>1. 0 \in S
    BY <1>2, <1>3 DEF Presses
  <2>2. ASSUME NEW i \in 1 .. n, i - 1 \in S PROVE i \in S
    <3>1. g[i - 1] = f[i - 1] /\ i \in 1 .. n + 1
      BY <1>1, <2>2
    <3>2. g[i] = Press(g[i - 1], t[i])
      BY <1>1, <1>3, <3>1 DEF Presses
    <3>3. f[i] = Press(f[i - 1], t[i])
      BY <1>2 DEF Presses, n
    <3>4. g[i] = f[i]
      BY ONLY <3>1, <3>2, <3>3
    <3> QED
      BY <3>4
  <2> HIDE DEF S
  <2>3. \A i \in 0 .. n : i \in S
    BY ONLY <1>1, <2>1, <2>2, Forwards
  <2> QED
    BY <2>3 DEF S
<1>5. (n + 1) - 1 = n /\ n + 1 \in 1 .. n + 1 /\ n \in 0 .. n
  BY <1>1
<1>6. g[n + 1] = Press(g[(n + 1) - 1], u[n + 1])
  BY <1>1, <1>3, <1>5 DEF Presses
<1>7. g[n] = f[n]
  BY <1>4, <1>5
<1>8. From(k, u) = Press(f[n], x)
  BY ONLY <1>1, <1>3, <1>5, <1>6, <1>7
<1> QED
  BY <1>2, <1>8 DEF u, n

\* What holds behind nothing, and behind one atom more, holds behind a text.
LEMMA TextInduction ==
    ASSUME NEW t \in Text, NEW P, <<>> \in P, \A v \in Text, x \in Atoms : v \in P => Append(v, x) \in P
    PROVE  t \in P
BY SeqInduction DEF Text

\* Pressing a concatenation presses its halves one after the other.
LEMMA FromConcat ==
    ASSUME NEW k \in Text, NEW s \in Text, NEW t \in Text
    PROVE  From(k, s \o t) = From(From(k, s), t)
<1> DEFINE P == {v \in Text : From(k, s \o v) = From(From(k, s), v)}
<1>0. From(k, s) \in Text
  BY FromText
<1>1. <<>> \in P
  <2>1. s \o <<>> = s /\ <<>> \in Text
    BY DEF Text
  <2>2. From(From(k, s), <<>>) = From(k, s)
    BY <1>0, FromNone
  <2> QED
    BY <2>1, <2>2
<1>2. ASSUME NEW v \in Text, NEW x \in Atoms, v \in P PROVE Append(v, x) \in P
  <2>1. s \o Append(v, x) = Append(s \o v, x) /\ s \o v \in Text /\ Append(v, x) \in Text
    BY DEF Text
  <2>2. From(k, Append(s \o v, x)) = Press(From(k, s \o v), x)
    BY <2>1, FromAppend
  <2>3. From(From(k, s), Append(v, x)) = Press(From(From(k, s), v), x)
    BY <1>0, FromAppend
  <2>4. From(k, s \o v) = From(From(k, s), v)
    BY <1>2
  <2> QED
    BY <2>1, <2>2, <2>3, <2>4
<1> HIDE DEF P
<1>3. t \in P
  BY ONLY <1>1, <1>2, t \in Text, TextInduction
<1> QED
  BY <1>3 DEF P

\* Behind an ended line nothing depends on what was before.
LEMMA PressBehind ==
    ASSUME NEW k \in Text, Closed(k), NEW v \in Text, NEW x \in Atoms
    PROVE  Press(k \o v, x) = k \o Press(v, x) /\ Close(k \o v) = k \o Close(v)
<1> DEFINE u == k \o v
<1>0. k \in Seq(Atoms) /\ v \in Seq(Atoms) /\ NL \in Atoms
  BY SomeTexts DEF Text
<1>1. CASE v = <<>>
  <2>1. k \o v = k /\ k \o Append(v, x) = Append(k, x) /\ k \o Append(v, NL) = Append(k, NL)
    BY <1>0, <1>1
  <2>2. Close(k) = k /\ Close(v) = v
    BY <1>1 DEF Close, Closed
  <2> QED
    BY <2>1, <2>2 DEF Press
<1>2. CASE v # <<>>
  <2>1. u # <<>> /\ u[Len(u)] = v[Len(v)] /\ \A y \in Atoms : k \o Append(v, y) = Append(u, y)
    BY <1>0, <1>2
  <2>2. Close(u) = k \o Close(v)
    BY <1>0, <1>2, <2>1 DEF Close
  <2> HIDE DEF u
  <2>3. Press(u, x) = k \o Press(v, x)
    BY <2>1, <2>2 DEF Press, u
  <2> QED
    BY <2>2, <2>3 DEF u
<1> QED
  BY <1>1, <1>2

\* Behind a closed core a text is pressed as if it stood alone.
LEMMA FromClosed ==
    ASSUME NEW k \in Text, Closed(k), NEW t \in Text
    PROVE  From(k, t) = k \o From(<<>>, t)
<1> DEFINE P == {v \in Text : From(k, v) = k \o From(<<>>, v)}
<1>0. <<>> \in Text
  BY DEF Text
<1>1. <<>> \in P
  <2>1. From(k, <<>>) = k
    BY FromNone
  <2>2. From(<<>>, <<>>) = <<>>
    BY <1>0, FromNone
  <2>3. k \o <<>> = k
    BY DEF Text
  <2> QED
    BY <1>0, <2>1, <2>2, <2>3
<1>2. ASSUME NEW v \in Text, NEW x \in Atoms, v \in P PROVE Append(v, x) \in P
  <2>1. From(k, Append(v, x)) = Press(From(k, v), x) /\ From(<<>>, Append(v, x)) = Press(From(<<>>, v), x)
    BY <1>0, FromAppend
  <2>2. From(k, v) = k \o From(<<>>, v) /\ From(<<>>, v) \in Text
    BY <1>0, <1>2, FromText
  <2>3. Press(k \o From(<<>>, v), x) = k \o Press(From(<<>>, v), x)
    BY <2>2, PressBehind
  <2>4. Append(v, x) \in Text
    BY DEF Text
  <2> QED
    BY <2>1, <2>2, <2>3, <2>4
<1> HIDE DEF P
<1>3. t \in P
  BY ONLY <1>1, <1>2, t \in Text, TextInduction
<1> QED
  BY <1>3 DEF P

\* Closing closes a core, and closing twice is closing once.
LEMMA CloseClosed ==
    ASSUME NEW k \in Text
    PROVE  Closed(Close(k)) /\ Close(Close(k)) = Close(k) /\ (Closed(k) => Close(k) = k)
<1>0. k \in Seq(Atoms) /\ NL \in Atoms
  BY SomeTexts DEF Text
<1>1. Append(k, NL) # <<>> /\ Append(k, NL)[Len(Append(k, NL))] = NL
  BY <1>0
<1>2. Closed(Close(k))
  BY <1>1 DEF Close, Closed
<1>3. \A j : Closed(j) => Close(j) = j
  BY DEF Close, Closed
<1> QED
  BY <1>2, <1>3

\* The core of a text is a closed text.
LEMMA CoreText == ASSUME NEW t \in Text PROVE Core(t) \in Text /\ Closed(Core(t)) /\ From(<<>>, t) \in Text
<1>1. <<>> \in Text /\ NL \in Atoms
  BY SomeTexts DEF Text
<1>2. From(<<>>, t) \in Text
  BY <1>1, FromText
<1> QED
  BY <1>1, <1>2, PressText, CloseClosed DEF Core

\* The lines of two texts with a line end between them.
LEMMA CoreConcat ==
    ASSUME NEW s \in Text, NEW e \in LineEnds, NEW t \in Text
    PROVE  Core(Append(s, e) \o t) = Core(s) \o Core(t)
<1>1. Append(s, e) \in Text /\ <<>> \in Text /\ e \in Atoms
  BY LettersAre DEF Text
<1>2. From(<<>>, Append(s, e)) = Core(s)
  <2>1. From(<<>>, Append(s, e)) = Press(From(<<>>, s), e)
    BY <1>1, FromAppend
  <2> QED
    BY <2>1 DEF Press, Core
<1>3. From(<<>>, Append(s, e) \o t) = From(Core(s), t)
  BY <1>1, <1>2, FromConcat
<1>4. Core(s) \in Text /\ Closed(Core(s)) /\ From(<<>>, t) \in Text
  BY CoreText
<1>5. From(Core(s), t) = Core(s) \o From(<<>>, t)
  BY <1>4, FromClosed
<1>6. Close(Core(s) \o From(<<>>, t)) = Core(s) \o Close(From(<<>>, t))
  BY <1>1, <1>4, PressBehind
<1> QED
  BY <1>3, <1>5, <1>6 DEF Core

\* The empty text has an empty core.
LEMMA CoreNone == Core(<<>>) = <<>>
<1>1. <<>> \in Text
  BY DEF Text
<1>2. From(<<>>, <<>>) = <<>>
  BY <1>1, FromNone
<1> QED
  BY <1>2 DEF Core, Close

\* Noise in front of a text goes.
LEMMA CoreNoise ==
    ASSUME NEW n \in Text, \A i \in 1 .. Len(n) : n[i] \in Noise, NEW t \in Text
    PROVE  Core(n \o t) = Core(t) /\ Core(n) = <<>>
<1>0. <<>> \in Text
  BY DEF Text
<1>1. PICK f : Presses(f, <<>>, n) /\ From(<<>>, n) = f[Len(n)]
  BY <1>0, FromRun
<1> DEFINE S == {i \in Int : f[i] = <<>>}
           m == Len(n)
<1>2. m \in Nat
  BY DEF Text
<1>3. 0 \in S
  BY <1>1 DEF Presses
<1>4. ASSUME NEW i \in 1 .. m, i - 1 \in S PROVE i \in S
  <2>1. f[i] = Press(f[i - 1], n[i]) /\ f[i - 1] = <<>>
    BY <1>1, <1>4 DEF Presses
  <2>2. n[i] \in Noise
    OBVIOUS
  <2>3. f[i] = <<>>
    BY <2>1, <2>2 DEF Press, Close
  <2> QED
    BY <2>3
<1> HIDE DEF S, m
<1>5. \A i \in 0 .. m : i \in S
  BY ONLY <1>2, <1>3, <1>4, Forwards
<1>6. From(<<>>, n) = <<>>
  <2>1. m \in S
    BY <1>2, <1>5
  <2> QED
    BY <1>1, <2>1 DEF S, m
<1>7. From(<<>>, n \o t) = From(<<>>, t)
  BY <1>0, <1>6, FromConcat
<1> QED
  BY <1>6, <1>7 DEF Core, Close

\* Whitespace behind a text goes.
LEMMA CoreTrail ==
    ASSUME NEW t \in Text, NEW w \in Text, \A i \in 1 .. Len(w) : w[i] \in Whitespace
    PROVE  Core(t \o w) = Core(t)
<1> DEFINE P == {v \in Text : (\A i \in 1 .. Len(v) : v[i] \in Whitespace) => Core(t \o v) = Core(t)}
<1>0. <<>> \in Text
  BY DEF Text
<1>1. <<>> \in P
  <2>1. t \o <<>> = t
    BY DEF Text
  <2> QED
    BY <1>0, <2>1
<1>2. ASSUME NEW v \in Text, NEW x \in Atoms, v \in P PROVE Append(v, x) \in P
  <2> DEFINE u == Append(v, x)
  <2>1. u \in Text /\ Len(u) = Len(v) + 1 /\ Len(v) \in Nat /\ u[Len(v) + 1] = x /\ \A i \in 1 .. Len(v) : u[i] = v[i]
    BY DEF Text
  <2>2. t \o u = Append(t \o v, x) /\ t \o v \in Text
    BY DEF Text
  <2> HIDE DEF u
  <2>3. ASSUME \A i \in 1 .. Len(u) : u[i] \in Whitespace PROVE Core(t \o u) = Core(t)
    <3>1. (\A i \in 1 .. Len(v) : v[i] \in Whitespace) /\ x \in Whitespace
      <4>1. \A i \in 1 .. Len(v) : i \in 1 .. Len(u)
        BY <2>1
      <4>2. Len(v) + 1 \in 1 .. Len(u)
        BY <2>1
      <4> QED
        BY <2>1, <2>3, <4>1, <4>2
    <3>2. Core(t \o v) = Core(t)
      BY <1>2, <3>1
    <3>3. From(<<>>, t \o u) = Press(From(<<>>, t \o v), x)
      BY <1>0, <2>2, FromAppend
    <3> DEFINE k == From(<<>>, t \o v)
    <3>4. k \in Text
      BY <1>0, <2>2, FromText
    <3>5. x \in LineEnds \/ (x \in Noise /\ x \notin LineEnds)
      BY <3>1, LettersAre
    <3>6. Close(Press(k, x)) = Close(k)
      <4> HIDE DEF k
      <4> QED
        BY <3>4, <3>5, CloseClosed DEF Press
    <3> QED
      BY <3>2, <3>3, <3>6 DEF Core
  <2> QED
    BY <2>1, <2>3 DEF u
<1> HIDE DEF P
<1>3. w \in P
  BY ONLY <1>1, <1>2, w \in Text, TextInduction
<1> QED
  BY <1>3 DEF P

\* A line that no line end is in presses to its gist.
LEMMA FromLine ==
    ASSUME NEW t \in Text, \A i \in 1 .. Len(t) : t[i] \notin LineEnds
    PROVE  From(<<>>, t) = Gist(t) /\ Gist(t) \in Text
<1> DEFINE P == {v \in Text : (\A i \in 1 .. Len(v) : v[i] \notin LineEnds) => From(<<>>, v) = Spelled(ink, v)}
<1>0. <<>> \in Text /\ ink \in [Atoms -> Seq(Atoms)]
  BY LettersAre DEF Text
<1>1. <<>> \in P
  <2>1. From(<<>>, <<>>) = <<>>
    BY <1>0, FromNone
  <2>2. Spelled(ink, <<>>) = <<>>
    BY <1>0, SpelledNone
  <2> QED
    BY <1>0, <2>1, <2>2
<1>2. ASSUME NEW v \in Text, NEW x \in Atoms, v \in P PROVE Append(v, x) \in P
  <2> DEFINE u == Append(v, x)
  <2>1. u \in Text /\ Len(u) = Len(v) + 1 /\ Len(v) \in Nat /\ u[Len(v) + 1] = x /\ \A i \in 1 .. Len(v) : u[i] = v[i]
    BY DEF Text
  <2>2. From(<<>>, u) = Press(From(<<>>, v), x)
    BY <1>0, FromAppend
  <2>3. Spelled(ink, u) = Spelled(ink, v) \o ink[x]
    <3>1. v \in Seq(Atoms)
      BY DEF Text
    <3> QED
      BY <1>0, <3>1, SpelledAppend
  <2> HIDE DEF u
  <2>4. ASSUME \A i \in 1 .. Len(u) : u[i] \notin LineEnds PROVE From(<<>>, u) = Spelled(ink, u)
    <3>1. \A i \in 1 .. Len(v) : i \in 1 .. Len(u)
      BY <2>1
    <3>2. Len(v) + 1 \in 1 .. Len(u)
      BY <2>1
    <3>3. (\A i \in 1 .. Len(v) : v[i] \notin LineEnds) /\ x \notin LineEnds
      BY <2>1, <2>4, <3>1, <3>2
    <3>4. From(<<>>, v) = Spelled(ink, v)
      BY <1>2, <3>3
    <3> DEFINE k == From(<<>>, v)
    <3>5. k \in Seq(Atoms)
      BY <1>0, FromText DEF Text
    <3> HIDE DEF k
    <3>6. Press(k, x) = k \o ink[x]
      <4>1. k \o <<>> = k /\ Append(k, x) = k \o <<x>>
        BY <3>5
      <4> QED
        BY <3>3, <4>1 DEF Press, ink
    <3> QED
      BY <2>2, <2>3, <3>4, <3>6 DEF k
  <2> QED
    BY <2>1, <2>4 DEF u
<1> HIDE DEF P
<1>3. t \in P
  BY ONLY <1>1, <1>2, t \in Text, TextInduction
<1>4. Gist(t) = Spelled(ink, t)
  BY GistIs
<1>5. Spelled(ink, t) \in Text
  BY <1>0, SpelledSeq DEF Text
<1> QED
  BY <1>3, <1>4, <1>5 DEF P

\* Nothing that is pressed away is a word.
LEMMA CoreWords == ASSUME NEW t \in Text PROVE WordsOf(Core(t)) = WordsOf(t)
<1> DEFINE P == {v \in Text : Spelled(word, From(<<>>, v)) = Spelled(word, v)}
<1>0. <<>> \in Text /\ word \in [Atoms -> Seq(Atoms)] /\ NL \in Atoms /\ word[NL] = <<>>
  BY LettersAre, SomeTexts DEF word, NL, Words, LowerWords, HyphenWord, JoinedWord
<1>a. ASSUME NEW x \in Noise PROVE word[x] = <<>>
  BY LettersAre DEF word, Noise, Whitespace, Words, LowerWords, HyphenWord, JoinedWord, Bullets, Dots, Circle, Section,
     PageNumber, NL, CRLF, FF, SP
<1>b. ASSUME NEW k \in Text PROVE Spelled(word, Close(k)) = Spelled(word, k)
  <2>1. k \in Seq(Atoms)
    BY DEF Text
  <2>2. Spelled(word, Append(k, NL)) = Spelled(word, k) \o word[NL]
    BY <1>0, <2>1, SpelledAppend
  <2>3. Spelled(word, k) \in Seq(Atoms)
    BY <1>0, <2>1, SpelledSeq
  <2>4. Spelled(word, k) \o <<>> = Spelled(word, k)
    BY <2>3
  <2> QED
    BY <1>0, <2>2, <2>4 DEF Close
<1>1. <<>> \in P
  <2>1. From(<<>>, <<>>) = <<>>
    BY <1>0, FromNone
  <2> QED
    BY <1>0, <2>1
<1>2. ASSUME NEW v \in Text, NEW x \in Atoms, v \in P PROVE Append(v, x) \in P
  <2> DEFINE u == Append(v, x)
             k == From(<<>>, v)
  <2>1. u \in Text /\ v \in Seq(Atoms) /\ k \in Text /\ k \in Seq(Atoms)
    BY <1>0, FromText DEF Text
  <2>2. From(<<>>, u) = Press(k, x)
    BY <1>0, FromAppend
  <2>3. Spelled(word, u) = Spelled(word, v) \o word[x]
    BY <1>0, <2>1, SpelledAppend
  <2>4. Spelled(word, v) = Spelled(word, k)
    BY <1>2
  <2> HIDE DEF u, k
  <2>5. Spelled(word, Append(k, x)) = Spelled(word, k) \o word[x]
    BY <1>0, <2>1, SpelledAppend
  <2>6. Spelled(word, k) \o <<>> = Spelled(word, k)
    <3>1. Spelled(word, k) \in Seq(Atoms)
      BY <1>0, <2>1, SpelledSeq
    <3> QED
      BY <3>1
  <2>7. Spelled(word, Close(k)) = Spelled(word, k)
    BY <1>b, <2>1
  <2>8. Spelled(word, Press(k, x)) = Spelled(word, k) \o word[x]
    <3>1. CASE x \in LineEnds
      <4>1. x \in Noise
        BY <3>1, LettersAre
      <4> QED
        BY <1>a, <2>6, <2>7, <3>1, <4>1 DEF Press
    <3>2. CASE x \notin LineEnds /\ x \in Noise
      BY <1>a, <2>6, <3>2 DEF Press
    <3>3. CASE x \notin Noise
      <4>1. x \notin LineEnds
        BY <3>3, LettersAre
      <4> QED
        BY <2>5, <3>3, <4>1 DEF Press
    <3> QED
      BY <3>1, <3>2, <3>3
  <2>9. u \in P
    BY <2>1, <2>2, <2>3, <2>4, <2>8
  <2> QED
    BY <2>9 DEF u
<1> HIDE DEF P
<1>3. t \in P
  BY ONLY <1>1, <1>2, t \in Text, TextInduction
<1>4. From(<<>>, t) \in Text /\ Core(t) \in Text
  BY CoreText
<1>5. Spelled(word, Core(t)) = Spelled(word, From(<<>>, t))
  BY <1>b, <1>4 DEF Core
<1>6. Spelled(word, From(<<>>, t)) = Spelled(word, t)
  BY <1>3 DEF P
<1>7. WordsOf(Core(t)) = Spelled(word, Core(t))
  BY <1>4, WordsAre
<1>8. WordsOf(t) = Spelled(word, t)
  BY WordsAre
<1> QED
  BY <1>5, <1>6, <1>7, <1>8

\* Noise that ends no line may as well not be there.
LEMMA CoreSkip ==
    ASSUME NEW t \in Text, NEW D, \A i \in 1 .. Len(t) : i \in D => t[i] \in Noise \ LineEnds
    PROVE  Core(Without(t, D)) = Core(t)
<1> DEFINE P == {v \in Text : (\A i \in 1 .. Len(v) : i \in D => v[i] \in Noise \ LineEnds)
                                => From(<<>>, Without(v, D)) = From(<<>>, v)}
<1>0. <<>> \in Text
  BY DEF Text
<1>1. <<>> \in P
  <2>1. Without(<<>>, D) = <<>>
    BY WithoutNone
  <2> QED
    BY <1>0, <2>1
<1>2. ASSUME NEW v \in Text, NEW x \in Atoms, v \in P PROVE Append(v, x) \in P
  <2> DEFINE u == Append(v, x)
             w == Without(v, D)
  <2>1. u \in Text /\ Len(u) = Len(v) + 1 /\ Len(v) \in Nat /\ u[Len(v) + 1] = x /\ \A i \in 1 .. Len(v) : u[i] = v[i]
    BY DEF Text
  <2>2. w \in Text /\ Without(u, D) = IF Len(v) + 1 \in D THEN w ELSE Append(w, x)
    <3>1. v \in Seq(Atoms)
      BY DEF Text
    <3>2. Without(v, D) \in Seq(Atoms)
      BY <3>1, WithoutAppend
    <3>3. Without(Append(v, x), D) = IF Len(v) + 1 \in D THEN Without(v, D) ELSE Append(Without(v, D), x)
      BY <3>1, WithoutAppend
    <3> QED
      BY <3>2, <3>3 DEF Text
  <2>3. From(<<>>, u) = Press(From(<<>>, v), x)
    BY <1>0, FromAppend
  <2> HIDE DEF u, w
  <2>4. ASSUME \A i \in 1 .. Len(u) : i \in D => u[i] \in Noise \ LineEnds
        PROVE  From(<<>>, Without(u, D)) = From(<<>>, u)
    <3>1. \A i \in 1 .. Len(v) : i \in 1 .. Len(u)
      BY <2>1
    <3>2. Len(v) + 1 \in 1 .. Len(u)
      BY <2>1
    <3>3. \A i \in 1 .. Len(v) : i \in D => v[i] \in Noise \ LineEnds
      BY <2>1, <2>4, <3>1
    <3>4. From(<<>>, w) = From(<<>>, v)
      BY <1>2, <3>3 DEF w
    <3>5. CASE Len(v) + 1 \in D
      <4>1. x \in Noise \ LineEnds
        BY <2>1, <2>4, <3>2, <3>5
      <4> QED
        BY <2>2, <2>3, <3>4, <3>5, <4>1 DEF Press
    <3>6. CASE Len(v) + 1 \notin D
      <4>1. From(<<>>, Append(w, x)) = Press(From(<<>>, w), x)
        BY <1>0, <2>2, FromAppend
      <4> QED
        BY <2>2, <2>3, <3>4, <3>6, <4>1
    <3> QED
      BY <3>5, <3>6
  <2>5. u \in P
    BY <2>1, <2>4
  <2> QED
    BY <2>5 DEF u
<1> HIDE DEF P
<1>3. t \in P
  BY ONLY <1>1, <1>2, t \in Text, TextInduction
<1> QED
  BY <1>3 DEF P, Core

\* One line end is as good as another.
LEMMA CoreEnds ==
    ASSUME NEW s \in Text, NEW t \in Text, Len(s) = Len(t),
           \A i \in 1 .. Len(t) : s[i] = t[i] \/ (s[i] \in LineEnds /\ t[i] \in LineEnds)
    PROVE  Core(s) = Core(t)
<1> DEFINE n == Len(t)
<1>0. <<>> \in Text /\ n \in Nat
  BY DEF Text
<1>1. PICK f : Presses(f, <<>>, t) /\ From(<<>>, t) = f[Len(t)]
  BY <1>0, FromRun
<1>2. PICK g : Presses(g, <<>>, s) /\ From(<<>>, s) = g[Len(s)]
  BY <1>0, FromRun
<1> DEFINE S == {i \in Int : g[i] = f[i]}
<1>3. 0 \in S
  BY <1>1, <1>2 DEF Presses
<1>4. ASSUME NEW i \in 1 .. n, i - 1 \in S PROVE i \in S
  <2>1. f[i] = Press(f[i - 1], t[i]) /\ g[i] = Press(g[i - 1], s[i]) /\ f[i - 1] = g[i - 1]
    BY <1>1, <1>2, <1>4 DEF Presses
  <2>2. Press(f[i - 1], s[i]) = Press(f[i - 1], t[i])
    BY DEF Press
  <2> QED
    BY <2>1, <2>2
<1> HIDE DEF S
<1>5. \A i \in 0 .. n : i \in S
  BY ONLY <1>0, <1>3, <1>4, Forwards
<1>6. g[n] = f[n]
  BY <1>0, <1>5 DEF S
<1> QED
  BY <1>1, <1>2, <1>6 DEF Core

-----------------------------------------------------------------------------
(* Texts and their lines.                                                   *)

\* The parts of a text, when x is put behind it.
Grown(p, x, sep) == IF x = sep THEN Append(p, <<>>) ELSE [p EXCEPT ![Len(p)] = Append(p[Len(p)], x)]

Parts(T) == {p \in Seq(Seq(T)) : p # <<>>}

\* Only the last part grows: the parts in front of it stand as they were.
LEMMA GrownBehind ==
    ASSUME NEW T, NEW p \in Seq(Seq(T)), NEW q \in Parts(T), NEW x \in T, NEW sep
    PROVE  Grown(p \o q, x, sep) = p \o Grown(q, x, sep) /\ Grown(q, x, sep) \in Parts(T)
<1>0. q \in Seq(Seq(T)) /\ Len(q) \in 1 .. Len(q) /\ Len(p) \in Nat /\ Len(q) \in Nat /\ <<>> \in Seq(T)
  BY DEF Parts
<1>1. CASE x = sep
  <2>1. p \o Append(q, <<>>) = Append(p \o q, <<>>)
    BY <1>0
  <2>2. Append(q, <<>>) \in Parts(T)
    BY <1>0 DEF Parts
  <2> QED
    BY <1>1, <2>1, <2>2 DEF Grown
<1>2. CASE x # sep
  <2> DEFINE m == Len(q)
             l == Append(q[m], x)
             r == [q EXCEPT ![m] = l]
             w == p \o q
             z == [w EXCEPT ![Len(w)] = Append(w[Len(w)], x)]
  <2>1. q[m] \in Seq(T)
    BY <1>0, ElementOf
  <2>2. l \in Seq(T)
    BY <2>1
  <2>3. r \in Seq(Seq(T)) /\ Len(r) = m /\ r # <<>> /\ r[m] = l /\ \A i \in 1 .. m - 1 : r[i] = q[i]
    <3> HIDE DEF l
    <3> QED
      BY <1>0, <2>2
  <2>4. w \in Seq(Seq(T)) /\ Len(w) = Len(p) + m /\ w[Len(w)] = q[m]
        /\ (\A i \in 1 .. Len(p) : w[i] = p[i]) /\ \A i \in 1 .. m : w[Len(p) + i] = q[i]
    BY <1>0
  <2> HIDE DEF w, l
  <2>5. z = [w EXCEPT ![Len(w)] = l]
    BY <2>4 DEF l
  <2>6. z \in Seq(Seq(T)) /\ Len(z) = Len(w) /\ z[Len(w)] = l /\ \A i \in 1 .. Len(w) - 1 : z[i] = w[i]
    BY SMTT(40), <1>0, <2>2, <2>4, <2>5
  <2> HIDE DEF r, z, m
  <2> DEFINE y == p \o r
  <2>7. y \in Seq(Seq(T)) /\ Len(y) = Len(p) + m /\ (\A i \in 1 .. Len(p) : y[i] = p[i])
        /\ \A i \in 1 .. m : y[Len(p) + i] = r[i]
    <3>1. r \in Seq(Seq(T)) /\ p \in Seq(Seq(T)) /\ Len(r) = m
      BY <1>0, <2>3 DEF m
    <3> HIDE DEF m, r
    <3> DEFINE U == Seq(T)
    <3> HIDE DEF U
    <3>0. r \in Seq(U) /\ p \in Seq(U)
      BY <3>1 DEF U
    <3>2. y \in Seq(U) /\ Len(y) = Len(p) + Len(r) /\ (\A i \in 1 .. Len(p) : y[i] = p[i])
      BY ONLY <3>0
    <3>3. \A i \in 1 .. Len(r) : y[Len(p) + i] = r[i]
      BY ONLY <3>0
    <3> USE DEF U
    <3> QED
      BY <3>1, <3>2, <3>3
  <2> HIDE DEF y
  <2>8. ASSUME NEW i \in 1 .. Len(z) PROVE z[i] = y[i]
    <3>1. CASE i \in 1 .. Len(p)
      BY <1>0, <2>4, <2>6, <2>7, <3>1 DEF m
    <3>2. CASE i \notin 1 .. Len(p)
      <4>1. PICK j \in 1 .. m : i = Len(p) + j
        <5>1. i - Len(p) \in 1 .. m /\ i = Len(p) + (i - Len(p))
          BY SMTT(40), <1>0, <2>4, <2>6, <3>2 DEF m
        <5> QED
          BY <5>1
      <4>2. y[i] = r[j]
        BY <2>7, <4>1
      <4>3. CASE j = m
        BY <2>3, <2>4, <2>6, <4>1, <4>2, <4>3
      <4>4. CASE j # m
        <5>1. j \in 1 .. m - 1 /\ i \in 1 .. Len(w) - 1
          BY SMTT(40), <1>0, <2>4, <4>1, <4>4 DEF m
        <5> QED
          BY <2>3, <2>4, <2>6, <4>1, <4>2, <5>1
      <4> QED
        BY <4>3, <4>4
    <3> QED
      BY <3>1, <3>2
  <2>9. z = y
    BY <2>4, <2>6, <2>7, <2>8, SameSequence
  <2>10. Grown(q, x, sep) = r /\ Grown(w, x, sep) = z
    BY <1>2 DEF Grown, r, z, l, m
  <2> QED
    BY <2>3, <2>9, <2>10 DEF y, w, Parts
<1> QED
  BY <1>1, <1>2

\* What cut[i], the separator at i or behind, and f[i], the parts from i on, are for s.
SplitScan(f, cut, T, s, sep) ==
    /\ f \in [1 .. Len(s) + 2 -> Seq(Seq(T))] /\ f[Len(s) + 2] = <<>>
    /\ \A i \in 1 .. Len(s) + 1 :
          /\ cut[i] \in i .. Len(s) + 1
          /\ cut[i] <= Len(s) => s[cut[i]] = sep
          /\ \A k \in i .. cut[i] - 1 : s[k] # sep
          /\ f[i] = <<SubSeq(s, i, cut[i] - 1)>> \o f[cut[i] + 1]

\* The recursive function of Split, unfolded: each part ends before the next separator.
LEMMA SplitRun ==
    ASSUME NEW T, NEW s \in Seq(T), NEW sep
    PROVE  \E f, cut : SplitScan(f, cut, T, s, sep) /\ Split(s, sep) = f[1]
<1> DEFINE n == Len(s) + 1
           At(i) == {k \in i .. Len(s) : s[k] = sep} \cup {Len(s) + 1}
           Cut(i) == Min({k \in i .. Len(s) : s[k] = sep} \cup {Len(s) + 1})
           piece == [i \in 1 .. Len(s) + 1 |-> <<SubSeq(s, i, Cut(i) - 1)>>]
           next == [i \in 1 .. Len(s) + 1 |-> Cut(i) + 1]
           cut == [i \in 1 .. Len(s) + 1 |-> Cut(i)]
<1>1. Split(s, sep) = Scanned(n, piece, next)
  BY DEF Split
<1>2. n \in Nat /\ Len(s) \in Nat
  OBVIOUS
<1>3. ASSUME NEW i \in 1 .. n
      PROVE  Cut(i) \in i .. n /\ (Cut(i) <= Len(s) => s[Cut(i)] = sep) /\ \A k \in i .. Cut(i) - 1 : s[k] # sep
  <2> DEFINE C == At(i)
  <2>1. C \in SUBSET (i .. n) /\ C # {} /\ i \in Int /\ n \in Int
    BY <1>2
  <2>2. Cut(i) = Min(C)
    OBVIOUS
  <2>3. \A k \in C : k = Len(s) + 1 \/ s[k] = sep
    OBVIOUS
  <2>4. \A k \in i .. Len(s) : s[k] = sep => k \in C
    OBVIOUS
  <2> HIDE DEF C
  <2>5. Min(C) \in C /\ \A k \in C : Min(C) <= k
    BY ONLY <2>1, MinOf
  <2> HIDE DEF Cut
  <2>6. Cut(i) \in i .. n
    BY <2>1, <2>2, <2>5
  <2>7. Cut(i) <= Len(s) => s[Cut(i)] = sep
    BY <1>2, <2>2, <2>3, <2>5
  <2>8. ASSUME NEW k \in i .. Cut(i) - 1 PROVE s[k] # sep
    <3>1. k \in i .. Len(s) /\ k < Cut(i)
      BY <1>2, <2>6
    <3>2. k \notin C
      BY <2>2, <2>5, <2>6, <3>1
    <3> QED
      BY <2>4, <3>1, <3>2
  <2> QED
    BY <2>6, <2>7, <2>8
<1> HIDE DEF Cut
<1>4. ASSUME NEW i \in 1 .. n
      PROVE  /\ next[i] \in i + 1 .. n + 1 /\ next[i] = Cut(i) + 1 /\ cut[i] = Cut(i)
             /\ piece[i] = <<SubSeq(s, i, Cut(i) - 1)>>
  BY <1>2, <1>3
<1>5. ASSUME NEW i \in 1 .. n PROVE piece[i] \in Seq(Seq(T))
  <2>1. i \in Nat /\ Cut(i) - 1 \in Int /\ 1 <= i /\ Cut(i) - 1 <= Len(s)
    BY <1>2, <1>3
  <2>2. SubSeq(s, i, Cut(i) - 1) \in Seq(T)
    BY <2>1, SubSequence
  <2> QED
    BY <1>4, <2>2
<1> HIDE DEF piece, next, cut
<1>a. \A i \in 1 .. n : next[i] \in i + 1 .. n + 1
  BY <1>4
<1>b. \A i \in 1 .. n : piece[i] \in Seq(Seq(T))
  BY <1>5
<1>6. PICK f : Finds(f, Seq(T), n, piece, next) /\ Scanned(n, piece, next) = f[1]
  <2>1. n \in Nat
    BY <1>2
  <2> HIDE DEF n
  <2> QED
    BY ONLY <2>1, <1>a, <1>b, ScannedSteps
<1>7. SplitScan(f, cut, T, s, sep)
  <2>1. f \in [1 .. Len(s) + 2 -> Seq(Seq(T))] /\ f[Len(s) + 2] = <<>>
    <3>1. n + 1 = Len(s) + 2
      BY <1>2
    <3> HIDE DEF n
    <3> QED
      BY <1>6, <3>1 DEF Finds
  <2>2. ASSUME NEW i \in 1 .. n PROVE f[i] = <<SubSeq(s, i, cut[i] - 1)>> \o f[cut[i] + 1]
    BY <1>4, <1>6 DEF Finds
  <2> QED
    BY <1>3, <1>4, <2>1, <2>2 DEF SplitScan
<1> QED
  BY <1>1, <1>6, <1>7

\* Splitting one more letter grows the last part or starts a new one.
LEMMA SplitAppend ==
    ASSUME NEW T, NEW s \in Seq(T), NEW x \in T, NEW sep
    PROVE  Split(Append(s, x), sep) = Grown(Split(s, sep), x, sep) /\ Split(s, sep) \in Parts(T)
<1> DEFINE n == Len(s)
           u == Append(s, x)
<1>0. u \in Seq(T) /\ n \in Nat /\ Len(u) = n + 1 /\ u[n + 1] = x /\ \A i \in 1 .. n : u[i] = s[i]
  OBVIOUS
<1>1. PICK f, cut : SplitScan(f, cut, T, s, sep) /\ Split(s, sep) = f[1]
  BY SplitRun
<1> HIDE DEF u
<1>2. PICK g, end : SplitScan(g, end, T, u, sep) /\ Split(u, sep) = g[1]
  BY <1>0, SplitRun
<1>f. /\ f \in [1 .. n + 2 -> Seq(Seq(T))] /\ f[n + 2] = <<>>
      /\ \A i \in 1 .. n + 1 :
          /\ cut[i] \in i .. n + 1
          /\ cut[i] <= n => s[cut[i]] = sep
          /\ \A k \in i .. cut[i] - 1 : s[k] # sep
          /\ f[i] = <<SubSeq(s, i, cut[i] - 1)>> \o f[cut[i] + 1]
  BY <1>1 DEF SplitScan
<1>g. /\ g \in [1 .. n + 3 -> Seq(Seq(T))] /\ g[n + 3] = <<>>
      /\ \A i \in 1 .. n + 2 :
          /\ end[i] \in i .. n + 2
          /\ end[i] <= n + 1 => u[end[i]] = sep
          /\ \A k \in i .. end[i] - 1 : u[k] # sep
          /\ g[i] = <<SubSeq(u, i, end[i] - 1)>> \o g[end[i] + 1]
  <2>1. Len(u) + 2 = n + 3 /\ Len(u) + 1 = n + 2 /\ Len(u) = n + 1
    BY <1>0
  <2> HIDE DEF n
  <2> QED
    BY <1>2, <2>1 DEF SplitScan
<1> HIDE DEF n
<1> DEFINE S == {i \in Int : f[i] \in Parts(T) /\ g[i] = Grown(f[i], x, sep)}
<1>3. ASSUME NEW i \in 1 .. n + 1, \A k \in i + 1 .. n + 1 : k \in S PROVE i \in S
  <2> DEFINE p == SubSeq(s, i, cut[i] - 1)
             c == cut[i]
  <2>F. /\ c \in i .. n + 1 /\ (c <= n => s[c] = sep) /\ (\A k \in i .. c - 1 : s[k] # sep)
        /\ f[i] = <<p>> \o f[c + 1]
    BY ONLY <1>f, i \in 1 .. n + 1
  <2>a. n + 1 \in Nat /\ i \in 1 .. n + 2 /\ i \in Nat
    BY ONLY <1>0, i \in 1 .. n + 1
  <2>G. /\ end[i] \in i .. n + 2 /\ (end[i] <= n + 1 => u[end[i]] = sep) /\ (\A k \in i .. end[i] - 1 : u[k] # sep)
        /\ g[i] = <<SubSeq(u, i, end[i] - 1)>> \o g[end[i] + 1]
    BY ONLY <1>g, <2>a
  <2>1. c \in i .. n + 1 /\ i \in Nat /\ i \in 1 .. n + 2
    BY <2>a, <2>F
  <2>2. p \in Seq(T) /\ f[i] = <<p>> \o f[c + 1] /\ f[c + 1] \in Seq(Seq(T))
    <3>1. cut[i] - 1 \in Int /\ cut[i] - 1 <= Len(s) /\ 1 <= i
      BY <1>0, <2>1 DEF n
    <3>2. c + 1 \in 1 .. n + 2
      BY <1>0, <2>1
    <3> QED
      BY <1>f, <2>1, <3>1, <3>2, SubSequence
  <2>3. <<p>> \in Seq(Seq(T)) /\ f[i] \in Parts(T)
    <3> HIDE DEF p
    <3> QED
      BY <2>2 DEF Parts
  <2>4. CASE c <= n
    <3>1. end[i] = c
      <4>1. u[c] = sep
        <5>1. c \in 1 .. n /\ s[c] = sep
          BY ONLY <1>0, <2>F, <2>4, i \in 1 .. n + 1
        <5> QED
          BY ONLY <1>0, <5>1
      <4>2. end[i] <= c
        <5>1. SUFFICES ASSUME ~ (end[i] <= c) PROVE FALSE
          OBVIOUS
        <5>2. c \in i .. end[i] - 1
          <6>1. c \in i .. n + 1 /\ end[i] \in i .. n + 2 /\ i \in Nat /\ n \in Nat
            BY ONLY <1>0, <2>a, <2>F, <2>G
          <6> QED
            BY ONLY <6>1, <5>1
        <5> QED
          BY ONLY <2>G, <4>1, <5>2
      <4>3. end[i] >= c
        <5>1. SUFFICES ASSUME ~ (end[i] >= c) PROVE FALSE
          OBVIOUS
        <5>2. end[i] \in i .. c - 1 /\ end[i] \in 1 .. n /\ end[i] <= n + 1
          <6>1. c \in i .. n + 1 /\ end[i] \in i .. n + 2 /\ i \in 1 .. n + 1 /\ n \in Nat
            BY ONLY <1>0, <2>F, <2>G, i \in 1 .. n + 1
          <6> QED
            BY ONLY <6>1, <5>1, <2>4
        <5>3. u[end[i]] = sep
          BY ONLY <2>G, <5>2
        <5> QED
          BY ONLY <1>0, <2>F, <5>2, <5>3
      <4>4. end[i] \in Int /\ c \in Int
        BY ONLY <1>0, <2>F, <2>G, i \in 1 .. n + 1
      <4> QED
        BY ONLY <4>2, <4>3, <4>4
    <3>2. SubSeq(u, i, c - 1) = p
      <4> DEFINE q == SubSeq(u, i, c - 1)
      <4>1. q \in Seq(T) /\ Len(q) = Len(p) /\ \A k \in 1 .. Len(p) : q[k] = p[k]
        BY SMTT(40), <1>0, <2>1, <2>4 DEF n
      <4> HIDE DEF q, p
      <4> QED
        BY <2>2, <4>1, SameSequence DEF q
    <3>3. g[i] = <<p>> \o g[c + 1]
      BY <1>g, <2>1, <3>1, <3>2
    <3>4. c + 1 \in i + 1 .. n + 1
      BY <2>1, <2>4, <1>0
    <3>5. f[c + 1] \in Parts(T) /\ g[c + 1] = Grown(f[c + 1], x, sep)
      BY <1>3, <3>4
    <3> HIDE DEF p, c
    <3>6. Grown(<<p>> \o f[c + 1], x, sep) = <<p>> \o Grown(f[c + 1], x, sep)
      <4> DEFINE a == <<p>>
                 b == f[c + 1]
      <4>1. a \in Seq(Seq(T)) /\ b \in Parts(T)
        BY <2>3, <3>5
      <4> HIDE DEF a, b
      <4>2. Grown(a \o b, x, sep) = a \o Grown(b, x, sep)
        BY ONLY <4>1, x \in T, GrownBehind
      <4> QED
        BY <4>2 DEF a, b
    <3>7. g[i] = Grown(f[i], x, sep)
      BY <2>2, <3>3, <3>5, <3>6
    <3> QED
      BY <2>3, <3>7
  <2>5. CASE c = n + 1
    <3>1. f[i] = <<p>>
      <4>1. f[c + 1] = <<>>
        <5>1. c + 1 = n + 2
          BY <1>0, <2>5
        <5> QED
          BY <1>f, <5>1
      <4> HIDE DEF p, c
      <4> QED
        BY <2>2, <2>3, <4>1
    <3>2. \A k \in i .. n : u[k] # sep
      <4>1. ASSUME NEW k \in i .. n PROVE u[k] # sep
        <5>1. k \in 1 .. n /\ k \in i .. c - 1
          BY ONLY <1>0, <2>5, i \in 1 .. n + 1, k \in i .. n
        <5> QED
          BY ONLY <1>0, <2>F, <5>1
      <4> QED
        BY ONLY <4>1
    <3>3. end[i] >= n + 1
      <4>1. SUFFICES ASSUME ~ (end[i] >= n + 1) PROVE FALSE
        OBVIOUS
      <4>2. end[i] \in i .. n /\ end[i] <= n + 1
        BY ONLY <1>0, <2>G, <4>1, i \in 1 .. n + 1
      <4>3. u[end[i]] = sep
        BY ONLY <2>G, <4>2
      <4> QED
        BY ONLY <3>2, <4>2, <4>3
    <3>4. CASE x = sep
      <4>1. end[i] = n + 1
        <5>1. SUFFICES ASSUME end[i] # n + 1 PROVE FALSE
          OBVIOUS
        <5>2. n + 1 \in i .. end[i] - 1
          BY ONLY SMTT(40), <1>0, <2>G, <3>3, <5>1, i \in 1 .. n + 1
        <5> QED
          BY ONLY <1>0, <2>G, <3>4, <5>2
      <4>2. SubSeq(u, i, (n + 1) - 1) = p
        <5> DEFINE q == SubSeq(u, i, (n + 1) - 1)
        <5>1. q \in Seq(T) /\ Len(q) = Len(p) /\ \A k \in 1 .. Len(p) : q[k] = p[k]
          BY <1>0, <2>1, <2>5 DEF n
        <5> HIDE DEF q, p
        <5> QED
          BY <2>2, <5>1, SameSequence DEF q
      <4>3. n + 2 \in 1 .. n + 2
        BY <1>0
      <4>4. end[n + 2] = n + 2
        <5>1. end[n + 2] \in n + 2 .. n + 2
          BY ONLY <1>g, <4>3
        <5> QED
          BY ONLY <1>0, <5>1
      <4>5. SubSeq(u, n + 2, (n + 2) - 1) = <<>>
        BY <1>0
      <4>6. g[n + 2] = << <<>> >>
        <5>1. (n + 2) + 1 = n + 3
          BY <1>0
        <5>2. g[n + 2] = << <<>> >> \o g[n + 3]
          BY <1>g, <4>3, <4>4, <4>5, <5>1
        <5> QED
          BY <1>g, <5>2
      <4>7. g[i] = <<p>> \o << <<>> >>
        <5>1. (n + 1) + 1 = n + 2
          BY <1>0
        <5>2. g[i] = <<SubSeq(u, i, (n + 1) - 1)>> \o g[(n + 1) + 1]
          BY <1>g, <2>1, <4>1
        <5> QED
          BY <4>2, <4>6, <5>1, <5>2
      <4> HIDE DEF p
      <4>8. Append(<<p>>, <<>>) = <<p>> \o << <<>> >>
        BY <2>3
      <4>9. g[i] = Grown(f[i], x, sep)
        BY <3>1, <3>4, <4>7, <4>8 DEF Grown
      <4> QED
        BY <2>3, <4>9
    <3>5. CASE x # sep
      <4>1. end[i] = n + 2
        <5>1. end[i] # n + 1
          <6>1. end[i] = n + 1 => u[n + 1] = sep
            BY ONLY <1>0, <2>G
          <6> QED
            BY ONLY <1>0, <3>5, <6>1
        <5> QED
          BY ONLY <1>0, <2>G, <3>3, <5>1, i \in 1 .. n + 1
      <4>2. SubSeq(u, i, (n + 2) - 1) = Append(p, x)
        <5> DEFINE q == SubSeq(u, i, (n + 2) - 1)
                   r == Append(p, x)
        <5>1. q \in Seq(T) /\ r \in Seq(T) /\ Len(q) = n + 2 - i /\ Len(p) = n + 1 - i /\ Len(r) = Len(p) + 1
              /\ r[Len(p) + 1] = x
          BY <1>0, <2>1, <2>2, <2>5 DEF n
        <5>2. \A k \in 1 .. Len(p) : r[k] = p[k] /\ p[k] = s[i + k - 1]
          BY <1>0, <2>1, <2>2, <2>5, <5>1 DEF n
        <5>3. \A k \in 1 .. Len(q) : q[k] = u[i + k - 1]
          BY <1>0, <2>1, <2>5, <5>1
        <5> HIDE DEF q, r, p
        <5>4. ASSUME NEW k \in 1 .. Len(q) PROVE q[k] = r[k]
          <6>1. CASE k \in 1 .. Len(p)
            <7>1. i + k - 1 \in 1 .. n
              BY <1>0, <2>1, <5>1, <6>1
            <7> QED
              BY <1>0, <5>2, <5>3, <6>1, <7>1
          <6>2. CASE k \notin 1 .. Len(p)
            <7>1. k = Len(p) + 1 /\ i + k - 1 = n + 1
              BY <1>0, <2>1, <5>1, <6>2
            <7> QED
              BY <1>0, <5>1, <5>3, <7>1
          <6> QED
            BY <6>1, <6>2
        <5>5. Len(q) = Len(r)
          BY <1>0, <2>1, <5>1
        <5>6. q = r
          BY ONLY <5>1, <5>4, <5>5, SameSequence
        <5> QED
          BY <5>6 DEF q, r
      <4>3. g[i] = <<Append(p, x)>>
        <5>1. (n + 2) + 1 = n + 3
          BY <1>0
        <5>2. g[i] = <<SubSeq(u, i, (n + 2) - 1)>> \o g[(n + 2) + 1]
          BY <1>g, <2>1, <4>1
        <5> DEFINE y == Append(p, x)
        <5>3. g[i] = <<y>> \o <<>>
          BY <1>g, <4>2, <5>1, <5>2
        <5> HIDE DEF y
        <5>4. g[i] = <<y>>
          BY <5>3
        <5> QED
          BY <5>4 DEF y
      <4> HIDE DEF p
      <4>4. [<<p>> EXCEPT ![Len(<<p>>)] = Append(<<p>>[Len(<<p>>)], x)] = <<Append(p, x)>>
        <5>1. Len(<<p>>) = 1 /\ <<p>>[1] = p
          OBVIOUS
        <5> DEFINE y == Append(p, x)
        <5> HIDE DEF y
        <5>2. [<<p>> EXCEPT ![1] = y] = <<y>>
          OBVIOUS
        <5> QED
          BY <5>1, <5>2 DEF y
      <4>5. g[i] = Grown(f[i], x, sep)
        BY <3>1, <3>5, <4>3, <4>4 DEF Grown
      <4> QED
        BY <2>3, <4>5
    <3> QED
      BY <3>4, <3>5
  <2> QED
    BY <1>0, <2>1, <2>4, <2>5
<1> HIDE DEF S
<1>4. n + 1 \in Int /\ 1 \in Int /\ 1 \in 1 .. n + 1
  BY <1>0
<1>5. \A i \in 1 .. n + 1 : i \in S
  BY ONLY <1>3, <1>4, Backwards
<1>6. 1 \in S
  BY <1>4, <1>5
<1> QED
  BY <1>1, <1>2, <1>6 DEF S, u

\* The empty sequence splits into one empty part.
LEMMA SplitNone == ASSUME NEW sep PROVE Split(<<>>, sep) = << <<>> >>
<1> DEFINE e == SubSeq(<<NL>>, 1, 0)
<1>1. e \in Seq({NL}) /\ Len(e) = 0 /\ e = <<>>
  OBVIOUS
<1> HIDE DEF e
<1>2. PICK f, cut : SplitScan(f, cut, {NL}, e, sep) /\ Split(e, sep) = f[1]
  BY <1>1, SplitRun
<1>3. cut[1] = 1 /\ f[2] = <<>> /\ f[1] = <<SubSeq(e, 1, cut[1] - 1)>> \o f[cut[1] + 1]
  BY <1>1, <1>2 DEF SplitScan
<1>4. SubSeq(e, 1, 0) = <<>>
  BY <1>1
<1>5. 1 - 1 = 0 /\ 1 + 1 = 2
  OBVIOUS
<1>6. f[1] = << <<>> >> \o <<>>
  BY <1>3, <1>4, <1>5
<1> QED
  BY <1>1, <1>2, <1>6

\* A sequence that has an element ends with one.
LEMMA LastOf ==
    ASSUME NEW U, NEW p \in Seq(U), p # <<>>
    PROVE  \E q \in Seq(U), l \in U : p = Append(q, l)
<1> DEFINE n == Len(p)
<1>1. PICK pre : Beginnings(pre, U, p)
  BY PrefixesOf
<1>2. n \in 1 .. n /\ n - 1 \in 0 .. n
  OBVIOUS
<1>3. p[n] \in U
  BY ONLY <1>2, p \in Seq(U), ElementOf
<1>4. pre[n - 1] \in Seq(U) /\ p = Append(pre[n - 1], p[n])
  BY <1>1, <1>2 DEF Beginnings
<1> QED
  BY <1>3, <1>4

\* Joining nothing, and joining one part.
LEMMA JoinFew == ASSUME NEW T, NEW x \in Seq(T), NEW sep PROVE Join(<<>>, sep) = <<>> /\ Join(<<x>>, sep) = x
<1> DEFINE f == [i \in DOMAIN <<x>> |-> IF i = 1 THEN <<x>>[i] ELSE sep \o <<x>>[i]]
           g == [i \in DOMAIN <<>> |-> IF i = 1 THEN <<>>[i] ELSE sep \o <<>>[i]]
<1>1. f = <<x>>
  OBVIOUS
<1>2. g = <<>>
  OBVIOUS
<1>3. Join(<<x>>, sep) = FlattenSeq(f) /\ Join(<<>>, sep) = FlattenSeq(g)
  BY DEF Join
<1> HIDE DEF f, g
<1>4. FlattenSeq(<<>>) = <<>> /\ FlattenSeq(<<x>>) = x
  BY ONLY x \in Seq(T), FlattenFew
<1> QED
  BY <1>1, <1>2, <1>3, <1>4

\* Joining one more part puts the separator and the part behind the others.
LEMMA JoinAppend ==
    ASSUME NEW T, NEW p \in Parts(T), NEW x \in Seq(T), NEW sep \in Seq(T)
    PROVE  /\ Join(p, sep) \in Seq(T)
           /\ Join(Append(p, x), sep) = (Join(p, sep) \o sep) \o x
<1> DEFINE U == Seq(T)
           y == sep \o x
           z == Append(p, x)
           f == [i \in DOMAIN p |-> IF i = 1 THEN p[i] ELSE sep \o p[i]]
           g == [i \in DOMAIN z |-> IF i = 1 THEN z[i] ELSE sep \o z[i]]
           h == Append(f, y)
<1>1. p \in Seq(U) /\ Len(p) \in Nat /\ Len(p) # 0 /\ y \in U
  <2>1. y \in U
    OBVIOUS
  <2> HIDE DEF U, y
  <2> QED
    BY <2>1 DEF Parts, U
<1>2. ASSUME NEW i \in 1 .. Len(p) PROVE (IF i = 1 THEN p[i] ELSE sep \o p[i]) \in U
  <2>1. p[i] \in Seq(T)
    <3> HIDE DEF U
    <3>1. p[i] \in U
      BY <1>1
    <3> QED
      BY <3>1 DEF U
  <2> QED
    BY <2>1
<1>3. f \in Seq(U) /\ Len(f) = Len(p) /\ \A i \in 1 .. Len(p) : f[i] = IF i = 1 THEN p[i] ELSE sep \o p[i]
  <2>1. f \in [1 .. Len(p) -> U]
    <3> HIDE DEF U
    <3> QED
      BY <1>1, <1>2
  <2> HIDE DEF U
  <2> QED
    BY <1>1, <2>1
<1>4. z \in Seq(U) /\ Len(z) = Len(p) + 1 /\ z[Len(p) + 1] = x /\ \A i \in 1 .. Len(p) : z[i] = p[i]
  <2>1. x \in U
    OBVIOUS
  <2> HIDE DEF U
  <2> QED
    BY <1>1, <2>1
<1>5. g = [i \in 1 .. Len(p) + 1 |-> IF i = 1 THEN z[i] ELSE sep \o z[i]]
  <2> HIDE DEF U, z
  <2> QED
    BY <1>1, <1>4
<1>6. h \in Seq(U) /\ Len(h) = Len(p) + 1 /\ h[Len(p) + 1] = y /\ \A i \in 1 .. Len(p) : h[i] = f[i]
  <2> HIDE DEF U, f, y
  <2> QED
    BY <1>1, <1>3
<1> HIDE DEF z, f, h
<1>7. ASSUME NEW i \in 1 .. Len(p) + 1 PROVE g[i] = h[i]
  <2>1. CASE i \in 1 .. Len(p)
    <3>1. z[i] = p[i] /\ h[i] = f[i] /\ f[i] = IF i = 1 THEN p[i] ELSE sep \o p[i]
      BY <1>3, <1>4, <1>6, <2>1
    <3>2. g[i] = IF i = 1 THEN z[i] ELSE sep \o z[i]
      BY <1>5
    <3> QED
      BY <3>1, <3>2
  <2>2. CASE i = Len(p) + 1
    <3>1. i # 1
      BY <1>1, <2>2
    <3>2. g[i] = sep \o z[i]
      BY <1>5, <3>1
    <3> QED
      BY <1>4, <1>6, <2>2, <3>2 DEF y
  <2> QED
    BY <1>1, <2>1, <2>2
<1>8. g = h
  <2>1. h = [i \in 1 .. Len(p) + 1 |-> h[i]]
    <3> HIDE DEF U
    <3> QED
      BY <1>1, <1>6
  <2>2. g = [i \in 1 .. Len(p) + 1 |-> g[i]]
    BY <1>5
  <2> HIDE DEF g
  <2> QED
    BY <1>7, <2>1, <2>2
<1>9. Join(z, sep) = FlattenSeq(g) /\ Join(p, sep) = FlattenSeq(f)
  BY DEF Join, f
<1>10. FlattenSeq(h) = FlattenSeq(f) \o y
  BY <1>1, <1>3, FlattenAppend DEF h
<1>11. FlattenSeq(f) \in Seq(T)
  BY <1>3, FlattenSequence
<1>12. FlattenSeq(f) \o (sep \o x) = (FlattenSeq(f) \o sep) \o x
  BY <1>11, Assoc
<1> QED
  BY <1>8, <1>9, <1>10, <1>11, <1>12 DEF z

\* Joining undoes what growing the parts did.
LEMMA JoinGrown ==
    ASSUME NEW T, NEW p \in Parts(T), NEW e \in T, NEW x \in T
    PROVE  Join(Grown(p, x, e), <<e>>) = Append(Join(p, <<e>>), x)
<1> DEFINE U == Seq(T)
<1>0. p \in Seq(U) /\ p # <<>> /\ <<e>> \in Seq(T) /\ <<>> \in Seq(T)
  BY DEF Parts
<1>1. CASE x = e
  <2>1. Join(p, <<e>>) \in Seq(T) /\ Join(Append(p, <<>>), <<e>>) = (Join(p, <<e>>) \o <<e>>) \o <<>>
    BY <1>0, JoinAppend
  <2> DEFINE j == Join(p, <<e>>)
  <2> HIDE DEF j
  <2>2. (j \o <<e>>) \o <<>> = Append(j, e)
    BY <2>1 DEF j
  <2> QED
    BY <1>1, <2>1, <2>2 DEF Grown, j
<1>2. CASE x # e
  <2> HIDE DEF U
  <2>1. PICK q \in Seq(U), l \in U : p = Append(q, l)
    BY ONLY <1>0, LastOf
  <2> DEFINE m == Append(l, x)
  <2>2. l \in Seq(T) /\ m \in Seq(T) /\ m \in U
    BY <2>1 DEF U
  <2>3. Len(p) = Len(q) + 1 /\ p[Len(p)] = l /\ Len(q) \in Nat
    BY <2>1
  <2>4. Grown(p, x, e) = Append(q, m)
    <3>1. Grown(p, x, e) = [p EXCEPT ![Len(q) + 1] = m]
      BY <1>2, <2>3 DEF Grown
    <3> HIDE DEF m
    <3>2. [Append(q, l) EXCEPT ![Len(q) + 1] = m] = Append(q, m)
      <4> DEFINE a == Append(q, l)
                 b == Append(q, m)
      <4>1. /\ a \in Seq(U) /\ Len(a) = Len(q) + 1 /\ b \in Seq(U) /\ Len(b) = Len(q) + 1
            /\ b[Len(q) + 1] = m /\ \A i \in 1 .. Len(q) : a[i] = q[i] /\ b[i] = q[i]
        BY <2>1, <2>2
      <4> HIDE DEF a, b
      <4> DEFINE z == [a EXCEPT ![Len(q) + 1] = m]
      <4>2. z \in Seq(U) /\ Len(z) = Len(a) /\ z[Len(q) + 1] = m /\ \A i \in 1 .. Len(q) : z[i] = a[i]
        BY <2>2, <2>3, <4>1
      <4> HIDE DEF z
      <4>3. ASSUME NEW i \in 1 .. Len(z) PROVE z[i] = b[i]
        <5>1. i \in 1 .. Len(q) \/ i = Len(q) + 1
          BY <2>3, <4>1, <4>2
        <5> QED
          BY <4>1, <4>2, <5>1
      <4>4. Len(z) = Len(b)
        BY <4>1, <4>2
      <4>5. z = b
        BY ONLY <4>1, <4>2, <4>3, <4>4, SameSequence
      <4> QED
        BY <4>5 DEF a, b, z
    <3> QED
      BY <2>1, <3>1, <3>2
  <2>5. CASE q = <<>>
    <3>1. p = <<l>>
      BY <2>1, <2>5
    <3> HIDE DEF m
    <3>2. Append(q, m) = <<m>>
      BY <2>5
    <3>3. Join(<<l>>, <<e>>) = l
      BY ONLY <2>2, JoinFew
    <3>4. Join(<<m>>, <<e>>) = m
      BY ONLY <2>2, JoinFew
    <3> QED
      BY <2>4, <3>1, <3>2, <3>3, <3>4 DEF m
  <2>6. CASE q # <<>>
    <3>1. q \in Parts(T)
      BY <2>1, <2>6 DEF Parts, U
    <3>2. Join(q, <<e>>) \in Seq(T)
      BY <1>0, <3>1, JoinAppend
    <3>3. Join(Append(q, l), <<e>>) = (Join(q, <<e>>) \o <<e>>) \o l
      BY ZenonT(40), <1>0, <2>2, <3>1, JoinAppend
    <3>4. Join(Append(q, m), <<e>>) = (Join(q, <<e>>) \o <<e>>) \o m
      BY <1>0, <2>2, <3>1, JoinAppend
    <3> DEFINE j == Join(q, <<e>>) \o <<e>>
    <3>5. j \in Seq(T)
      BY <1>0, <3>2
    <3> HIDE DEF j
    <3>6. j \o m = Append(j \o l, x)
      BY <2>2, <3>5, ConcatAppend DEF m
    <3> QED
      BY <2>1, <2>4, <3>3, <3>4, <3>6 DEF j
  <2> QED
    BY <2>5, <2>6
<1> QED
  BY <1>1, <1>2

\* Joining the parts of a text gives the text.
LEMMA JoinSplit == ASSUME NEW T, NEW s \in Seq(T), NEW e \in T PROVE Join(Split(s, e), <<e>>) = s
<1> DEFINE P == {v \in Seq(T) : Join(Split(v, e), <<e>>) = v}
<1>0. <<>> \in Seq(T)
  OBVIOUS
<1>1. <<>> \in P
  <2>1. Split(<<>>, e) = << <<>> >>
    BY SplitNone
  <2>2. Join(<< <<>> >>, <<e>>) = <<>>
    BY ONLY <1>0, JoinFew
  <2> QED
    BY <1>0, <2>1, <2>2
<1>2. ASSUME NEW v \in Seq(T), NEW x \in T, v \in P PROVE Append(v, x) \in P
  <2>1. Split(Append(v, x), e) = Grown(Split(v, e), x, e) /\ Split(v, e) \in Parts(T)
    BY SplitAppend
  <2>2. Join(Grown(Split(v, e), x, e), <<e>>) = Append(Join(Split(v, e), <<e>>), x)
    BY <2>1, JoinGrown
  <2>3. Join(Split(v, e), <<e>>) = v
    BY <1>2
  <2> QED
    BY <2>1, <2>2, <2>3
<1> HIDE DEF P
<1>3. s \in P
  BY ONLY <1>1, <1>2, s \in Seq(T), SeqInduction
<1> QED
  BY <1>3 DEF P

Free(x, e) == \A i \in 1 .. Len(x) : x[i] # e

\* A text behind a separator splits by itself.
LEMMA SplitConcat ==
    ASSUME NEW T, NEW s \in Seq(T), NEW e \in T, NEW t \in Seq(T)
    PROVE  Split(Append(s, e) \o t, e) = Split(s, e) \o Split(t, e)
<1> DEFINE a == Append(s, e)
           P == {v \in Seq(T) : Split(a \o v, e) = Split(s, e) \o Split(v, e)}
<1>0. <<>> \in Seq(T) /\ a \in Seq(T)
  OBVIOUS
<1>a. Split(s, e) \in Parts(T) /\ Split(s, e) \in Seq(Seq(T))
  BY SplitAppend DEF Parts
<1>1. <<>> \in P
  <2>1. a \o <<>> = a
    BY <1>0
  <2>2. Split(a, e) = Grown(Split(s, e), e, e)
    BY SplitAppend
  <2>3. Split(<<>>, e) = << <<>> >>
    BY SplitNone
  <2> DEFINE p == Split(s, e)
  <2> HIDE DEF p
  <2>4. Append(p, <<>>) = p \o << <<>> >>
    BY <1>a DEF p
  <2> HIDE DEF a
  <2> QED
    BY <1>0, <2>1, <2>2, <2>3, <2>4 DEF Grown, p
<1>2. ASSUME NEW v \in Seq(T), NEW x \in T, v \in P PROVE Append(v, x) \in P
  <2>1. a \o Append(v, x) = Append(a \o v, x) /\ a \o v \in Seq(T)
    BY <1>0
  <2> HIDE DEF a
  <2>2. Split(Append(a \o v, x), e) = Grown(Split(a \o v, e), x, e)
    BY ZenonT(40), <2>1, SplitAppend
  <2>3. Split(Append(v, x), e) = Grown(Split(v, e), x, e) /\ Split(v, e) \in Parts(T)
    BY SplitAppend
  <2>4. Split(a \o v, e) = Split(s, e) \o Split(v, e)
    BY <1>2
  <2>5. Grown(Split(s, e) \o Split(v, e), x, e) = Split(s, e) \o Grown(Split(v, e), x, e)
    BY <1>a, <2>3, GrownBehind
  <2>6. Split(a \o Append(v, x), e) = Split(s, e) \o Split(Append(v, x), e)
    BY <2>1, <2>2, <2>3, <2>4, <2>5
  <2>7. Append(v, x) \in Seq(T)
    OBVIOUS
  <2> QED
    BY <2>6, <2>7
<1> HIDE DEF P
<1>3. t \in P
  BY ONLY <1>1, <1>2, t \in Seq(T), SeqInduction
<1> QED
  BY <1>3 DEF P

\* A text without a separator is its only part.
LEMMA SplitWhole == ASSUME NEW T, NEW s \in Seq(T), NEW e, Free(s, e) PROVE Split(s, e) = <<s>>
<1> DEFINE P == {v \in Seq(T) : Free(v, e) => Split(v, e) = <<v>>}
<1>1. <<>> \in P
  <2>1. <<>> \in Seq(T)
    OBVIOUS
  <2> QED
    BY <2>1, SplitNone
<1>2. ASSUME NEW v \in Seq(T), NEW x \in T, v \in P PROVE Append(v, x) \in P
  <2> DEFINE u == Append(v, x)
  <2>1. u \in Seq(T) /\ Len(u) = Len(v) + 1 /\ Len(v) \in Nat /\ u[Len(v) + 1] = x /\ \A i \in 1 .. Len(v) : u[i] = v[i]
    OBVIOUS
  <2>2. Split(u, e) = Grown(Split(v, e), x, e)
    BY SplitAppend
  <2> HIDE DEF u
  <2>3. ASSUME Free(u, e) PROVE Split(u, e) = <<u>>
    <3>1. \A i \in 1 .. Len(v) : i \in 1 .. Len(u)
      BY <2>1
    <3>2. Len(v) + 1 \in 1 .. Len(u)
      BY <2>1
    <3>3. Free(v, e) /\ x # e
      BY <2>1, <2>3, <3>1, <3>2 DEF Free
    <3>4. Split(v, e) = <<v>>
      BY <1>2, <3>3
    <3>5. Grown(<<v>>, x, e) = <<Append(v, x)>>
      <4>1. Len(<<v>>) = 1 /\ <<v>>[1] = v
        OBVIOUS
      <4> DEFINE y == Append(v, x)
      <4> HIDE DEF y
      <4>2. [<<v>> EXCEPT ![1] = y] = <<y>>
        OBVIOUS
      <4> QED
        BY <3>3, <4>1, <4>2 DEF Grown, y
    <3> QED
      BY <2>2, <3>4, <3>5 DEF u
  <2> QED
    BY <2>1, <2>3 DEF u
<1> HIDE DEF P
<1>3. s \in P
  BY ONLY <1>1, <1>2, s \in Seq(T), SeqInduction
<1> QED
  BY <1>3 DEF P

\* Parts without a separator, joined, split into these parts.
LEMMA SplitJoin ==
    ASSUME NEW T, NEW p \in Parts(T), NEW e \in T, \A i \in 1 .. Len(p) : Free(p[i], e)
    PROVE  Split(Join(p, <<e>>), e) = p
<1> DEFINE U == Seq(T)
           P == {v \in Seq(U) : v # <<>> /\ (\A i \in 1 .. Len(v) : Free(v[i], e)) => Split(Join(v, <<e>>), e) = v}
<1>0. p \in Seq(U) /\ p # <<>> /\ <<e>> \in Seq(T)
  BY DEF Parts
<1>1. <<>> \in P
  OBVIOUS
<1>2. ASSUME NEW v \in Seq(U), NEW x \in U, v \in P PROVE Append(v, x) \in P
  <2> DEFINE u == Append(v, x)
  <2>0. x \in Seq(T)
    OBVIOUS
  <2>1. u \in Seq(U) /\ Len(u) = Len(v) + 1 /\ Len(v) \in Nat /\ u[Len(v) + 1] = x /\ \A i \in 1 .. Len(v) : u[i] = v[i]
    <3> HIDE DEF U
    <3> QED
      OBVIOUS
  <2> HIDE DEF u
  <2>3. ASSUME \A i \in 1 .. Len(u) : Free(u[i], e) PROVE Split(Join(u, <<e>>), e) = u
    <3>1. \A i \in 1 .. Len(v) : i \in 1 .. Len(u)
      BY <2>1
    <3>2. Len(v) + 1 \in 1 .. Len(u)
      BY <2>1
    <3>3. (\A i \in 1 .. Len(v) : Free(v[i], e)) /\ Free(x, e)
      <4> HIDE DEF U
      <4> QED
        BY <2>1, <2>3, <3>1, <3>2
    <3>4. Split(x, e) = <<x>>
      BY <2>0, <3>3, SplitWhole
    <3>5. CASE v = <<>>
      <4>1. u = <<x>>
        BY <3>5 DEF u
      <4>2. Join(<<x>>, <<e>>) = x
        BY ONLY <2>0, JoinFew
      <4> QED
        BY <3>4, <4>1, <4>2
    <3>6. CASE v # <<>>
      <4> DEFINE j == Join(v, <<e>>)
      <4>1. v \in Parts(T)
        BY <3>6 DEF Parts
      <4>2. j \in Seq(T)
        BY <1>0, <2>0, <4>1, JoinAppend
      <4>3. Join(Append(v, x), <<e>>) = (j \o <<e>>) \o x
        BY <1>0, <2>0, <4>1, JoinAppend
      <4>4. Split(j, e) = v
        BY <1>2, <3>3, <3>6
      <4> HIDE DEF j
      <4>5. j \o <<e>> = Append(j, e)
        BY <4>2
      <4>6. Split(Append(j, e) \o x, e) = Split(j, e) \o Split(x, e)
        BY <2>0, <4>2, SplitConcat
      <4>7. v \o <<x>> = Append(v, x)
        <5> HIDE DEF U
        <5> QED
          OBVIOUS
      <4> QED
        BY <3>4, <4>3, <4>4, <4>5, <4>6, <4>7 DEF u
    <3> QED
      BY <3>5, <3>6
  <2>4. u \in P
    <3> HIDE DEF U
    <3> QED
      BY <2>1, <2>3
  <2> QED
    BY <2>4 DEF u
<1> HIDE DEF P, U
<1>3. p \in P
  BY ONLY <1>0, <1>1, <1>2, SeqInduction
<1> QED
  BY <1>0, <1>3 DEF P

\* No part has a separator.
LEMMA SplitFree ==
    ASSUME NEW T, NEW s \in Seq(T), NEW e
    PROVE  \A i \in 1 .. Len(Split(s, e)) : Free(Split(s, e)[i], e)
<1> DEFINE U == Seq(T)
           P == {v \in Seq(T) : \A i \in 1 .. Len(Split(v, e)) : Free(Split(v, e)[i], e)}
<1>1. <<>> \in P
  <2>1. Split(<<>>, e) = << <<>> >>
    BY SplitNone
  <2>2. \A i \in 1 .. Len(<< <<>> >>) : Free(<< <<>> >>[i], e)
    <3>1. Len(<< <<>> >>) = 1 /\ << <<>> >>[1] = <<>> /\ Len(<<>>) = 0
      OBVIOUS
    <3> QED
      BY <3>1 DEF Free
  <2>3. <<>> \in Seq(T)
    OBVIOUS
  <2> QED
    BY <2>1, <2>2, <2>3
<1>2. ASSUME NEW v \in Seq(T), NEW x \in T, v \in P PROVE Append(v, x) \in P
  <2> DEFINE p == Split(v, e)
             g == Grown(p, x, e)
             m == Append(p[Len(p)], x)
  <2>1. Split(Append(v, x), e) = g /\ p \in Parts(T)
    BY SplitAppend
  <2>2. p \in Seq(U) /\ Len(p) \in Nat /\ Len(p) \in 1 .. Len(p)
    <3>1. p \in Seq(U) /\ p # <<>>
      BY <2>1 DEF Parts
    <3> HIDE DEF U, p
    <3> QED
      BY <3>1
  <2>3. \A i \in 1 .. Len(p) : Free(p[i], e)
    BY <1>2
  <2>4. p[Len(p)] \in Seq(T)
    BY <2>2, ElementOf
  <2> HIDE DEF p
  <2>5. CASE x = e
    <3>1. g = Append(p, <<>>)
      BY <2>5 DEF Grown
    <3>2. Len(g) = Len(p) + 1 /\ g[Len(p) + 1] = <<>> /\ \A i \in 1 .. Len(p) : g[i] = p[i]
      <4> DEFINE z == <<>>
      <4>1. z \in U
        OBVIOUS
      <4> HIDE DEF U, z
      <4>2. g = Append(p, z)
        BY <3>1 DEF z
      <4> HIDE DEF g
      <4> QED
        BY <2>2, <4>1, <4>2 DEF z
    <3>3. Free(<<>>, e)
      BY DEF Free
    <3> HIDE DEF g
    <3>4. ASSUME NEW i \in 1 .. Len(g) PROVE Free(g[i], e)
      <4>1. i \in 1 .. Len(p) \/ i = Len(p) + 1
        BY <2>2, <3>2
      <4> QED
        BY <2>3, <3>2, <3>3, <4>1
    <3> QED
      BY <2>1, <3>4
  <2>6. CASE x # e
    <3>1. g = [p EXCEPT ![Len(p)] = m]
      BY <2>6 DEF Grown
    <3>2. m \in U /\ Free(m, e)
      <4>1. m \in Seq(T) /\ Len(m) = Len(p[Len(p)]) + 1 /\ m[Len(m)] = x
            /\ \A i \in 1 .. Len(p[Len(p)]) : m[i] = p[Len(p)][i]
        BY <2>4
      <4>2. Free(p[Len(p)], e)
        BY <2>2, <2>3
      <4>3. Len(p[Len(p)]) \in Nat
        BY <2>4
      <4> HIDE DEF m
      <4>4. ASSUME NEW i \in 1 .. Len(m) PROVE m[i] # e
        <5>1. i \in 1 .. Len(p[Len(p)]) \/ i = Len(m)
          BY <4>1, <4>3
        <5> QED
          BY <2>6, <4>1, <4>2, <5>1 DEF Free
      <4> QED
        BY <4>1, <4>4 DEF Free
    <3> HIDE DEF m, g, U
    <3>3. Len(g) = Len(p) /\ g[Len(p)] = m /\ \A i \in 1 .. Len(p) : i # Len(p) => g[i] = p[i]
      BY <2>2, <3>1, <3>2
    <3>4. ASSUME NEW i \in 1 .. Len(g) PROVE Free(g[i], e)
      <4>1. i = Len(p) \/ (i # Len(p) /\ i \in 1 .. Len(p))
        BY <3>3
      <4> QED
        BY <2>3, <3>2, <3>3, <4>1
    <3> QED
      BY <2>1, <3>4
  <2> QED
    BY <2>5, <2>6
<1> HIDE DEF P
<1>3. s \in P
  BY ONLY <1>1, <1>2, s \in Seq(T), SeqInduction
<1> QED
  BY <1>3 DEF P

core  == [t \in Text |-> Core(t)]
words == [t \in Text |-> WordsOf(t)]

\* The cores and the words of texts, as functions on the texts.
LEMMA TextsAre ==
    /\ core \in [Text -> Seq(Atoms)] /\ words \in [Text -> Seq(Atoms)]
    /\ \A t \in Text : core[t] = Core(t) /\ words[t] = WordsOf(t)
<1>1. ASSUME NEW t \in Text PROVE Core(t) \in Seq(Atoms) /\ WordsOf(t) \in Seq(Atoms)
  <2>1. <<>> \in Text
    BY DEF Text
  <2>2. WordsOf(t) \in Text
    BY <2>1, WordsConcat
  <2> QED
    BY <2>2, CoreText DEF Text
<1> QED
  BY <1>1 DEF core, words

\* Sequences whose elements have the same pieces, place by place, spell the same.
LEMMA SpelledSame ==
    ASSUME NEW S, NEW g, NEW s \in Seq(S), NEW t \in Seq(S), Len(s) = Len(t), \A i \in 1 .. Len(s) : g[s[i]] = g[t[i]]
    PROVE  Spelled(g, s) = Spelled(g, t)
<1>1. [i \in DOMAIN s |-> g[s[i]]] = [i \in DOMAIN t |-> g[t[i]]]
  OBVIOUS
<1> QED
  BY <1>1 DEF Spelled

\* The lines of a text are texts without a newline, at least one, and make the text again.
LEMMA LinesOf ==
    ASSUME NEW t \in Text
    PROVE  /\ Lines(t) \in Parts(Atoms) /\ Lines(t) \in Seq(Text)
           /\ \A i \in 1 .. Len(Lines(t)) : Free(Lines(t)[i], NL)
           /\ FromLines(Lines(t)) = t
<1>1. t \in Seq(Atoms) /\ NL \in Atoms
  BY SomeTexts DEF Text
<1>2. Split(t, NL) \in Parts(Atoms)
  BY <1>1, SplitAppend
<1>3. \A i \in 1 .. Len(Split(t, NL)) : Free(Split(t, NL)[i], NL)
  BY <1>1, SplitFree
<1>4. Join(Split(t, NL), <<NL>>) = t
  BY <1>1, JoinSplit
<1> QED
  BY <1>2, <1>3, <1>4 DEF Lines, FromLines, Parts, Text

\* Lines without a newline in them come back from the text they make.
LEMMA LinesBack ==
    ASSUME NEW ls \in Seq(Text), ls # <<>>, \A i \in 1 .. Len(ls) : Free(ls[i], NL)
    PROVE  Lines(FromLines(ls)) = ls
<1>1. ls \in Parts(Atoms) /\ NL \in Atoms
  BY SomeTexts DEF Parts, Text
<1>2. Split(Join(ls, <<NL>>), NL) = ls
  BY <1>1, SplitJoin
<1> QED
  BY <1>2 DEF Lines, FromLines

Breaks == {<<NL>>, <<NL, NL>>, <<FF>>}

\* What pages and lines are joined with is a line end, or the same one twice.
LEMMA BreaksAre ==
    ASSUME NEW b \in Breaks
    PROVE  /\ b \in Text
           /\ \E e \in LineEnds : b = <<e>> \/ b = Append(<<e>>, e)
<1>1. <<NL, NL>> = Append(<<NL>>, NL)
  OBVIOUS
<1>2. NL \in LineEnds /\ FF \in LineEnds /\ FF \in Atoms /\ NL \in Atoms
  BY LettersAre, SomeTexts DEF LineEnds, Atoms, Whitespace
<1>3. <<NL>> \in Text /\ <<FF>> \in Text /\ <<NL, NL>> \in Text
  BY <1>2 DEF Text
<1> QED
  BY <1>1, <1>2, <1>3 DEF Breaks

\* A break closes the core in front of it: the two sides have their cores side by side.
LEMMA CoreBreak ==
    ASSUME NEW s \in Text, NEW b \in Breaks, NEW t \in Text
    PROVE  Core((s \o b) \o t) = Core(s) \o Core(t)
<1>1. PICK e \in LineEnds : b = <<e>> \/ b = Append(<<e>>, e)
  BY BreaksAre
<1> DEFINE a == Append(s, e)
<1>2. a \in Text /\ s \in Seq(Atoms) /\ e \in Atoms
  BY LettersAre DEF Text
<1>3. a = s \o <<e>> /\ Append(a, e) = s \o Append(<<e>>, e)
  BY <1>2
<1>4. Core(a \o t) = Core(s) \o Core(t)
  BY CoreConcat
<1>5. Core(Append(a, e) \o t) = Core(a) \o Core(t)
  BY <1>2, CoreConcat
<1>6. Core(a) = Core(s)
  <2>1. <<>> \in Text
    BY DEF Text
  <2>2. Core(a \o <<>>) = Core(s) \o Core(<<>>)
    BY <2>1, CoreConcat
  <2>3. a \o <<>> = a
    BY <1>2 DEF Text
  <2>4. Core(s) \o <<>> = Core(s)
    BY CoreText DEF Text
  <2> HIDE DEF a
  <2> QED
    BY <2>2, <2>3, <2>4, CoreNone
<1> QED
  BY <1>1, <1>3, <1>4, <1>5, <1>6

\* The core of texts that are joined.
LEMMA CoreJoin ==
    ASSUME NEW ls \in Seq(Text), NEW b \in Breaks
    PROVE  Core(Join(ls, b)) = Spelled(core, ls) /\ Join(ls, b) \in Text
<1> DEFINE P == {v \in Seq(Text) : Core(Join(v, b)) = Spelled(core, v) /\ Join(v, b) \in Text}
<1>0. b \in Text /\ b \in Seq(Atoms) /\ <<>> \in Text
  BY BreaksAre DEF Text
<1>1. <<>> \in P
  <2>1. Join(<<>>, b) = <<>>
    BY ONLY <1>0, JoinFew
  <2>2. Spelled(core, <<>>) = <<>>
    BY TextsAre, SpelledNone
  <2>3. <<>> \in Seq(Text)
    OBVIOUS
  <2> QED
    BY <1>0, <2>1, <2>2, <2>3, CoreNone
<1>2. ASSUME NEW v \in Seq(Text), NEW x \in Text, v \in P PROVE Append(v, x) \in P
  <2>1. Spelled(core, Append(v, x)) = Spelled(core, v) \o core[x]
    BY TextsAre, SpelledAppend
  <2>2. core[x] = Core(x) /\ Core(x) \in Seq(Atoms) /\ x \in Seq(Atoms)
    BY TextsAre, CoreText DEF Text
  <2>3. Append(v, x) \in Seq(Text)
    OBVIOUS
  <2>4. CASE v = <<>>
    <3>1. Append(v, x) = <<x>>
      BY <2>4
    <3>2. Join(<<x>>, b) = x
      BY ONLY <2>2, JoinFew
    <3>3. Spelled(core, <<>>) = <<>>
      BY TextsAre, SpelledNone
    <3>4. <<>> \o Core(x) = Core(x)
      BY <2>2
    <3>5. Spelled(core, Append(v, x)) = Core(x)
      BY <2>1, <2>2, <2>4, <3>3, <3>4
    <3> QED
      BY <2>3, <3>1, <3>2, <3>5
  <2>5. CASE v # <<>>
    <3>1. v \in Parts(Atoms)
      BY <2>5 DEF Parts, Text
    <3>2. Join(Append(v, x), b) = (Join(v, b) \o b) \o x
      BY <1>0, <2>2, <3>1, JoinAppend
    <3>3. Core(Join(v, b)) = Spelled(core, v) /\ Join(v, b) \in Text
      BY <1>2
    <3>4. Core((Join(v, b) \o b) \o x) = Core(Join(v, b)) \o Core(x)
      BY <3>3, CoreBreak
    <3>5. (Join(v, b) \o b) \o x \in Text
      BY <1>0, <3>3, ConcatText
    <3> QED
      BY <2>1, <2>2, <2>3, <3>2, <3>3, <3>4, <3>5
  <2> QED
    BY <2>4, <2>5
<1> HIDE DEF P
<1>3. ls \in P
  BY ONLY <1>1, <1>2, ls \in Seq(Text), SeqInduction
<1> QED
  BY <1>3 DEF P

\* The core of a text made of lines is the cores of its lines.
LEMMA CoreLines == ASSUME NEW ls \in Seq(Text) PROVE Core(FromLines(ls)) = Spelled(core, ls) /\ FromLines(ls) \in Text
BY CoreJoin DEF FromLines, Breaks

\* The core of a text is the cores of its lines.
LEMMA CoreOfLines == ASSUME NEW t \in Text PROVE Core(t) = Spelled(core, Lines(t))
<1>1. Lines(t) \in Seq(Text) /\ FromLines(Lines(t)) = t
  BY LinesOf
<1>2. Core(FromLines(Lines(t))) = Spelled(core, Lines(t))
  BY <1>1, CoreLines
<1> QED
  BY <1>1, <1>2

\* The words of a core are those of the texts.
LEMMA WordsOfCores ==
    ASSUME NEW ls \in Seq(Text)
    PROVE  WordsOf(Spelled(core, ls)) = Spelled(words, ls) /\ Spelled(core, ls) \in Text
<1> DEFINE P == {v \in Seq(Text) : WordsOf(Spelled(core, v)) = Spelled(words, v) /\ Spelled(core, v) \in Text}
<1>1. <<>> \in P
  <2>1. Spelled(core, <<>>) = <<>> /\ Spelled(words, <<>>) = <<>>
    BY TextsAre, SpelledNone
  <2>2. <<>> \in Seq(Text) /\ <<>> \in Text
    BY DEF Text
  <2>3. WordsOf(<<>>) = Spelled(word, <<>>)
    BY <2>2, WordsAre
  <2>4. Spelled(word, <<>>) = <<>>
    BY LettersAre, SpelledNone
  <2> QED
    BY <2>1, <2>2, <2>3, <2>4
<1>2. ASSUME NEW v \in Seq(Text), NEW x \in Text, v \in P PROVE Append(v, x) \in P
  <2>1. Spelled(core, Append(v, x)) = Spelled(core, v) \o core[x]
    BY TextsAre, SpelledAppend
  <2>2. Spelled(words, Append(v, x)) = Spelled(words, v) \o words[x]
    BY TextsAre, SpelledAppend
  <2>3. core[x] = Core(x) /\ Core(x) \in Text /\ words[x] = WordsOf(x) /\ WordsOf(Core(x)) = WordsOf(x)
    BY TextsAre, CoreText, CoreWords
  <2>4. WordsOf(Spelled(core, v)) = Spelled(words, v) /\ Spelled(core, v) \in Text
    BY <1>2
  <2>5. WordsOf(Spelled(core, v) \o Core(x)) = WordsOf(Spelled(core, v)) \o WordsOf(Core(x))
    BY <2>3, <2>4, WordsConcat
  <2>6. Append(v, x) \in Seq(Text) /\ Spelled(core, v) \o Core(x) \in Text
    BY <2>3, <2>4, ConcatText
  <2> QED
    BY <2>1, <2>2, <2>3, <2>4, <2>5, <2>6
<1> HIDE DEF P
<1>3. ls \in P
  BY ONLY <1>1, <1>2, ls \in Seq(Text), SeqInduction
<1> QED
  BY <1>3 DEF P

\* The words of a text made of lines are the words of its lines.
LEMMA WordsOfLines == ASSUME NEW ls \in Seq(Text) PROVE WordsOf(FromLines(ls)) = Spelled(words, ls)
<1>1. Core(FromLines(ls)) = Spelled(core, ls) /\ FromLines(ls) \in Text
  BY CoreLines
<1>2. WordsOf(Core(FromLines(ls))) = WordsOf(FromLines(ls))
  BY <1>1, CoreWords
<1> QED
  BY <1>1, <1>2, WordsOfCores

-----------------------------------------------------------------------------
(* What the steps of the cleaning do to the gist of a text.                 *)

\* Every atom of t is one of N.
Only(t, N) == \A i \in 1 .. Len(t) : t[i] \in N

\* A text with letters of N alone, said by its range or by its positions.
LEMMA OnlyRange == ASSUME NEW t \in Text, NEW N PROVE (Range(t) \subseteq N) <=> Only(t, N)
BY DEF Range, Only, Text

\* A text cut in two is its halves side by side.
LEMMA CutAt ==
    ASSUME NEW t \in Text, NEW n \in 0 .. Len(t)
    PROVE  /\ Slice(t, 0, n) \in Text /\ Slice(t, n, Len(t)) \in Text
           /\ t = Slice(t, 0, n) \o Slice(t, n, Len(t))
<1>1. n \in Nat /\ n <= Len(t) /\ 0 \in Nat /\ Len(t) \in Nat /\ 0 <= n /\ t \in Seq(Atoms) /\ Len(t) <= Len(t)
  BY DEF Text
<1>2. Slice(t, 0, n) \o Slice(t, n, Len(t)) = Slice(t, 0, Len(t))
  BY <1>1, SliceConcat
<1>3. Slice(t, 0, n) \in Text /\ Slice(t, n, Len(t)) \in Text
  BY <1>1, SliceOf DEF Text
<1>4. Slice(t, 0, Len(t)) = t
  BY <1>1 DEF Slice
<1> QED
  BY <1>2, <1>3, <1>4

\* What strip() takes away is whitespace on either side.
LEMMA Around ==
    ASSUME NEW t \in Text
    PROVE  \E a, b \in Text : Only(a, Whitespace) /\ Only(b, Whitespace) /\ t = (a \o Strip(t)) \o b
<1>0. t \in Seq(Atoms) /\ <<>> \in Text /\ Len(t) \in Nat
  BY DEF Text
<1>1. CASE InkAt(t) = {}
  <2>1. Strip(t) = <<>>
    BY <1>1 DEF Strip
  <2>2. Only(t, Whitespace) /\ Only(<<>>, Whitespace)
    BY <1>0, <1>1 DEF InkAt, Only
  <2>3. t = (t \o <<>>) \o <<>>
    BY <1>0
  <2> QED
    BY <1>0, <2>1, <2>2, <2>3
<1>2. CASE InkAt(t) # {}
  <2>1. PICK m, k : Inner(Strip(t), t, m, k)
    BY ONLY <1>0, <1>2, StripIs
  <2>2. /\ m \in 1 .. Len(t) /\ k \in 1 .. Len(t) /\ m <= k /\ (\A i \in InkAt(t) : m <= i /\ i <= k)
        /\ Strip(t) = SubSeq(t, m, k)
    BY <2>1 DEF Inner
  <2> DEFINE a == Slice(t, 0, m - 1)
             b == Slice(t, k, Len(t))
  <2>3. /\ m - 1 \in Nat /\ k \in Nat /\ 0 \in Nat /\ m - 1 <= k /\ k <= Len(t) /\ 0 <= m - 1 /\ 0 <= k
        /\ (m - 1) + 1 = m /\ m - 1 <= Len(t) /\ Len(t) <= Len(t)
    BY <1>0, <2>2
  <2>4. a \in Seq(Atoms) /\ Len(a) = m - 1 /\ \A i \in 1 .. m - 1 : a[i] = t[i]
    <3> QED
      BY ONLY <1>0, <2>3 DEF Slice
  <2>5. b \in Seq(Atoms) /\ Len(b) = Len(t) - k /\ \A i \in 1 .. Len(t) - k : b[i] = t[k + i]
    BY <1>0, <2>3, SliceOf
  <2>6. Strip(t) = Slice(t, m - 1, k)
    BY <2>2, <2>3 DEF Slice
  <2>7. Slice(t, 0, m - 1) \o Slice(t, m - 1, k) = Slice(t, 0, k)
    BY <1>0, <2>3, SliceConcat
  <2>8. Slice(t, 0, k) \o Slice(t, k, Len(t)) = Slice(t, 0, Len(t))
    BY <1>0, <2>3, SliceConcat
  <2>9. Slice(t, 0, Len(t)) = t
    BY <1>0 DEF Slice
  <2>10. t = (a \o Strip(t)) \o b
    BY <2>6, <2>7, <2>8, <2>9
  <2> HIDE DEF a, b
  <2>11. Only(a, Whitespace)
    <3>1. ASSUME NEW i \in 1 .. m - 1 PROVE t[i] \in Whitespace
      <4>1. i \in DOMAIN t /\ ~ (m <= i)
        BY <1>0, <2>2, <2>3
      <4> QED
        BY <2>2, <4>1 DEF InkAt
    <3> QED
      BY <2>4, <3>1 DEF Only
  <2>12. Only(b, Whitespace)
    <3>1. ASSUME NEW i \in 1 .. Len(t) - k PROVE t[k + i] \in Whitespace
      <4>1. k + i \in DOMAIN t /\ ~ (k + i <= k)
        BY <1>0, <2>2, <2>3
      <4> QED
        BY <2>2, <4>1 DEF InkAt
    <3> QED
      BY <2>5, <3>1 DEF Only
  <2>13. a \in Text /\ b \in Text
    BY <2>4, <2>5 DEF Text
  <2> QED
    BY <2>10, <2>11, <2>12, <2>13
<1> QED
  BY <1>1, <1>2

\* A stripped text is a text.
LEMMA StripText == ASSUME NEW t \in Text PROVE Strip(t) \in Text
BY StripSequence DEF Text

\* Stripping leaves the core as it was.
LEMMA CoreStrip == ASSUME NEW t \in Text PROVE Core(Strip(t)) = Core(t)
<1>1. PICK a, b \in Text : Only(a, Whitespace) /\ Only(b, Whitespace) /\ t = (a \o Strip(t)) \o b
  BY Around
<1>2. Strip(t) \in Text /\ a \o Strip(t) \in Text
  BY StripText, ConcatText
<1>3. Core((a \o Strip(t)) \o b) = Core(a \o Strip(t))
  BY <1>1, <1>2, CoreTrail DEF Only
<1>4. \A i \in 1 .. Len(a) : a[i] \in Noise
  BY <1>1 DEF Only, Noise
<1>5. Core(a \o Strip(t)) = Core(Strip(t))
  BY <1>2, <1>4, CoreNoise
<1> QED
  BY <1>1, <1>3, <1>5

\* A text of noise has an empty core.
LEMMA CoreOnly == ASSUME NEW t \in Text, Only(t, Noise) PROVE Core(t) = <<>>
<1>1. <<>> \in Text
  BY DEF Text
<1> QED
  BY <1>1, CoreNoise DEF Only

\* A blank text has an empty core.
LEMMA CoreBlank == ASSUME NEW t \in Text, IsBlank(t) PROVE Core(t) = <<>>
<1>1. Only(t, Whitespace)
  BY OnlyRange DEF IsBlank
<1> QED
  BY <1>1, CoreOnly DEF Only, Noise

\* A line that was indented otherwise, or not at all.
LEMMA CoreIndent == ASSUME NEW t \in Text, NEW n \in Nat PROVE Core(Spaces(n) \o t) = Core(t) /\ Spaces(n) \o t \in Text
<1>1. Spaces(n) \in Text
  BY SpacesText
<1>2. \A i \in 1 .. Len(Spaces(n)) : Spaces(n)[i] \in Noise
  BY LettersAre DEF Spaces
<1> QED
  BY <1>1, <1>2, CoreNoise, ConcatText

\* A marker at the head of a line.
LEMMA CoreMarker ==
    ASSUME NEW t \in Text, NEW x \in Noise
    PROVE  Core(<<x>> \o t) = Core(t) /\ <<x>> \o t \in Text
<1>1. x \in Atoms
  BY LettersAre
<1>2. <<x>> \in Text /\ Len(<<x>>) = 1 /\ <<x>>[1] = x
  BY <1>1 DEF Text
<1>3. \A i \in 1 .. Len(<<x>>) : <<x>>[i] \in Noise
  BY <1>2
<1> QED
  BY <1>2, <1>3, CoreNoise, ConcatText

\* A text that starts with a letter of N is that letter and its tail.
LEMMA HeadTail ==
    ASSUME NEW t \in Text, NEW N, StartsWith(t, N)
    PROVE  t = <<Head(t)>> \o Tail(t) /\ Head(t) \in N /\ Tail(t) \in Text
BY DEF StartsWith, Text

\* Taking the indentation away leaves the core as it was.
LEMMA CoreOutdent ==
    ASSUME NEW t \in Text
    PROVE  Core(Outdent(t)) = Core(t) /\ Outdent(t) \in Text /\ Indent(t) \in Nat
<1> DEFINE I == InkAt(t) \cup {Len(t) + 1}
           n == Indent(t)
           a == Slice(t, 0, n)
<1>1. I \in SUBSET (1 .. Len(t) + 1) /\ I # {} /\ 1 \in Int /\ Len(t) + 1 \in Int /\ Len(t) \in Nat
  BY DEF InkAt, Text
<1>2. Indent(t) = Min(I) - 1
  BY DEF Indent
<1>3. \A i \in DOMAIN t : t[i] \notin Whitespace => i \in I
  BY DEF InkAt
<1> HIDE DEF I
<1>4. \A i \in I : Min(I) <= i
  BY ONLY <1>1, MinOf
<1>5. n \in 0 .. Len(t) /\ n \in Nat
  BY IndentOf
<1> HIDE DEF n
<1>6. ASSUME NEW i \in 1 .. n PROVE t[i] \in Noise
  <2>1. i \in DOMAIN t /\ n = Min(I) - 1
    <3>1. DOMAIN t = 1 .. Len(t)
      BY DEF Text
    <3> QED
      BY <1>1, <1>2, <1>5, <3>1 DEF n
  <2>2. n \in Int /\ Min(I) \in Int
    <3>1. Min(I) \in I
      BY ONLY <1>1, MinOf
    <3>2. Min(I) \in 1 .. Len(t) + 1
      BY <1>1, <3>1
    <3> QED
      BY <1>5, <3>2
  <2>3. ~ (Min(I) <= i)
    BY <2>1, <2>2
  <2>4. t[i] \in Whitespace
    BY <1>3, <1>4, <2>1, <2>3
  <2> QED
    BY <2>4 DEF Noise
<1>7. t = a \o Slice(t, n, Len(t)) /\ a \in Text /\ Slice(t, n, Len(t)) \in Text
  BY <1>5, CutAt
<1>8. Slice(t, n, Len(t)) = Outdent(t)
  BY DEF Slice, Outdent, n
<1>9. Len(a) = n /\ \A i \in 1 .. n : a[i] = t[i]
  <2>1. n <= Len(t) /\ t \in Seq(Atoms) /\ Len(t) \in Nat
    BY <1>1, <1>5 DEF Text
  <2> QED
    BY ONLY <1>5, <2>1 DEF Slice
<1> HIDE DEF a
<1>10. \A i \in 1 .. Len(a) : a[i] \in Noise
  BY <1>6, <1>9
<1> QED
  BY <1>5, <1>7, <1>8, <1>10, CoreNoise DEF n

\* One marker for another.
LEMMA CoreMarked ==
    ASSUME NEW t \in Text, NEW N \in SUBSET Noise, StartsWith(Outdent(t), N), NEW n \in Nat
    PROVE  Core(Spaces(n) \o <<"-">> \o Tail(Outdent(t))) = Core(t)
<1> DEFINE o == Outdent(t)
           r == Tail(o)
<1>1. o \in Text /\ Core(o) = Core(t)
  BY CoreOutdent
<1> HIDE DEF o
<1>2. o = <<Head(o)>> \o r /\ Head(o) \in N /\ r \in Text
  BY <1>1, HeadTail DEF o
<1> HIDE DEF r
<1>3. Core(<<Head(o)>> \o r) = Core(r)
  BY <1>2, CoreMarker
<1>4. "-" \in Noise
  BY DEF Noise, Bullets
<1>5. Core(<<"-">> \o r) = Core(r) /\ <<"-">> \o r \in Text
  BY <1>2, <1>4, CoreMarker
<1>6. Core(Spaces(n) \o (<<"-">> \o r)) = Core(<<"-">> \o r)
  BY <1>5, CoreIndent
<1>7. Spaces(n) \o (<<"-">> \o r) = (Spaces(n) \o <<"-">>) \o r
  <2> DEFINE s == Spaces(n)
             d == <<"-">>
  <2>1. s \in Seq(Atoms) /\ d \in Seq(Atoms) /\ r \in Seq(Atoms)
    BY <1>2, SpacesText, SomeTexts DEF Text
  <2> HIDE DEF s, d
  <2>2. s \o (d \o r) = (s \o d) \o r
    BY ONLY <2>1, Assoc
  <2> QED
    BY <2>2 DEF s, d
<1> QED
  BY <1>1, <1>2, <1>3, <1>5, <1>6, <1>7 DEF o, r

\* A bullet character that becomes a dash leaves the core as it was.
LEMMA CoreDotBullet == ASSUME NEW line \in Text PROVE Core(DotBullet(line)) = Core(line)
<1>1. {Dots} \in SUBSET Noise /\ Indent(line) \in Nat
  BY CoreOutdent DEF Noise
<1>2. StartsWith(Outdent(line), {Dots})
      => Core(Spaces(Indent(line)) \o <<"-">> \o Tail(Outdent(line))) = Core(line)
  BY <1>1, CoreMarked
<1> QED
  BY <1>2 DEF DotBullet

\* An asterisk or a plus sign that becomes a dash leaves the core as it was.
LEMMA CoreDashBullet == ASSUME NEW line \in Text PROVE Core(DashBullet(line)) = Core(line)
<1>1. {"*", "+"} \in SUBSET Noise /\ Indent(line) \in Nat
  BY CoreOutdent DEF Noise, Bullets
<1>2. StartsWith(Outdent(line), {"*", "+"})
      => Core(Spaces(Indent(line)) \o <<"-">> \o Tail(Outdent(line))) = Core(line)
  BY <1>1, CoreMarked
<1> QED
  BY <1>2 DEF DashBullet

\* Indenting an item anew, as for MarkItDown's nesting, leaves the core as it was.
LEMMA CoreMarkItDownIndent == ASSUME NEW line \in Text PROVE Core(MarkItDownIndent(line)) = Core(line)
<1> DEFINE t == Outdent(line)
           depth == CASE Head(t) = "+" -> 2
                      [] Head(t) = "-" -> 3
                      [] Head(t) = "*" -> 4
<1>1. MarkItDownIndent(line) = IF Indent(line) = 0 \/ ~StartsWith(t, Bullets) THEN line
                               ELSE Spaces(2 * depth) \o <<"-">> \o Tail(t)
  BY DEF MarkItDownIndent
<1>2. ASSUME StartsWith(t, Bullets) PROVE Core(Spaces(2 * depth) \o <<"-">> \o Tail(t)) = Core(line)
  <2>1. Head(t) \in Bullets
    BY <1>2 DEF StartsWith
  <2>2. depth \in {2, 3, 4}
    BY <2>1 DEF Bullets
  <2>3. 2 * depth \in Nat
    <3> HIDE DEF depth
    <3> QED
      BY <2>2
  <2>4. Bullets \in SUBSET Noise
    BY DEF Noise
  <2> HIDE DEF depth
  <2> QED
    BY <1>2, <2>3, <2>4, CoreMarked
<1> QED
  BY <1>1, <1>2

\* A flattened level of a PDF that becomes an indented dash leaves the core as it was.
LEMMA CorePdfBullet == ASSUME NEW line \in Text PROVE Core(PdfBullet(line)) = Core(line)
<1> DEFINE bare == IF StartsWith(line, {"-"}) THEN Tail(line) ELSE line
<1>0. "-" \in Noise /\ Circle \in Noise /\ Section \in Noise
  BY DEF Noise, Bullets
<1>1. bare \in Text /\ Core(bare) = Core(line)
  <2>1. CASE StartsWith(line, {"-"})
    <3>1. line = <<Head(line)>> \o Tail(line) /\ Head(line) \in {"-"} /\ Tail(line) \in Text
      BY <2>1, HeadTail
    <3>2. Core(<<Head(line)>> \o Tail(line)) = Core(Tail(line))
      BY <1>0, <3>1, CoreMarker
    <3> QED
      BY <2>1, <3>1, <3>2
  <2>2. CASE ~StartsWith(line, {"-"})
    BY <2>2
  <2> QED
    BY <2>1, <2>2
<1>2. PdfBullet(line) = CASE StartsWith(bare, {Circle})  -> Spaces(2) \o <<"-">> \o Tail(bare)
                          [] StartsWith(bare, {Section}) -> Spaces(4) \o <<"-">> \o Tail(bare)
                          [] OTHER -> line
  BY DEF PdfBullet
<1> HIDE DEF bare
<1>3. ASSUME NEW x \in Noise, StartsWith(bare, {x}), NEW n \in Nat
      PROVE  Core(Spaces(n) \o <<"-">> \o Tail(bare)) = Core(line)
  <2> DEFINE r == Tail(bare)
             s == Spaces(n)
             d == <<"-">>
  <2>1. bare = <<Head(bare)>> \o r /\ Head(bare) \in {x} /\ r \in Text
    BY <1>1, <1>3, HeadTail
  <2> HIDE DEF r
  <2>2. Core(<<Head(bare)>> \o r) = Core(r)
    BY <2>1, CoreMarker
  <2>3. Core(d \o r) = Core(r) /\ d \o r \in Text
    BY <1>0, <2>1, CoreMarker
  <2>4. Core(s \o (d \o r)) = Core(d \o r)
    BY <2>3, CoreIndent
  <2>5. s \in Seq(Atoms) /\ d \in Seq(Atoms) /\ r \in Seq(Atoms)
    BY <2>1, SpacesText, SomeTexts DEF Text
  <2> HIDE DEF s, d
  <2>6. s \o (d \o r) = (s \o d) \o r
    BY ONLY <2>5, Assoc
  <2> QED
    BY <1>1, <2>1, <2>2, <2>3, <2>4, <2>6 DEF r, s, d
<1>4. StartsWith(bare, {Circle}) => Core(Spaces(2) \o <<"-">> \o Tail(bare)) = Core(line)
  BY <1>0, <1>3
<1>5. StartsWith(bare, {Section}) => Core(Spaces(4) \o <<"-">> \o Tail(bare)) = Core(line)
  BY <1>0, <1>3
<1> QED
  BY <1>2, <1>4, <1>5

\* A pass that rewrites each line and keeps its core.
LEMMA CoreEachLine ==
    ASSUME NEW t \in Text, NEW f, f = [i \in DOMAIN Lines(t) |-> f[i]],
           \A i \in 1 .. Len(Lines(t)) : f[i] \in Text /\ Core(f[i]) = Core(Lines(t)[i])
    PROVE  Core(FromLines(f)) = Core(t)
<1> DEFINE ls == Lines(t)
<1>1. ls \in Seq(Text) /\ Core(t) = Spelled(core, ls)
  BY LinesOf, CoreOfLines
<1> HIDE DEF ls
<1>2. f = [i \in DOMAIN ls |-> f[i]] /\ \A i \in 1 .. Len(ls) : f[i] \in Text
  BY DEF ls
<1>3. f \in Seq(Text) /\ Len(f) = Len(ls)
  BY ONLY <1>1, <1>2, MappedSequence
<1>4. ASSUME NEW i \in 1 .. Len(f) PROVE core[f[i]] = core[ls[i]]
  <2>1. Core(f[i]) = Core(ls[i]) /\ f[i] \in Text /\ ls[i] \in Text
    BY <1>1, <1>3 DEF ls
  <2> QED
    BY <2>1, TextsAre
<1>5. Spelled(core, f) = Spelled(core, ls)
  BY <1>1, <1>3, <1>4, SpelledSame
<1>6. Core(FromLines(f)) = Spelled(core, f)
  BY <1>3, CoreLines
<1> QED
  BY <1>1, <1>5, <1>6

\* Normalising the list markers leaves the core of a text as it was.
LEMMA CoreNormalizeLists == ASSUME NEW t \in Text PROVE Core(NormalizeLists(t)) = Core(t)
<1> DEFINE lines == Lines(t)
           f == [i \in DOMAIN lines |-> DashBullet(MarkItDownIndent(PdfBullet(DotBullet(lines[i]))))]
<1>1. NormalizeLists(t) = FromLines(f)
  BY DEF NormalizeLists, EachLine, Map
<1>2. lines \in Seq(Text)
  BY LinesText
<1> HIDE DEF lines
<1>3. ASSUME NEW i \in 1 .. Len(lines) PROVE f[i] \in Text /\ Core(f[i]) = Core(lines[i])
  <2> DEFINE a == DotBullet(lines[i])
             b == PdfBullet(a)
             c == MarkItDownIndent(b)
  <2>1. lines[i] \in Text /\ i \in DOMAIN lines
    BY <1>2
  <2>2. f[i] = DashBullet(c)
    BY <2>1
  <2>3. a \in Text /\ Core(a) = Core(lines[i])
    BY <2>1, DotBulletText, CoreDotBullet
  <2> HIDE DEF a
  <2>4. b \in Text /\ Core(b) = Core(a)
    BY <2>3, PdfBulletText, CorePdfBullet
  <2> HIDE DEF b
  <2>5. c \in Text /\ Core(c) = Core(b)
    BY <2>4, MarkItDownIndentText, CoreMarkItDownIndent
  <2> HIDE DEF c
  <2>6. DashBullet(c) \in Text /\ Core(DashBullet(c)) = Core(c)
    BY <2>5, DashBulletText, CoreDashBullet
  <2> HIDE DEF f
  <2> QED
    BY <2>2, <2>3, <2>4, <2>5, <2>6
<1>4. f = [i \in DOMAIN Lines(t) |-> f[i]]
  BY DEF lines
<1> HIDE DEF f
<1>5. \A i \in 1 .. Len(Lines(t)) : f[i] \in Text /\ Core(f[i]) = Core(Lines(t)[i])
  BY <1>3 DEF lines
<1> QED
  BY ONLY <1>1, <1>4, <1>5, t \in Text, CoreEachLine

\* Putting a blank line behind headings leaves the core of a text as it was.
LEMMA CoreSpaceHeadings == ASSUME NEW t \in Text PROVE Core(SpaceHeadings(t)) = Core(t)
<1> DEFINE lines == Lines(t)
           Marked(i) == \E k \in 1 .. Len(lines[i]) - 1 : lines[i][k] \in HeadingMark
           Tight1(i) == Marked(i) /\ i < Len(lines) /\ (lines[i + 1] # <<>> \/ i + 1 = Len(lines))
           f == [i \in DOMAIN lines |-> IF Tight1(i) THEN lines[i] \o <<NL>> ELSE lines[i]]
<1>1. SpaceHeadings(t) = FromLines(f)
  BY DEF SpaceHeadings, FromLines
<1>2. lines \in Seq(Text)
  BY LinesText
<1> HIDE DEF lines, Tight1
<1>3. ASSUME NEW i \in 1 .. Len(lines) PROVE f[i] \in Text /\ Core(f[i]) = Core(lines[i])
  <2>1. lines[i] \in Text /\ i \in DOMAIN lines
    BY <1>2
  <2>2. f[i] = IF Tight1(i) THEN lines[i] \o <<NL>> ELSE lines[i]
    BY <2>1
  <2>3. lines[i] \o <<NL>> \in Text
    BY <2>1, SomeTexts, ConcatText
  <2>4. \A k \in 1 .. Len(<<NL>>) : <<NL>>[k] \in Whitespace
    BY DEF Whitespace
  <2>5. Core(lines[i] \o <<NL>>) = Core(lines[i])
    BY <2>1, <2>4, SomeTexts, CoreTrail
  <2> HIDE DEF f
  <2> QED
    BY <2>1, <2>2, <2>3, <2>5
<1>4. f = [i \in DOMAIN Lines(t) |-> f[i]]
  BY DEF lines
<1> HIDE DEF f
<1>5. \A i \in 1 .. Len(Lines(t)) : f[i] \in Text /\ Core(f[i]) = Core(Lines(t)[i])
  BY <1>3 DEF lines
<1> QED
  BY ONLY <1>1, <1>4, <1>5, t \in Text, CoreEachLine

\* Making every line end a newline leaves the core of a text as it was.
LEMMA CoreUnixLines == ASSUME NEW t \in Text PROVE Core(UnixLines(t)) = Core(t)
<1> DEFINE u == UnixLines(t)
<1>1. u \in Text
  BY UnixLinesText
<1>2. Len(u) = Len(t) /\ \A i \in 1 .. Len(t) : u[i] = IF t[i] = CRLF THEN NL ELSE t[i]
  BY DEF UnixLines, Text
<1>3. NL \in LineEnds /\ CRLF \in LineEnds
  BY DEF LineEnds
<1> HIDE DEF u
<1>4. \A i \in 1 .. Len(t) : u[i] = t[i] \/ (u[i] \in LineEnds /\ t[i] \in LineEnds)
  BY <1>2, <1>3
<1>5. Core(u) = Core(t)
  BY ONLY <1>1, <1>2, <1>4, t \in Text, CoreEnds
<1> QED
  BY <1>5 DEF u

\* Breaking the pages into lines leaves the core of a text as it was.
LEMMA CoreBreakPages == ASSUME NEW t \in Text PROVE Core(BreakPages(t)) = Core(t)
<1> DEFINE p == Split(t, FF)
<1>1. t \in Seq(Atoms) /\ FF \in Atoms
  BY DEF Text, Atoms, Whitespace
<1>2. p \in Seq(Text) /\ Join(p, <<FF>>) = t
  BY <1>1, SplitSequence, JoinSplit DEF Text
<1> HIDE DEF p
<1>3. <<FF>> \in Breaks /\ <<NL, NL>> \in Breaks
  BY DEF Breaks
<1>4. Core(Join(p, <<FF>>)) = Spelled(core, p)
  BY <1>2, <1>3, CoreJoin
<1>5. Core(Join(p, <<NL, NL>>)) = Spelled(core, p)
  BY <1>2, <1>3, CoreJoin
<1> QED
  BY <1>2, <1>4, <1>5 DEF BreakPages, p

\* Collapsing spaces leaves the core of a text as it was.
LEMMA CoreNormalizeSpaces == ASSUME NEW t \in Text PROVE Core(NormalizeSpaces(t)) = Core(t)
<1> DEFINE Next1(i) == Min({k \in i .. Len(t) : t[k] # SP} \cup {Len(t) + 1})
           Trailing(i) == t[i] = SP /\ (Next1(i) > Len(t) \/ t[Next1(i)] = NL)
           Repeated(i) == i > 1 /\ t[i] = SP /\ t[i - 1] = SP
           D == {i \in DOMAIN t : Trailing(i) \/ Repeated(i)}
<1>1. NormalizeSpaces(t) = Without(t, D)
  BY DEF NormalizeSpaces
<1>2. \A i \in 1 .. Len(t) : i \in D => t[i] = SP
  OBVIOUS
<1> HIDE DEF D
<1>3. \A i \in 1 .. Len(t) : i \in D => t[i] \in Noise \ LineEnds
  BY <1>2, LettersAre
<1>4. Core(Without(t, D)) = Core(t)
  BY ONLY <1>3, t \in Text, CoreSkip
<1> QED
  BY <1>1, <1>4

\* Taking page numbers out leaves the core of a text as it was.
LEMMA CoreStripPageNumbers == ASSUME NEW t \in Text PROVE Core(StripPageNumbers(t)) = Core(t)
<1> DEFINE lines == Lines(t)
           IsNumber(i) == Strip(lines[i]) = <<PageNumber>>
           Gap(i, k) == \A m \in i .. k : IsBlank(lines[m]) \/ IsNumber(m)
           InGap(i) == \E k \in DOMAIN lines : IsNumber(k) /\ Gap(Min({i, k}), Max({i, k}))
           Gone(i) == i > 1 /\ InGap(i) /\ InGap(i - 1) /\ ~(IsNumber(i) /\ IsNumber(i - 1))
           bare == [i \in DOMAIN lines |-> IF InGap(i) THEN <<>> ELSE lines[i]]
           D == {i \in DOMAIN lines : Gone(i)}
<1>1. StripPageNumbers(t) = FromLines(Without(bare, D))
  BY DEF StripPageNumbers
<1>2. lines \in Seq(Text) /\ Core(t) = Spelled(core, lines)
  BY LinesText, CoreOfLines
<1>3. \A i : Gone(i) => InGap(i)
  OBVIOUS
<1> HIDE DEF lines, Gone
<1>4. ASSUME NEW i \in 1 .. Len(lines), InGap(i) PROVE Core(lines[i]) = <<>>
  <2>1. PICK k \in DOMAIN lines : IsNumber(k) /\ Gap(Min({i, k}), Max({i, k}))
    BY <1>4
  <2>2. k \in Int /\ i \in Int /\ k \in 1 .. Len(lines) /\ Len(lines) \in Int /\ 1 \in Int
    BY <1>2
  <2> DEFINE S == {i, k}
  <2>3. S \in SUBSET (1 .. Len(lines)) /\ S # {} /\ i \in S
    BY <2>2
  <2> HIDE DEF S
  <2>4. Min(S) \in S /\ \A j \in S : Min(S) <= j
    BY ONLY <2>2, <2>3, MinOf
  <2>5. Max(S) \in S /\ \A j \in S : j <= Max(S)
    BY ONLY <2>2, <2>3, MaxOf
  <2>6. Min(S) \in 1 .. Len(lines) /\ Max(S) \in 1 .. Len(lines)
    BY <2>3, <2>4, <2>5
  <2>7. i \in Min(S) .. Max(S)
    BY <2>2, <2>3, <2>4, <2>5, <2>6
  <2>8. IsBlank(lines[i]) \/ IsNumber(i)
    <3>1. Gap(Min(S), Max(S))
      BY <2>1 DEF S
    <3> QED
      BY <2>7, <3>1
  <2>9. lines[i] \in Text
    BY <1>2, ElementOf
  <2>10. CASE IsNumber(i)
    <3>1. Core(<<PageNumber>>) = <<>>
      <4>1. PageNumber \in Noise /\ <<>> \in Text
        BY DEF Noise, Text
      <4>2. Core(<<PageNumber>> \o <<>>) = Core(<<>>)
        BY <4>1, CoreMarker
      <4>3. <<PageNumber>> \o <<>> = <<PageNumber>>
        OBVIOUS
      <4> QED
        BY <4>2, <4>3, CoreNone
    <3>2. Core(Strip(lines[i])) = Core(lines[i])
      BY <2>9, CoreStrip
    <3> QED
      BY <2>10, <3>1, <3>2
  <2> QED
    BY <2>8, <2>9, <2>10, CoreBlank
<1> HIDE DEF InGap
<1>5. bare = [i \in DOMAIN lines |-> bare[i]]
  OBVIOUS
<1>6. ASSUME NEW i \in 1 .. Len(lines)
      PROVE  bare[i] \in Text /\ core[bare[i]] = core[lines[i]] /\ (i \in D => core[bare[i]] = <<>>)
  <2>1. lines[i] \in Text /\ i \in DOMAIN lines /\ <<>> \in Text
    BY <1>2, SomeTexts
  <2>2. bare[i] = IF InGap(i) THEN <<>> ELSE lines[i]
    BY <2>1
  <2>3. i \in D => InGap(i)
    BY <1>3
  <2> HIDE DEF bare, D
  <2>4. core[lines[i]] = Core(lines[i]) /\ core[<<>>] = <<>>
    BY <2>1, TextsAre, CoreNone
  <2> QED
    BY <1>4, <2>1, <2>2, <2>3, <2>4
<1> HIDE DEF bare, D
<1>7. bare \in Seq(Text) /\ Len(bare) = Len(lines)
  <2>0. lines \in Seq(Text)
    BY <1>2
  <2>1. ASSUME NEW i \in 1 .. Len(lines) PROVE bare[i] \in Text
    BY <1>6
  <2>2. bare \in Seq(Text)
    BY ONLY <2>0, <1>5, <2>1, MappedSequence
  <2>3. DOMAIN bare = DOMAIN lines
    BY <1>5
  <2> QED
    BY ONLY <2>0, <2>2, <2>3
<1>8. Spelled(core, bare) = Spelled(core, lines)
  BY <1>2, <1>6, <1>7, SpelledSame
<1>9. \A i \in 1 .. Len(bare) : i \notin DOMAIN bare \ D => core[bare[i]] = <<>>
  <2>1. DOMAIN bare = 1 .. Len(bare)
    BY <1>7
  <2> QED
    BY <1>6, <1>7, <2>1
<1>10. Spelled(core, Without(bare, D)) = Spelled(core, bare)
  <2> DEFINE I == DOMAIN bare \ D
  <2>1. core \in [Text -> Seq(Atoms)] /\ bare \in Seq(Text) /\ \A i \in 1 .. Len(bare) : i \notin I => core[bare[i]] = <<>>
    BY <1>7, <1>9, TextsAre
  <2> HIDE DEF I
  <2>2. Spelled(core, Selected(bare, I)) = Spelled(core, bare)
    BY ONLY <2>1, SpelledSelected
  <2> QED
    BY <2>2 DEF I, Without
<1>11. Without(bare, D) \in Seq(Text)
  BY <1>7, WithoutSequence
<1>12. Core(FromLines(Without(bare, D))) = Spelled(core, Without(bare, D))
  BY <1>11, CoreLines
<1> QED
  BY <1>1, <1>2, <1>8, <1>10, <1>12

\* What is behind line i of the list repair, line by line.
RepairScan(F, lines, N) ==
    /\ F \in [0 .. N -> Seq(Text)] /\ F[0] = <<>>
    /\ \A i \in 1 .. N :
          \/ F[i] = F[i - 1] /\ IsBlank(lines[i])
          \/ \E n \in Nat : F[i] = Append(F[i - 1], Spaces(n) \o Strip(lines[i]))
          \/ F[i] = Append(F[i - 1], lines[i])

\* The fold behind RepairLists as a function on the lines: each is dropped if blank, re-indented
\* or kept.
LEMMA RepairRun ==
    ASSUME NEW t \in Text
    PROVE  \E F : RepairScan(F, Lines(t), Len(Lines(t))) /\ RepairLists(t) = FromLines(F[Len(Lines(t))])
<1> DEFINE lines == Lines(t)
           N == Len(lines)
           NextInk(i) == Min({k \in i + 1 .. Len(lines) : ~IsBlank(lines[k])} \cup {Len(lines) + 1})
           Dropped(repaired, i) ==
               /\ IsBlank(lines[i])
               /\ \E k \in DOMAIN repaired : ~IsBlank(repaired[k])
               /\ NextInk(i) <= Len(lines)
               /\ Continues(lines, repaired, NextInk(i))
           New(i, done) ==
               IF Dropped(done, i) THEN done
               ELSE IF ~IsBlank(lines[i]) /\ Continues(lines, done, i)
               THEN Append(done, Spaces(LastItemIndent(done) + 2) \o Strip(lines[i]))
               ELSE Append(done, lines[i])
           Body(f) == [i \in 0 .. Len(lines) |->
               IF i = 0 THEN <<>>
               ELSE LET done == f[i - 1]
                    IN  IF Dropped(done, i) THEN done
                        ELSE IF ~IsBlank(lines[i]) /\ Continues(lines, done, i)
                        THEN Append(done, Spaces(LastItemIndent(done) + 2) \o Strip(lines[i]))
                        ELSE Append(done, lines[i])]
           F == CHOOSE f : f = Body(f)
           h == [iv \in (1 .. N) \X Seq(Text) |-> New(iv[1], iv[2])]
<1>1. RepairLists(t) = FromLines(F[N])
  BY DEF RepairLists
<1>2. lines \in Seq(Text) /\ N \in Nat /\ <<>> \in Seq(Text)
  BY LinesText
<1>a. \A i, v : Dropped(v, i) => IsBlank(lines[i])
  OBVIOUS
<1> HIDE DEF lines, Dropped
<1>3. ASSUME NEW i \in 1 .. N, NEW v \in Seq(Text)
      PROVE  /\ New(i, v) \in Seq(Text)
             /\ \/ New(i, v) = v /\ IsBlank(lines[i])
                \/ \E n \in Nat : New(i, v) = Append(v, Spaces(n) \o Strip(lines[i]))
                \/ New(i, v) = Append(v, lines[i])
  <2>1. lines[i] \in Text
    BY <1>2
  <2>2. Append(v, lines[i]) \in Seq(Text)
    BY <2>1
  <2>3. ASSUME Continues(lines, v, i)
        PROVE  /\ Append(v, Spaces(LastItemIndent(v) + 2) \o Strip(lines[i])) \in Seq(Text)
               /\ LastItemIndent(v) + 2 \in Nat
    <3>1. LastItemIndent(v) + 2 \in Nat
      BY <2>3, LastItemIndentOf
    <3>2. Strip(lines[i]) \in Text
      BY <2>1, StripSequence DEF Text
    <3>3. Spaces(LastItemIndent(v) + 2) \o Strip(lines[i]) \in Text
      BY <3>1, <3>2, SpacesText, ConcatText
    <3> QED
      BY <3>1, <3>3
  <2>4. CASE Dropped(v, i)
    BY <1>a, <2>4
  <2>5. CASE ~Dropped(v, i) /\ (~IsBlank(lines[i]) /\ Continues(lines, v, i))
    <3>1. New(i, v) = Append(v, Spaces(LastItemIndent(v) + 2) \o Strip(lines[i]))
      BY <2>5
    <3> HIDE DEF New
    <3> QED
      BY <2>3, <2>5, <3>1
  <2>6. CASE ~Dropped(v, i) /\ ~ (~IsBlank(lines[i]) /\ Continues(lines, v, i))
    BY <2>2, <2>6
  <2> QED
    BY <2>4, <2>5, <2>6
<1>4. \A i \in 1 .. N, v \in Seq(Text) : h[<<i, v>>] = New(i, v)
  OBVIOUS
<1> HIDE DEF New, h
<1>5. Steps(h, 1 .. N, Seq(Text))
  BY <1>3, <1>4 DEF Steps
<1>6. PICK f : Rises(f, N, Seq(Text), <<>>, h)
  BY ONLY <1>2, <1>5, Rising
<1>7. f \in [0 .. N -> Seq(Text)] /\ f[0] = <<>> /\ \A i \in 1 .. N : f[i] = New(i, f[i - 1])
  <2>1. f \in [0 .. N -> Seq(Text)] /\ f[0] = <<>> /\ \A i \in 1 .. N : f[i] = h[<<i, f[i - 1]>>]
    BY <1>6 DEF Rises
  <2>2. \A i \in 1 .. N : f[i - 1] \in Seq(Text)
    BY SMTT(30), <1>2, <2>1
  <2> QED
    BY <1>4, <2>1, <2>2
<1>8. f = [i \in 0 .. N |-> IF i = 0 THEN <<>> ELSE New(i, f[i - 1])]
  BY <1>2, <1>7
<1>9. f = Body(f)
  BY <1>8 DEF New
<1>10. F = Body(F)
  BY <1>9
<1> HIDE DEF F
<1>11. \A i \in 0 .. N : F[i] = Body(F)[i]
  BY <1>10
<1>12. \A i \in 0 .. N : Body(F)[i] = IF i = 0 THEN <<>> ELSE New(i, F[i - 1])
  BY DEF New
<1>b. F = [i \in 0 .. N |-> F[i]]
  BY <1>10
<1> HIDE DEF Body
<1> DEFINE S == {i \in 0 .. N : F[i] \in Seq(Text)}
<1>13. 0 \in S /\ F[0] = <<>>
  <2>1. 0 \in 0 .. N
    BY <1>2
  <2>2. F[0] = <<>>
    BY <1>11, <1>12, <2>1
  <2> QED
    BY <1>2, <2>1, <2>2
<1>14. ASSUME NEW i \in 1 .. N, i - 1 \in S PROVE i \in S
  <2>1. F[i] = New(i, F[i - 1]) /\ F[i - 1] \in Seq(Text) /\ i \in 0 .. N
    BY <1>2, <1>11, <1>12, <1>14
  <2> QED
    BY <1>3, <2>1
<1> HIDE DEF S
<1>15. \A i \in 0 .. N : i \in S
  BY ONLY <1>2, <1>13, <1>14, Forwards
<1>16. \A i \in 0 .. N : F[i] \in Seq(Text)
  BY <1>15 DEF S
<1>17. F \in [0 .. N -> Seq(Text)]
  BY <1>b, <1>16
<1>18. ASSUME NEW i \in 1 .. N
       PROVE  \/ F[i] = F[i - 1] /\ IsBlank(lines[i])
              \/ \E n \in Nat : F[i] = Append(F[i - 1], Spaces(n) \o Strip(lines[i]))
              \/ F[i] = Append(F[i - 1], lines[i])
  <2>1. i \in 0 .. N /\ i - 1 \in 0 .. N /\ i # 0
    BY <1>2
  <2>2. F[i] = New(i, F[i - 1]) /\ F[i - 1] \in Seq(Text)
    BY <1>11, <1>12, <1>16, <2>1
  <2> QED
    BY <1>3, <2>2
<1>19. RepairScan(F, lines, N)
  BY <1>13, <1>17, <1>18 DEF RepairScan
<1> QED
  BY <1>1, <1>19 DEF lines

\* Repairing broken lists leaves the core of a text as it was.
LEMMA CoreRepairLists == ASSUME NEW t \in Text PROVE Core(RepairLists(t)) = Core(t)
<1> DEFINE lines == Lines(t)
           N == Len(lines)
<1>1. lines \in Seq(Text) /\ Core(t) = Spelled(core, lines) /\ N \in Nat
  BY LinesText, CoreOfLines
<1>2. PICK F : RepairScan(F, lines, N) /\ RepairLists(t) = FromLines(F[N])
  BY RepairRun
<1> HIDE DEF lines, N
<1>3. PICK pre : Beginnings(pre, Text, lines)
  BY <1>1, PrefixesOf
<1>p. pre[0] = <<>> /\ pre[N] = lines /\ \A i \in 1 .. N : pre[i] = Append(pre[i - 1], lines[i]) /\ pre[i - 1] \in Seq(Text)
  <2>1. \A i \in 1 .. N : i - 1 \in 0 .. N
    BY <1>1
  <2> QED
    BY <1>3, <2>1 DEF Beginnings, N
<1> DEFINE S == {i \in Int : i <= N => Spelled(core, F[i]) = Spelled(core, pre[i])}
<1>4. 0 \in S
  BY <1>2, <1>p DEF RepairScan
<1>5. ASSUME NEW i \in 1 .. N, i - 1 \in S PROVE i \in S
  <2>1. lines[i] \in Text /\ pre[i] = Append(pre[i - 1], lines[i]) /\ pre[i - 1] \in Seq(Text)
    <3>1. i \in 1 .. Len(lines)
      BY DEF N
    <3> QED
      BY <1>1, <1>p, <3>1, ElementOf
  <2>2. F[i - 1] \in Seq(Text)
    <3>1. i - 1 \in 0 .. N
      BY <1>1
    <3> QED
      BY <1>2, <3>1 DEF RepairScan
  <2>3. Spelled(core, F[i - 1]) = Spelled(core, pre[i - 1])
    <3>1. i - 1 <= N
      BY <1>1
    <3> QED
      BY <1>5, <3>1
  <2>4. Spelled(core, pre[i]) = Spelled(core, pre[i - 1]) \o core[lines[i]]
    <3> DEFINE v == pre[i - 1]
               x == lines[i]
    <3>0. v \in Seq(Text) /\ x \in Text /\ core \in [Text -> Seq(Atoms)]
      BY <2>1, TextsAre
    <3> HIDE DEF v, x
    <3>1. Spelled(core, Append(v, x)) = Spelled(core, v) \o core[x]
      BY ONLY <3>0, SpelledAppend
    <3> USE DEF v, x
    <3> QED
      BY <2>1, <3>1
  <2>5. core[lines[i]] = Core(lines[i])
    BY <2>1, TextsAre
  <2>6. ASSUME NEW x \in Text, F[i] = Append(F[i - 1], x), Core(x) = Core(lines[i])
        PROVE  Spelled(core, F[i]) = Spelled(core, pre[i])
    <3>1. Spelled(core, F[i]) = Spelled(core, F[i - 1]) \o core[x]
      <4>1. Spelled(core, Append(F[i - 1], x)) = Spelled(core, F[i - 1]) \o core[x]
        BY <2>2, TextsAre, SpelledAppend
      <4> QED
        BY <2>6, <4>1
    <3>2. core[x] = Core(x)
      BY TextsAre
    <3> QED
      BY <2>3, <2>4, <2>5, <2>6, <3>1, <3>2
  <2>7. CASE F[i] = F[i - 1] /\ IsBlank(lines[i])
    <3>1. core[lines[i]] = <<>>
      BY <2>1, <2>5, <2>7, CoreBlank
    <3>2. Spelled(core, pre[i - 1]) \in Seq(Atoms)
      BY <2>1, TextsAre, SpelledSeq
    <3>3. Spelled(core, pre[i - 1]) \o <<>> = Spelled(core, pre[i - 1])
      BY <3>2
    <3> QED
      BY <2>3, <2>4, <2>7, <3>1, <3>3
  <2>8. ASSUME NEW n \in Nat, F[i] = Append(F[i - 1], Spaces(n) \o Strip(lines[i]))
        PROVE  Spelled(core, F[i]) = Spelled(core, pre[i])
    <3> DEFINE x == Spaces(n) \o Strip(lines[i])
    <3>1. Strip(lines[i]) \in Text /\ Core(Strip(lines[i])) = Core(lines[i])
      BY <2>1, StripText, CoreStrip
    <3>2. Core(x) = Core(Strip(lines[i])) /\ x \in Text
      BY <3>1, CoreIndent
    <3> HIDE DEF x
    <3> QED
      BY <2>6, <2>8, <3>1, <3>2 DEF x
  <2>9. F[i] = Append(F[i - 1], lines[i]) => Spelled(core, F[i]) = Spelled(core, pre[i])
    BY <2>1, <2>6
  <2>10. Spelled(core, F[i]) = Spelled(core, pre[i])
    <3>1. \/ F[i] = F[i - 1] /\ IsBlank(lines[i])
          \/ \E n \in Nat : F[i] = Append(F[i - 1], Spaces(n) \o Strip(lines[i]))
          \/ F[i] = Append(F[i - 1], lines[i])
      BY <1>2 DEF RepairScan
    <3> QED
      BY SMTT(40), <2>7, <2>8, <2>9, <3>1
  <2> QED
    BY <2>10
<1> HIDE DEF S
<1>6. \A i \in 0 .. N : i \in S
  BY ONLY <1>1, <1>4, <1>5, Forwards
<1>7. N \in 0 .. N /\ N <= N
  BY <1>1
<1>8. Spelled(core, F[N]) = Spelled(core, lines)
  BY <1>6, <1>7, <1>p DEF S
<1>9. F[N] \in Seq(Text)
  BY <1>2, <1>7 DEF RepairScan
<1>10. Core(FromLines(F[N])) = Spelled(core, F[N])
  BY <1>9, CoreLines
<1> QED
  BY <1>1, <1>2, <1>8, <1>10

-----------------------------------------------------------------------------
(* Words that are broken at a line end.                                     *)

\* An atom, or a half of a word whose hyphen is gone, with the line end behind it or without.
Units == Atoms \cup {"torn", "joined"}
left  == [e \in Units |-> IF e = "torn" THEN <<HyphenWord>> ELSE IF e = "joined" THEN <<HyphenWord, NL>> ELSE <<e>>]
right == [e \in Units |-> IF e \in {"torn", "joined"} THEN <<JoinedWord>> ELSE <<e>>]

\* The units spell texts on both sides, and the letters are among them.
LEMMA UnitsAre ==
    /\ left \in [Units -> Seq(Atoms)] /\ right \in [Units -> Seq(Atoms)] /\ Atoms \subseteq Units
    /\ "torn" \in Units /\ "joined" \in Units /\ "torn" \notin Atoms /\ "joined" \notin Atoms
    /\ left["torn"] = <<HyphenWord>> /\ left["joined"] = <<HyphenWord, NL>>
    /\ right["torn"] = <<JoinedWord>> /\ right["joined"] = <<JoinedWord>>
    /\ HyphenWord \in Atoms /\ JoinedWord \in Atoms /\ NL \in Atoms /\ SP \in Atoms
    /\ HyphenWord \notin Noise /\ JoinedWord \notin Noise /\ HyphenWord # NL /\ JoinedWord # NL
    /\ NL \in LineEnds /\ SP \in Noise /\ SP \notin LineEnds
<1>1. "torn" \notin Atoms /\ "joined" \notin Atoms
  BY DEF Atoms, Whitespace, Words, ItemMarkers, HeadingMark, Fences, LowerWords, Bullets, Number, PageWord, PageNumber,
         Dots, Circle, Section, Bar, Rule, Leader, Stop, HyphenWord, JoinedWord, NL, CRLF, FF, SP
<1>2. HyphenWord \in Atoms /\ JoinedWord \in Atoms /\ NL \in Atoms /\ SP \in Atoms /\ NL \in LineEnds
  BY DEF Atoms, Words, Whitespace, LineEnds
<1>3. HyphenWord # NL /\ JoinedWord # NL /\ HyphenWord \notin Noise /\ JoinedWord \notin Noise
  BY LettersAre DEF HyphenWord, JoinedWord, NL
<1>4. left["torn"] = <<HyphenWord>> /\ left["joined"] = <<HyphenWord, NL>>
  BY DEF left, Units
<1>5. right["torn"] = <<JoinedWord>> /\ right["joined"] = <<JoinedWord>>
  BY DEF right, Units
<1>6. \A x \in Atoms : <<x>> \in Seq(Atoms)
  OBVIOUS
<1>7. <<HyphenWord, NL>> \in Seq(Atoms)
  BY <1>2
<1>8. left \in [Units -> Seq(Atoms)]
  BY <1>2, <1>6, <1>7 DEF left, Units
<1>9. right \in [Units -> Seq(Atoms)]
  BY <1>2, <1>6 DEF right, Units
<1> QED
  BY <1>1, <1>2, <1>3, <1>4, <1>5, <1>8, <1>9, LettersAre DEF Units

\* A letter is a unit that spells itself on both sides.
LEMMA UnitOf == ASSUME NEW x \in Atoms PROVE x \in Units /\ left[x] = <<x>> /\ right[x] = <<x>>
  BY UnitsAre DEF left, right

Sim(u, k, j) == u \in Seq(Units) /\ k = Spelled(left, u) /\ j = Spelled(right, u)
Torn(u) == \E q \in Seq(Units), e \in {"torn", "joined"} : u = Append(q, e)

\* What units spell is a text on both sides.
LEMMA SimText == ASSUME NEW u, NEW k, NEW j, Sim(u, k, j) PROVE k \in Text /\ j \in Text
  BY UnitsAre, SpelledSeq DEF Sim, Text

\* One more unit adds its spelling on each side.
LEMMA UnitsAppend ==
    ASSUME NEW q \in Seq(Units), NEW e \in Units
    PROVE  /\ Spelled(left, Append(q, e)) = Spelled(left, q) \o left[e]
           /\ Spelled(right, Append(q, e)) = Spelled(right, q) \o right[e]
<1>1. left \in [Units -> Seq(Atoms)]
  BY UnitsAre
<1>2. right \in [Units -> Seq(Atoms)]
  BY UnitsAre
<1>3. Spelled(left, Append(q, e)) = Spelled(left, q) \o left[e]
  BY ONLY <1>1, q \in Seq(Units), e \in Units, SpelledAppend
<1>4. Spelled(right, Append(q, e)) = Spelled(right, q) \o right[e]
  BY ONLY <1>2, q \in Seq(Units), e \in Units, SpelledAppend
<1> QED
  BY <1>3, <1>4

\* Two texts of the same units stay so with one more unit behind both.
LEMMA SimAppend ==
    ASSUME NEW u, NEW k, NEW j, Sim(u, k, j), NEW e \in Units
    PROVE  Sim(Append(u, e), k \o left[e], j \o right[e])
<1>1. u \in Seq(Units) /\ Append(u, e) \in Seq(Units)
  BY DEF Sim
<1>2. Spelled(left, Append(u, e)) = Spelled(left, u) \o left[e]
  BY <1>1, UnitsAppend
<1>3. Spelled(right, Append(u, e)) = Spelled(right, u) \o right[e]
  BY <1>1, UnitsAppend
<1> QED
  BY <1>1, <1>2, <1>3 DEF Sim

LastUnit(q, e, kq, jq, u, k, j) ==
    /\ q \in Seq(Units) /\ e \in Units /\ kq \in Text /\ jq \in Text
    /\ u = Append(q, e) /\ Sim(q, kq, jq) /\ k = kq \o left[e] /\ j = jq \o right[e]

\* The last unit of two texts, and the texts in front of it.
LEMMA SimLast ==
    ASSUME NEW u, NEW k, NEW j, Sim(u, k, j), u # <<>>
    PROVE  \E q, e, kq, jq : LastUnit(q, e, kq, jq, u, k, j)
<1>1. PICK q \in Seq(Units), e \in Units : u = Append(q, e)
  BY LastOf DEF Sim
<1> DEFINE kq == Spelled(left, q)
           jq == Spelled(right, q)
<1>2. Sim(q, kq, jq)
  BY DEF Sim
<1>3. kq \in Text /\ jq \in Text
  BY <1>2, SimText
<1>4. Spelled(left, Append(q, e)) = kq \o left[e]
  BY UnitsAppend
<1>5. Spelled(right, Append(q, e)) = jq \o right[e]
  BY UnitsAppend
<1>6. k = kq \o left[e] /\ j = jq \o right[e]
  BY <1>1, <1>4, <1>5 DEF Sim
<1> HIDE DEF kq, jq
<1> QED
  BY <1>1, <1>2, <1>3, <1>6 DEF LastUnit

\* Closing a core that has just got a letter.
LEMMA CloseOf ==
    ASSUME NEW k \in Text, NEW x \in Atoms
    PROVE  Close(k \o <<x>>) = IF x = NL THEN k \o <<x>> ELSE (k \o <<x>>) \o <<NL>>
<1> DEFINE s == k \o <<x>>
<1>1. s # <<>> /\ s[Len(s)] = x /\ s \in Seq(Atoms)
  BY DEF Text
<1> HIDE DEF s
<1>2. Append(s, NL) = s \o <<NL>>
  BY <1>1, UnitsAre, AppendIs
<1>3. Close(s) = IF x = NL THEN s ELSE s \o <<NL>>
  BY <1>1, <1>2 DEF Close
<1> QED
  BY <1>3 DEF s

\* Two texts of the same units are so once both are closed.
LEMMA SimClose ==
    ASSUME NEW u, NEW k, NEW j, Sim(u, k, j)
    PROVE  \E v : Sim(v, Close(k), Close(j))
<1>1. CASE u = <<>>
  <2>1. k = <<>> /\ j = <<>>
    BY <1>1, UnitsAre, SpelledNone DEF Sim
  <2>2. Close(k) = k /\ Close(j) = j
    BY <2>1 DEF Close
  <2> QED
    BY <2>2
<1>2. CASE u # <<>>
  <2>0. PICK q, e, kq, jq : LastUnit(q, e, kq, jq, u, k, j)
    BY <1>2, SimLast
  <2>1. /\ q \in Seq(Units) /\ e \in Units /\ kq \in Text /\ jq \in Text
        /\ u = Append(q, e) /\ Sim(q, kq, jq) /\ k = kq \o left[e] /\ j = jq \o right[e]
    BY <2>0 DEF LastUnit
  <2>n. NL \in Atoms /\ left[NL] = <<NL>> /\ right[NL] = <<NL>> /\ NL \in Units
    BY UnitsAre, UnitOf
  <2>2. CASE e = "joined"
    <3>1. k = kq \o <<HyphenWord, NL>> /\ j = jq \o <<JoinedWord>>
      BY <2>1, <2>2, UnitsAre
    <3>2. k = (kq \o <<HyphenWord>>) \o <<NL>>
      <4>1. kq \in Text
        BY <2>1
      <4>2. (kq \o <<HyphenWord>>) \o <<NL>> = kq \o <<HyphenWord, NL>>
        BY <4>1 DEF Text
      <4> QED
        BY <3>1, <4>2
    <3>3. kq \o <<HyphenWord>> \in Text
      BY <2>1, UnitsAre DEF Text
    <3>4. Close(k) = k
      BY <3>2, <3>3, <2>n, CloseOf
    <3>5. Close(j) = j \o <<NL>>
      BY <2>1, <3>1, UnitsAre, CloseOf
    <3>6. Sim(Append(q, "torn"), kq \o <<HyphenWord>>, jq \o <<JoinedWord>>)
      BY <2>1, UnitsAre, SimAppend
    <3>7. Sim(Append(Append(q, "torn"), NL), (kq \o <<HyphenWord>>) \o <<NL>>, (jq \o <<JoinedWord>>) \o <<NL>>)
      BY <3>6, <2>n, SimAppend
    <3>8. Sim(Append(Append(q, "torn"), NL), Close(k), Close(j))
      BY <3>1, <3>2, <3>4, <3>5, <3>7
    <3> QED
      BY <3>8
  <2>3. ASSUME e # "joined"
        PROVE  \E x \in Atoms, y \in Atoms : left[e] = <<x>> /\ right[e] = <<y>> /\ (x = NL <=> y = NL)
    <3>1. CASE e = "torn"
      BY <3>1, UnitsAre
    <3>2. CASE e # "torn"
      <4>1. e \in Atoms
        BY <2>1, <2>3, <3>2 DEF Units
      <4> QED
        BY <4>1, UnitOf
    <3> QED
      BY <3>1, <3>2
  <2>4. CASE e # "joined"
    <3>1. PICK x \in Atoms, y \in Atoms : left[e] = <<x>> /\ right[e] = <<y>> /\ (x = NL <=> y = NL)
      BY <2>3, <2>4
    <3>2. k = kq \o <<x>> /\ j = jq \o <<y>>
      BY <2>1, <3>1
    <3>3. Close(k) = IF x = NL THEN k ELSE k \o <<NL>>
      BY <2>1, <3>2, CloseOf
    <3>4. Close(j) = IF y = NL THEN j ELSE j \o <<NL>>
      BY <2>1, <3>2, CloseOf
    <3>5. Sim(Append(u, NL), k \o <<NL>>, j \o <<NL>>)
      BY <2>n, SimAppend
    <3> QED
      BY <3>1, <3>3, <3>4, <3>5
  <2> QED
    BY <2>2, <2>4
<1> QED
  BY <1>1, <1>2

\* Two texts of the same units are so once the same letter is pressed onto both.
LEMMA SimPress ==
    ASSUME NEW u, NEW k, NEW j, Sim(u, k, j), NEW x \in Atoms
    PROVE  \E v : Sim(v, Press(k, x), Press(j, x))
<1>1. CASE x \in LineEnds
  <2>1. Press(k, x) = Close(k) /\ Press(j, x) = Close(j)
    BY <1>1 DEF Press
  <2> QED
    BY <2>1, SimClose
<1>2. CASE x \notin LineEnds /\ x \in Noise
  <2>1. Press(k, x) = k /\ Press(j, x) = j
    BY <1>2 DEF Press
  <2> QED
    BY <2>1
<1>3. CASE x \notin LineEnds /\ x \notin Noise
  <2>1. Press(k, x) = Append(k, x) /\ Press(j, x) = Append(j, x)
    BY <1>3 DEF Press
  <2>2. k \in Seq(Atoms) /\ j \in Seq(Atoms)
    BY SimText DEF Text
  <2>3. Append(k, x) = k \o <<x>> /\ Append(j, x) = j \o <<x>>
    BY <2>2, AppendIs
  <2>4. Sim(Append(u, x), k \o <<x>>, j \o <<x>>)
    <3>1. x \in Units /\ left[x] = <<x>> /\ right[x] = <<x>>
      BY UnitOf
    <3> QED
      BY <3>1, SimAppend
  <2> QED
    BY <2>1, <2>3, <2>4
<1> QED
  BY <1>1, <1>2, <1>3

\* A broken word pressed onto one side and its first half onto the other is a torn unit.
LEMMA SimTorn ==
    ASSUME NEW u, NEW k, NEW j, Sim(u, k, j)
    PROVE  \E v : Sim(v, Press(k, HyphenWord), Press(j, JoinedWord)) /\ Torn(v)
<1>1. Press(k, HyphenWord) = Append(k, HyphenWord) /\ Press(j, JoinedWord) = Append(j, JoinedWord)
  BY UnitsAre, LettersAre DEF Press
<1>2. k \in Seq(Atoms) /\ j \in Seq(Atoms)
  BY SimText DEF Text
<1>3. Append(k, HyphenWord) = k \o <<HyphenWord>> /\ Append(j, JoinedWord) = j \o <<JoinedWord>>
  BY <1>2, UnitsAre, AppendIs
<1>4. Sim(Append(u, "torn"), k \o <<HyphenWord>>, j \o <<JoinedWord>>)
  BY UnitsAre, SimAppend
<1>5. Torn(Append(u, "torn"))
  BY DEF Torn, Sim
<1> QED
  BY <1>1, <1>3, <1>4, <1>5

\* The space or newline behind a broken word, gone on the other side, goes into the torn unit.
LEMMA SimGap ==
    ASSUME NEW u, NEW k, NEW j, Sim(u, k, j), Torn(u), NEW x \in {SP, NL}
    PROVE  \E v : Sim(v, Press(k, x), j) /\ Torn(v)
<1>1. CASE x = SP
  <2>1. Press(k, x) = k
    BY <1>1, UnitsAre DEF Press
  <2> QED
    BY <2>1
<1>2. CASE x = NL
  <2>1. Press(k, x) = Close(k)
    BY <1>2, UnitsAre DEF Press
  <2>2. PICK q \in Seq(Units), e \in {"torn", "joined"} : u = Append(q, e)
    BY DEF Torn
  <2> DEFINE kq == Spelled(left, q)
             jq == Spelled(right, q)
  <2>3. Sim(q, kq, jq)
    BY DEF Sim
  <2>4. kq \in Text /\ jq \in Text /\ e \in Units
    BY <2>3, SimText, UnitsAre
  <2>5. Spelled(left, Append(q, e)) = kq \o left[e]
    BY <2>4, UnitsAppend
  <2>6. Spelled(right, Append(q, e)) = jq \o right[e]
    BY <2>4, UnitsAppend
  <2>7. k = kq \o left[e] /\ j = jq \o <<JoinedWord>>
    BY <2>2, <2>5, <2>6, UnitsAre DEF Sim
  <2> HIDE DEF kq, jq
  <2>8. Close(k) = kq \o <<HyphenWord, NL>>
    <3>0. kq \o <<HyphenWord>> \in Text
      BY <2>4, UnitsAre DEF Text
    <3>1. (kq \o <<HyphenWord>>) \o <<NL>> = kq \o <<HyphenWord, NL>>
      BY <2>4 DEF Text
    <3>2. CASE e = "torn"
      <4>1. k = kq \o <<HyphenWord>>
        BY <2>7, <3>2, UnitsAre
      <4> QED
        BY <2>4, <3>1, <4>1, UnitsAre, CloseOf
    <3>3. CASE e = "joined"
      <4>1. k = (kq \o <<HyphenWord>>) \o <<NL>>
        BY <2>7, <3>1, <3>3, UnitsAre
      <4> QED
        BY <3>0, <3>1, <4>1, UnitsAre, CloseOf
    <3> QED
      BY <3>2, <3>3
  <2>9. Sim(Append(q, "joined"), kq \o <<HyphenWord, NL>>, jq \o <<JoinedWord>>)
    BY <2>3, UnitsAre, SimAppend
  <2>10. Torn(Append(q, "joined"))
    BY DEF Torn
  <2> QED
    BY <2>1, <2>7, <2>8, <2>9, <2>10
<1> QED
  BY <1>1, <1>2

\* Joining the words broken at line ends leaves two cores of the same units: only the line end
\* behind a broken word is gone.
LEMMA DehyphenateUnits == ASSUME NEW t \in Text PROVE \E u : Sim(u, Core(t), Core(Dehyphenate(t)))
<1> DEFINE Next1(i) == Min({k \in i + 1 .. Len(t) : t[k] \notin {SP, NL}} \cup {Len(t) + 1})
           Broken(i) == /\ t[i] = HyphenWord
                        /\ Next1(i) <= Len(t) /\ t[Next1(i)] \in LowerCase
                        /\ \E k \in i + 1 .. Next1(i) - 1 : t[k] = NL
           gone == UNION {i + 1 .. Next1(i) - 1 : i \in {k \in DOMAIN t : Broken(k)}}
           f == [i \in DOMAIN t |-> IF Broken(i) THEN JoinedWord ELSE t[i]]
           n == Len(t)
<1>1. Dehyphenate(t) = Without(f, gone)
  BY DEF Dehyphenate
<1>2. t \in Seq(Atoms) /\ n \in Nat /\ DOMAIN t = 1 .. n /\ (\A i \in 1 .. n : t[i] \in Atoms)
  BY DEF Text
<1>3. \A i : Broken(i) => t[i] = HyphenWord
  OBVIOUS
<1>m. ASSUME NEW i \in 1 .. n PROVE Next1(i) \in Int
  <2> DEFINE S == {m \in i + 1 .. n : t[m] \notin {SP, NL}} \cup {n + 1}
  <2>1. S \in SUBSET (i + 1 .. n + 1) /\ S # {} /\ i + 1 \in Int /\ n + 1 \in Int
    BY <1>2
  <2>2. Next1(i) = Min(S)
    OBVIOUS
  <2> HIDE DEF S, Next1
  <2>4. Min(S) \in S
    BY ONLY <2>1, MinOf
  <2>5. \A m \in S : m \in Int
    BY <2>1
  <2> QED
    BY ONLY <2>2, <2>4, <2>5
<1>4. ASSUME NEW i \in 1 .. n, NEW k \in i + 1 .. Next1(i) - 1
      PROVE  k \in i + 1 .. n /\ t[k] \in {SP, NL}
  <2> DEFINE S == {m \in i + 1 .. n : t[m] \notin {SP, NL}} \cup {n + 1}
  <2>1. S \in SUBSET (i + 1 .. n + 1) /\ S # {} /\ i + 1 \in Int /\ n + 1 \in Int
    BY <1>2
  <2>2. Next1(i) = Min(S)
    OBVIOUS
  <2>3. \A m : m \in S <=> m = n + 1 \/ (m \in i + 1 .. n /\ t[m] \notin {SP, NL})
    OBVIOUS
  <2> HIDE DEF S
  <2>4. Min(S) \in S /\ \A m \in S : Min(S) <= m
    BY ONLY <2>1, MinOf
  <2> HIDE DEF Next1
  <2>5. k \in i + 1 .. n /\ k < Min(S)
    <3>1. Min(S) \in i + 1 .. n + 1 /\ k \in i + 1 .. Min(S) - 1
      BY <2>1, <2>2, <2>4
    <3> QED
      BY ONLY <1>2, <3>1, i \in 1 .. n
  <2>6. k \notin S
    <3>1. Min(S) \in Int /\ k \in Int
      <4>1. \A m \in S : m \in Int
        BY <2>1
      <4> QED
        BY <2>4, <2>5, <4>1
    <3>2. k \in S => Min(S) <= k
      BY <2>4
    <3> QED
      BY ONLY <2>5, <3>1, <3>2
  <2> QED
    BY <2>3, <2>5, <2>6
<1> HIDE DEF Next1
<1>5. \A k : k \in gone <=> \E i \in 1 .. n : Broken(i) /\ k \in i + 1 .. Next1(i) - 1
  BY <1>2
<1>6. f = [i \in DOMAIN t |-> f[i]] /\ \A i \in 1 .. n : f[i] = IF Broken(i) THEN JoinedWord ELSE t[i]
  BY <1>2
<1> HIDE DEF Broken, gone, f
<1>7. f \in Seq(Atoms) /\ Len(f) = n
  <2>1. \A i \in 1 .. n : f[i] \in Atoms
    BY <1>2, <1>6, UnitsAre
  <2>2. f \in Seq(Atoms) /\ Len(f) = Len(t)
    BY ONLY <1>2, <1>6, <2>1, MappedSequence
  <2> QED
    BY <2>2
<1>8. \A k \in gone : k \in 1 .. n /\ t[k] \in {SP, NL} /\ f[k] \in Atoms /\ ~Broken(k)
  <2> SUFFICES ASSUME NEW k \in gone PROVE k \in 1 .. n /\ t[k] \in {SP, NL} /\ f[k] \in Atoms /\ ~Broken(k)
    OBVIOUS
  <2>1. PICK i \in 1 .. n : Broken(i) /\ k \in i + 1 .. Next1(i) - 1
    BY <1>5
  <2>2. k \in i + 1 .. n /\ t[k] \in {SP, NL}
    BY <1>4, <2>1
  <2>3. k \in 1 .. n
    BY ONLY <1>2, <2>2, i \in 1 .. n
  <2>4. t[k] # HyphenWord
    BY <2>2, UnitsAre
  <2> QED
    BY <1>3, <1>7, <2>2, <2>3, <2>4, ElementOf
<1>9. ASSUME NEW k \in 1 .. n, k \in gone
      PROVE  k - 1 \in 1 .. n /\ (k - 1 \in gone \/ Broken(k - 1))
  <2>1. PICK i \in 1 .. n : Broken(i) /\ k \in i + 1 .. Next1(i) - 1
    BY <1>5, <1>9
  <2> DEFINE m == Next1(i) - 1
  <2>a. k \in i + 1 .. m /\ m \in Int
    BY <1>m, <2>1
  <2>b. \A p : p \in i + 1 .. m => p \in gone
    BY <1>5, <2>1
  <2> HIDE DEF m
  <2>2. k - 1 = i \/ k - 1 \in i + 1 .. m
    BY ONLY <2>a, i \in 1 .. n, k \in 1 .. n, <1>2
  <2>3. k - 1 \in 1 .. n
    BY ONLY <2>a, i \in 1 .. n, k \in 1 .. n, <1>2
  <2> QED
    BY <2>1, <2>2, <2>3, <2>b
<1>10. PICK p : Presses(p, <<>>, t) /\ From(<<>>, t) = p[n]
  BY FromRun, SomeTexts
<1>11. PICK sel : Selects(sel, Atoms, f, DOMAIN f \ gone)
  BY <1>7, SelectedRun
<1>12. Without(f, gone) = sel[n] /\ sel[0] = <<>> /\ p[0] = <<>> /\ sel \in [0 .. n -> Seq(Atoms)] /\ p \in [0 .. n -> Text]
  BY <1>7, <1>10, <1>11 DEF Selects, Presses, Without
<1> DEFINE From1(k) == From(<<>>, sel[k])
           Good(k) == \E u : Sim(u, p[k], From1(k)) /\ ((k \in 1 .. n /\ (k \in gone \/ Broken(k))) => Torn(u))
           S == {k \in 0 .. n : Good(k)}
<1>13. 0 \in S
  <2>1. Sim(<<>>, <<>>, <<>>)
    BY UnitsAre, SpelledNone DEF Sim
  <2>2. From1(0) = <<>>
    BY <1>12, FromNone, SomeTexts
  <2> QED
    BY <1>2, <1>12, <2>1, <2>2
<1>14. ASSUME NEW k \in 1 .. n, k - 1 \in S PROVE k \in S
  <2>0. Good(k - 1) /\ k - 1 \in 0 .. n /\ t[k] \in Atoms /\ f[k] \in Atoms
    <3>1. f[k] \in Atoms
      BY <1>7, ElementOf
    <3> QED
      BY <1>2, <1>14, <3>1
  <2>1. p[k] = Press(p[k - 1], t[k])
    BY <1>10 DEF Presses
  <2>2. sel[k] = IF k \in gone THEN sel[k - 1] ELSE Append(sel[k - 1], f[k])
    <3>1. k \in 1 .. Len(f) /\ k \in DOMAIN f
      BY <1>7
    <3> QED
      BY <1>11, <3>1 DEF Selects
  <2>3. sel[k - 1] \in Text
    BY <1>12, <2>0 DEF Text
  <2>4. PICK u : Sim(u, p[k - 1], From1(k - 1)) /\ ((k - 1 \in 1 .. n /\ (k - 1 \in gone \/ Broken(k - 1))) => Torn(u))
    BY <2>0
  <2>5. k \notin gone => From1(k) = Press(From1(k - 1), f[k])
    BY <2>0, <2>2, <2>3, FromAppend, SomeTexts
  <2>6. k \in gone => From1(k) = From1(k - 1)
    BY <2>2
  <2> HIDE DEF From1
  <2>7. CASE k \in gone
    <3>1. Torn(u) /\ t[k] \in {SP, NL}
      BY <1>8, <1>9, <2>4, <2>7
    <3>2. PICK v : Sim(v, Press(p[k - 1], t[k]), From1(k - 1)) /\ Torn(v)
      BY <2>4, <3>1, SimGap
    <3> QED
      BY <2>1, <2>6, <2>7, <3>2
  <2>8. CASE k \notin gone /\ Broken(k)
    <3>1. t[k] = HyphenWord /\ f[k] = JoinedWord
      BY <1>3, <1>6, <2>8
    <3>2. PICK v : Sim(v, Press(p[k - 1], HyphenWord), Press(From1(k - 1), JoinedWord)) /\ Torn(v)
      BY <2>4, SimTorn
    <3> QED
      BY <2>1, <2>5, <2>8, <3>1, <3>2
  <2>9. CASE k \notin gone /\ ~ Broken(k)
    <3>1. f[k] = t[k]
      BY <1>6, <2>9
    <3>2. PICK v : Sim(v, Press(p[k - 1], t[k]), Press(From1(k - 1), t[k]))
      BY <2>0, <2>4, SimPress
    <3> QED
      BY <2>1, <2>5, <2>9, <3>1, <3>2
  <2> QED
    BY <2>7, <2>8, <2>9
<1> HIDE DEF S
<1>15. n \in S
  <2>1. \A k \in 0 .. n : k \in S
    BY ONLY <1>2, <1>13, <1>14, Forwards
  <2> QED
    BY <1>2, <2>1
<1>16. PICK u : Sim(u, p[n], From1(n))
  BY <1>15 DEF S
<1>17. Core(t) = Close(p[n]) /\ Core(Dehyphenate(t)) = Close(From1(n))
  BY <1>1, <1>10, <1>12 DEF Core
<1> QED
  BY <1>16, <1>17, SimClose
=============================================================================
