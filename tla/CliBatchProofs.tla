--------------------------- MODULE CliBatchProofs ---------------------------
(***************************************************************************)
(* Proofs about CliBatch for every directory, every set of commands, any   *)
(* number of threads and of failing writes, and whatever the parsers, the  *)
(* cleaning and the chunker make of a file.                                *)
(*                                                                         *)
(* ReportIsComplete needs BatchInv: no file is collected twice, a result   *)
(* is that of its file, and no file is counted twice, so that there are    *)
(* as many results as files when every file is counted.                    *)
(*                                                                         *)
(* PairsBelongTogether needs DiskInv.  A file that is alone with its stem  *)
(* finds its own output from the moment it is written.  One thread works   *)
(* on one file at a time, so behind it the last sibling that wrote has     *)
(* written both files of the pair, unless one is in the middle of it.      *)
(*                                                                         *)
(* ChunksFit and ChunksRenderTheContent need TextInv: what can be read are *)
(* texts, and a result that is ok has the chunks of its content.  What the *)
(* chunks of a text are is in PipelineProofs.                              *)
(*                                                                         *)
(* DocumentKept follows a document through the whole cleaning.  CodeKept:  *)
(* no run of prose crosses a fence, so a block of code goes through it as  *)
(* it is, but for the blank lines around it.  WordsSurvive: the cleaning   *)
(* works on one run of prose at a time.  The lines it takes for headers and *)
(* footers stand on two pages, so they have a twin (EdgesMasked); the lines *)
(* of contents keep their words but for the row above a separator row      *)
(* (WordsToc).  The lines that the contents are made of are, by their      *)
(* cores, groups of the run's lines (Grouped), and a header row's group    *)
(* lies among the ContentsHeaders of the run (HeaderLines) and so of the   *)
(* document (HeadersWithin).  Amid is what is left to show of each piece:  *)
(* no word is invented, and none of the lines that must stay is lost.      *)
(***************************************************************************)
EXTENDS CliBatch, PipelineProofs, FiniteSetTheorems

Phases  == {"queued", "processed", "half written", "written", "failed", "raised"}

Outcomes == {result[f] : f \in DOMAIN result}

\* No file is collected twice, and each has a phase.
FilesInv ==
    /\ files \in Seq(Range(files))
    /\ \A i, k \in DOMAIN files : files[i] = files[k] => i = k
    /\ DOMAIN phase = Range(files)
    /\ \A f \in Range(files) : phase[f] \in Phases
    /\ exit = "not started" => files = <<>>

\* A file has a result once it is processed, and the result is that of the file.
ResultInv ==
    /\ DOMAIN result \subseteq Range(files)
    /\ \A f \in Range(files) : f \in DOMAIN result <=> phase[f] # "queued"
    /\ \A f \in DOMAIN result :
           /\ result[f].source = f /\ result[f].ok \in BOOLEAN
           /\ result[f].ok <=> phase[f] # "failed"

\* What is counted has ended, and is counted once.
CountedInv ==
    /\ counted \in Seq(Outcomes)
    /\ \A n \in DOMAIN counted : phase[counted[n].source] \in {"written", "failed"}
    /\ \A m, n \in DOMAIN counted : counted[m].source = counted[n].source => m = n

ExitInv ==
    Reported => /\ \A f \in Range(files) : IsCounted(f)
                /\ (exit = "all processed") <=> (\A n \in DOMAIN counted : counted[n].ok)

BatchInv == FilesInv /\ ResultInv /\ CountedInv /\ ExitInv
-----------------------------------------------------------------------------
(* The batch.                                                               *)

\* What the range of a sequence is.
LEMMA RangeOf == ASSUME NEW s PROVE \A x : x \in Range(s) <=> \E i \in DOMAIN s : s[i] = x
BY DEF Range

\* The empty sequence.
LEMMA Nothing ==
    /\ DOMAIN <<>> = {} /\ Range(<<>>) = {}
    /\ \A S : <<>> \in Seq(S)
<1>1. DOMAIN <<>> = {}
  OBVIOUS
<1>2. Range(<<>>) = {}
  BY <1>1, RangeOf
<1> QED
  BY <1>1, <1>2

\* A function with one more value.
LEMMA WithOne ==
    ASSUME NEW f, NEW a, NEW v
    PROVE  /\ DOMAIN With(f, a, v) = DOMAIN f \cup {a} /\ With(f, a, v)[a] = v
           /\ \A b \in DOMAIN f : b # a => With(f, a, v)[b] = f[b]
BY DEF With

\* A sequence over a set is one over every larger set.
LEMMA SeqGrows == ASSUME NEW S, NEW T, S \subseteq T, NEW s \in Seq(S) PROVE s \in Seq(T)
OBVIOUS

\* The result of a file names it, and says whether it is ok.
LEMMA ResultNamesFile ==
    ASSUME NEW path, NEW file
    PROVE  ProcessFile(path, file).source = path /\ ProcessFile(path, file).ok \in BOOLEAN
<1>1. Failure(path).source = path /\ Failure(path).ok \in BOOLEAN
  BY DEF Failure
<1>2. ASSUME NEW chosen
      PROVE  Extracted(path, chosen).source = path /\ Extracted(path, chosen).ok \in BOOLEAN
  <2>1. ASSUME NEW markdown
        PROVE  /\ Success(path, chosen, markdown).source = path
               /\ Success(path, chosen, markdown).ok \in BOOLEAN
    BY DEF Success
  <2> QED
    BY <2>1 DEF Extracted
<1>3. ASSUME NEW extracted
      PROVE  ResultOf(path, extracted).source = path /\ ResultOf(path, extracted).ok \in BOOLEAN
  BY <1>1, <1>2 DEF ResultOf
<1> QED
  BY <1>1, <1>3 DEF ProcessFile

\* What is counted is the result of a collected file.
LEMMA CountedAre ==
    ASSUME ResultInv, CountedInv, NEW n \in DOMAIN counted
    PROVE  /\ counted[n].source \in DOMAIN result /\ counted[n] = result[counted[n].source]
           /\ counted[n].source \in Range(files)
<1>1. counted[n] \in Outcomes
  BY DEF CountedInv
<1>2. PICK f \in DOMAIN result : counted[n] = result[f]
  BY <1>1 DEF Outcomes
<1>3. result[f].source = f
  BY DEF ResultInv
<1>4. \A g \in DOMAIN result : g \in Range(files)
  BY DEF ResultInv
<1> QED
  BY <1>2, <1>3, <1>4

\* A sequence that has every element of a set once is as long as the set is large.
LEMMA EachOnce ==
    ASSUME NEW S, NEW m \in Nat, NEW f \in [1 .. m -> S],
           \A i, k \in 1 .. m : f[i] = f[k] => i = k,
           \A x \in S : \E i \in 1 .. m : f[i] = x
    PROVE  Cardinality(S) = m
<1>1. f \in Bijection(1 .. m, S)
  BY DEF Bijection, Injection, Surjection, IsInjective
<1>2. ExistsBijection(1 .. m, S)
  BY <1>1 DEF ExistsBijection
<1> QED
  BY <1>2, FS_CountingElements

\* A task that has its result goes on, or its write raises.
LEMMA TaskGoesOn ==
    ASSUME BatchInv, NEW f \in Range(files), NEW p \in {"half written", "written", "raised"},
           phase[f] \in {"processed", "half written"}, phase' = [phase EXCEPT ![f] = p],
           UNCHANGED <<files, result, counted, exit>>
    PROVE  BatchInv'
<1>1. f \in DOMAIN phase /\ DOMAIN phase' = DOMAIN phase
  BY DEF BatchInv, FilesInv
<1>2. \A g \in Range(files) : phase'[g] = IF g = f THEN p ELSE phase[g]
  BY <1>1 DEF BatchInv, FilesInv
<1>3. FilesInv'
  BY <1>1, <1>2 DEF BatchInv, FilesInv, Phases
<1>4. ResultInv'
  <2>1. \A g \in Range(files) : /\ phase'[g] # "queued" <=> phase[g] # "queued"
                                /\ phase'[g] # "failed" <=> phase[g] # "failed"
    BY <1>2
  <2>2. \A g \in Range(files) : g \in DOMAIN result <=> phase'[g] # "queued"
    BY <2>1 DEF BatchInv, ResultInv
  <2>3. \A g \in DOMAIN result : result[g].ok <=> phase'[g] # "failed"
    BY <2>1, <2>2 DEF BatchInv, ResultInv
  <2> QED
    BY <2>2, <2>3 DEF BatchInv, ResultInv
<1>5. CountedInv'
  <2>1. \A n \in DOMAIN counted : counted[n].source \in Range(files) /\ counted[n].source # f
    BY CountedAre DEF BatchInv, CountedInv
  <2>2. Outcomes' = Outcomes
    BY DEF Outcomes
  <2> QED
    BY <1>2, <2>1, <2>2 DEF BatchInv, CountedInv
<1>6. ExitInv'
  BY DEF BatchInv, ExitInv, Reported, IsCounted
<1> QED
  BY <1>3, <1>4, <1>5, <1>6 DEF BatchInv

\* The command collects each file once.
LEMMA CollectBatch == ASSUME BatchInv, Collect PROVE BatchInv'
<1> DEFINE Found(name) == /\ Path("in", name) \in DOMAIN disk
                          /\ IF command.single THEN Path("in", name) \in DOMAIN command.input
                             ELSE name[2] \in command.include
           I == {i \in DOMAIN Names : Found(Names[i])}
           names == Selected(Names, I)
<1>1. /\ files' = [i \in DOMAIN names |-> Path("in", names[i])]
      /\ phase' = [f \in Range(files') |-> "queued"]
      /\ exit' = IF names = <<>> THEN "no files" ELSE "no"
      /\ exit = "not started" /\ UNCHANGED <<result, counted>>
  BY DEF Collect
<1> HIDE DEF I
<1>2. I \in SUBSET DOMAIN Names
  BY DEF I
<1>3. names \in Seq(Range(Names)) /\ Within(names, Names, Len(Names))
  BY <1>2, NamesAssumption, SelectedWithin
<1> HIDE DEF names
<1>4. PICK p \in [1 .. Len(names) -> 1 .. Len(Names)] :
         Increasing(p) /\ \A k \in 1 .. Len(names) : names[k] = Names[p[k]]
  BY <1>3 DEF Within
<1>5. DOMAIN names = 1 .. Len(names) /\ Len(names) \in Nat /\ DOMAIN Names = 1 .. Len(Names)
  BY <1>3, NamesAssumption
<1>6. \A i, k \in DOMAIN names : files'[i] = files'[k] => i = k
  <2> SUFFICES ASSUME NEW i \in DOMAIN names, NEW k \in DOMAIN names, files'[i] = files'[k]
               PROVE  i = k
    OBVIOUS
  <2>1. Path("in", names[i]) = Path("in", names[k])
    BY <1>1
  <2>2. names[i][1] = names[k][1] /\ names[i][2] = names[k][2]
    BY <2>1 DEF Path
  <2>3. p[i] \in DOMAIN Names /\ p[k] \in DOMAIN Names
    BY <1>5
  <2>4. p[i] = p[k]
    BY <1>4, <1>5, <2>2, <2>3, NamesAssumption
  <2>5. p[i] \in Nat /\ p[k] \in Nat /\ i \in Nat /\ k \in Nat /\ DOMAIN p = 1 .. Len(names)
    BY <1>5, <2>3
  <2> QED
    BY <1>4, <1>5, <2>4, <2>5 DEF Increasing
<1>7. DOMAIN files' = DOMAIN names /\ \A i \in DOMAIN names : files'[i] \in Range(files')
  BY <1>1, RangeOf
<1>8. files' \in [1 .. Len(names) -> Range(files')]
  BY <1>1, <1>5, <1>7
<1>9. files' \in Seq(Range(files'))
  BY <1>5, <1>8
<1>10. FilesInv'
  BY <1>1, <1>6, <1>7, <1>9 DEF FilesInv, Phases
<1>11. DOMAIN result = {}
  <2>1. Range(files) = {}
    BY <1>1, Nothing DEF BatchInv, FilesInv
  <2> QED
    BY <2>1 DEF BatchInv, ResultInv
<1>12. ResultInv'
  BY <1>1, <1>11 DEF ResultInv
<1>13. DOMAIN counted = {}
  <2>1. counted \in Seq({})
    BY <1>11 DEF BatchInv, CountedInv, Outcomes
  <2> QED
    BY <2>1
<1>14. CountedInv'
  BY ZenonT(30), <1>1, <1>13 DEF CountedInv, Outcomes, BatchInv
<1>15. ExitInv'
  BY <1>1 DEF ExitInv, Reported
<1> QED
  BY <1>10, <1>12, <1>14, <1>15 DEF BatchInv

\* A file that is processed has its own result.
LEMMA ProcessBatch == ASSUME BatchInv, NEW i \in DOMAIN files, Process(i) PROVE BatchInv'
<1> DEFINE f == files[i]
           r == ProcessFile(f, Read(f))
<1>1. /\ result' = With(result, f, r) /\ phase[f] = "queued"
      /\ phase' = [phase EXCEPT ![f] = IF result'[f].ok THEN "processed" ELSE "failed"]
      /\ UNCHANGED <<counted, files, exit>> /\ exit \in {"no", "unwinding"}
  BY DEF Process
<1>2. f \in Range(files)
  BY RangeOf
<1>3. r.source = f /\ r.ok \in BOOLEAN
  BY ResultNamesFile
<1> HIDE DEF f, r
<1>4. f \notin DOMAIN result
  BY <1>1 DEF BatchInv, ResultInv
<1>5. /\ DOMAIN result' = DOMAIN result \cup {f} /\ result'[f] = r
      /\ \A g \in DOMAIN result : result'[g] = result[g]
  <2>1. /\ DOMAIN With(result, f, r) = DOMAIN result \cup {f} /\ With(result, f, r)[f] = r
        /\ \A g \in DOMAIN result : g # f => With(result, f, r)[g] = result[g]
    BY DEF With
  <2> QED
    BY <1>1, <1>4, <2>1
<1>6. /\ DOMAIN phase' = Range(files)
      /\ \A g \in Range(files) : phase'[g] = IF g = f THEN IF r.ok THEN "processed" ELSE "failed"
                                                      ELSE phase[g]
  BY <1>1, <1>2, <1>5 DEF BatchInv, FilesInv
<1>7. FilesInv'
  BY <1>1, <1>6 DEF BatchInv, FilesInv, Phases
<1>8. ResultInv'
  <2>1. /\ DOMAIN result' \subseteq Range(files)
        /\ \A g \in Range(files) : g \in DOMAIN result' <=> phase'[g] # "queued"
    BY <1>2, <1>5, <1>6 DEF BatchInv, ResultInv
  <2>2. ASSUME NEW g \in DOMAIN result'
        PROVE  /\ result'[g].source = g /\ result'[g].ok \in BOOLEAN
               /\ result'[g].ok <=> phase'[g] # "failed"
    <3>1. CASE g = f
      BY <1>2, <1>3, <1>5, <1>6, <3>1
    <3>2. CASE g # f
      BY <1>5, <1>6, <2>1, <2>2, <3>2 DEF BatchInv, ResultInv
    <3> QED
      BY <3>1, <3>2
  <2> QED
    BY <1>1, <2>1, <2>2 DEF ResultInv
<1>9. CountedInv'
  <2>1. Outcomes \subseteq Outcomes'
    BY <1>5 DEF Outcomes
  <2>2. counted \in Seq(Outcomes')
    BY <2>1, SeqGrows DEF BatchInv, CountedInv
  <2>3. \A n \in DOMAIN counted : counted[n].source \in Range(files) /\ counted[n].source # f
    BY <1>4, CountedAre DEF BatchInv
  <2> QED
    BY <1>1, <1>6, <2>2, <2>3 DEF BatchInv, CountedInv
<1>10. ExitInv'
  BY <1>1 DEF ExitInv, Reported
<1> QED
  BY <1>7, <1>8, <1>9, <1>10 DEF BatchInv

\* The loop over the results counts each of them once.
LEMMA CountBatch == ASSUME BatchInv, NEW f \in Range(files), Count(f) PROVE BatchInv'
<1>1. /\ exit = "no" /\ ~IsCounted(f) /\ phase[f] \in {"written", "failed"}
      /\ counted' = Append(counted, result[f]) /\ UNCHANGED <<files, phase, result, exit>>
  BY DEF Count
<1>2. f \in DOMAIN result /\ result[f].source = f
  BY <1>1 DEF BatchInv, ResultInv
<1>3. result[f] \in Outcomes /\ counted \in Seq(Outcomes)
  BY <1>2 DEF Outcomes, BatchInv, CountedInv
<1>4. /\ counted' \in Seq(Outcomes) /\ DOMAIN counted' = 1 .. Len(counted) + 1
      /\ DOMAIN counted = 1 .. Len(counted) /\ Len(counted) \in Nat
      /\ counted'[Len(counted) + 1] = result[f]
      /\ \A n \in DOMAIN counted : counted'[n] = counted[n]
  BY <1>1, <1>3
<1>5. \A n \in DOMAIN counted : counted[n].source # f
  BY <1>1 DEF IsCounted
<1>6. \A n \in DOMAIN counted' : n \in DOMAIN counted \/ n = Len(counted) + 1
  BY <1>4
<1>7. Outcomes' = Outcomes
  BY <1>1 DEF Outcomes
<1>8. \A n \in DOMAIN counted' : phase[counted'[n].source] \in {"written", "failed"}
  BY <1>1, <1>2, <1>4, <1>6 DEF BatchInv, CountedInv
<1>9. \A m, n \in DOMAIN counted' : counted'[m].source = counted'[n].source => m = n
  BY <1>2, <1>4, <1>5, <1>6 DEF BatchInv, CountedInv
<1>10. CountedInv'
  BY <1>1, <1>4, <1>7, <1>8, <1>9 DEF CountedInv
<1>11. FilesInv' /\ ResultInv' /\ ExitInv'
  BY <1>1 DEF BatchInv, FilesInv, ResultInv, ExitInv, Reported
<1> QED
  BY <1>10, <1>11 DEF BatchInv

\* The end of main: the exit code says whether every result is ok.
LEMMA FinishBatch == ASSUME BatchInv, Finish PROVE BatchInv'
<1>1. /\ \A f \in Range(files) : IsCounted(f)
      /\ exit' = IF \E n \in DOMAIN counted : ~counted[n].ok THEN "some failed" ELSE "all processed"
      /\ UNCHANGED <<files, phase, result, counted>>
  BY DEF Finish
<1>2. ExitInv'
  BY <1>1 DEF ExitInv, Reported, IsCounted
<1>3. Outcomes' = Outcomes
  BY <1>1 DEF Outcomes
<1> QED
  BY <1>1, <1>2, <1>3 DEF BatchInv, FilesInv, ResultInv, CountedInv

\* A batch with nothing in it.
LEMMA EmptyBatch ==
    ASSUME files = <<>>, phase = <<>>, result = <<>>, counted = <<>>, exit = "not started"
    PROVE  BatchInv
<1>1. Range(files) = {} /\ DOMAIN files = {} /\ DOMAIN counted = {} /\ DOMAIN phase = {}
      /\ DOMAIN result = {}
  BY Nothing
<1>2. files \in Seq(Range(files)) /\ counted \in Seq(Outcomes)
  BY Nothing
<1> QED
  BY <1>1, <1>2 DEF BatchInv, FilesInv, ResultInv, CountedInv, ExitInv, Reported

\* Where the end of the command is another one and nothing else changes.
LEMMA ExitBatch ==
    ASSUME BatchInv, UNCHANGED <<files, phase, result, counted>>,
           exit' = exit \/ exit' \in {"unwinding", "crashed"}
    PROVE  BatchInv'
<1>1. FilesInv' /\ ResultInv' /\ ExitInv'
  BY DEF BatchInv, FilesInv, ResultInv, ExitInv, Reported, IsCounted
<1>2. Outcomes' = Outcomes
  BY DEF Outcomes
<1> QED
  BY <1>1, <1>2 DEF BatchInv, CountedInv

\* Every step preserves BatchInv.
LEMMA NextBatchInv == BatchInv /\ [Next]_vars => BatchInv'
<1> SUFFICES ASSUME BatchInv, [Next]_vars PROVE BatchInv'
  OBVIOUS
<1>1. CASE Collect
  BY <1>1, CollectBatch
<1>2. CASE Unwind
  BY <1>2, ExitBatch DEF Unwind
<1>3. CASE Finish
  BY <1>3, FinishBatch
<1>4. CASE Again
  <2>1. files' = <<>> /\ phase' = <<>> /\ result' = <<>> /\ counted' = <<>> /\ exit' = "not started"
    BY <1>4 DEF Again
  <2>2. (files = <<>> /\ phase = <<>> /\ result = <<>> /\ counted = <<>> /\ exit = "not started"
           => BatchInv)'
    BY EmptyBatch, PTL
  <2> QED
    BY <2>1, <2>2
<1>5. CASE Ended \/ UNCHANGED vars
  BY <1>5, ExitBatch DEF Ended, vars
<1>6. ASSUME NEW i \in DOMAIN files, Process(i) PROVE BatchInv'
  BY <1>6, ProcessBatch
<1>7. ASSUME NEW f \in Range(files), WriteMarkdown(f) \/ WriteJson(f) \/ WriteFails(f) PROVE BatchInv'
  <2>1. CASE WriteMarkdown(f)
    BY <2>1, TaskGoesOn DEF WriteMarkdown
  <2>2. CASE WriteJson(f)
    BY <2>2, TaskGoesOn DEF WriteJson
  <2>3. CASE WriteFails(f)
    BY <2>3, TaskGoesOn DEF WriteFails
  <2> QED
    BY <1>7, <2>1, <2>2, <2>3
<1>8. ASSUME NEW f \in Range(files), Count(f) PROVE BatchInv'
  BY <1>8, CountBatch
<1>9. ASSUME NEW f \in Range(files), Raise(f) PROVE BatchInv'
  BY <1>9, ExitBatch DEF Raise
<1> QED
  BY <1>1, <1>2, <1>3, <1>4, <1>5, <1>6, <1>7, <1>8, <1>9 DEF Next

\* BatchInv holds at the start.
LEMMA InitBatch == Init => BatchInv
BY EmptyBatch DEF Init

\* BatchInv holds in every state.
LEMMA BatchInvariant == Spec => []BatchInv
BY InitBatch, NextBatchInv, PTL DEF Spec

\* The collected files are a sequence.
LEMMA FilesAre ==
    ASSUME BatchInv
    PROVE  /\ Len(files) \in Nat /\ DOMAIN files = 1 .. Len(files)
           /\ files \in [1 .. Len(files) -> Range(files)]
<1>1. files \in Seq(Range(files))
  BY DEF BatchInv, FilesInv
<1> QED
  BY <1>1

\* When every file is counted there are as many results as files.
LEMMA AllCounted ==
    ASSUME BatchInv, \A f \in Range(files) : IsCounted(f)
    PROVE  Len(counted) = Len(files)
<1> DEFINE source == [n \in 1 .. Len(counted) |-> counted[n].source]
<1>1. counted \in Seq(Outcomes)
  BY DEF BatchInv, CountedInv
<1>2. Len(counted) \in Nat /\ DOMAIN counted = 1 .. Len(counted)
  BY <1>1
<1>3. Cardinality(Range(files)) = Len(files)
  <2>1. \A i, k \in 1 .. Len(files) : files[i] = files[k] => i = k
    BY FilesAre DEF BatchInv, FilesInv
  <2>2. \A x \in Range(files) : \E i \in 1 .. Len(files) : files[i] = x
    BY FilesAre, RangeOf
  <2>3. Len(files) \in Nat /\ files \in [1 .. Len(files) -> Range(files)]
    BY FilesAre
  <2> QED
    BY ONLY SMTT(30), <2>1, <2>2, <2>3, EachOnce
<1>4. Cardinality(Range(files)) = Len(counted)
  <2>1. source \in [1 .. Len(counted) -> Range(files)]
    BY <1>2, CountedAre DEF BatchInv
  <2>2. \A i, k \in 1 .. Len(counted) : source[i] = source[k] => i = k
    BY <1>2 DEF BatchInv, CountedInv
  <2>3. \A x \in Range(files) : \E i \in 1 .. Len(counted) : source[i] = x
    BY <1>2 DEF IsCounted
  <2> HIDE DEF source
  <2> QED
    BY ONLY <1>2, <2>1, <2>2, <2>3, EachOnce
<1> QED
  BY <1>3, <1>4

\* The report of a batch has every collected file once, with the outcome of that file,
\* and the exit code 0 says that all of them were processed, for any number of threads
\* and in whichever order they end.
THEOREM ReportComplete == Spec => []ReportIsComplete
<1>1. ASSUME BatchInv, Reported PROVE ReportIsComplete
  <2>1. \A f \in Range(files) : IsCounted(f)
    BY <1>1 DEF BatchInv, ExitInv
  <2>2. Len(counted) = Len(files)
    BY <1>1, <2>1, AllCounted
  <2>3. ASSUME NEW f \in Range(files) PROVE \E n \in DOMAIN counted : counted[n] = result[f]
    BY <1>1, <2>1, CountedAre DEF IsCounted, BatchInv
  <2>4. ASSUME NEW f \in Range(files)
        PROVE  phase[f] \in {"written", "failed"} /\ (result[f].ok <=> phase[f] = "written")
    <3>1. PICK n \in DOMAIN counted : counted[n].source = f
      BY <2>1 DEF IsCounted
    <3>2. phase[f] \in {"written", "failed"}
      BY <1>1, <3>1 DEF BatchInv, CountedInv
    <3> QED
      BY <1>1, <3>2 DEF BatchInv, ResultInv
  <2>5. (\A n \in DOMAIN counted : counted[n].ok) <=> (\A f \in Range(files) : phase[f] = "written")
    <3>1. \A n \in DOMAIN counted : counted[n].source \in Range(files)
                                    /\ counted[n] = result[counted[n].source]
      BY <1>1, CountedAre DEF BatchInv
    <3> QED
      BY <2>3, <2>4, <3>1
  <2>6. (exit = "all processed") = (\A f \in Range(files) : phase[f] = "written")
    BY <1>1, <2>5 DEF BatchInv, ExitInv
  <2> QED
    BY <2>2, <2>3, <2>6 DEF ReportIsComplete
<1>2. BatchInv => ReportIsComplete
  BY <1>1 DEF ReportIsComplete
<1> QED
  BY <1>2, BatchInvariant, PTL
-----------------------------------------------------------------------------
(* The files on the disk.                                                   *)

\* The files that are or will be written.
Accepted(f) == phase[f] \in {"processed", "half written", "written", "raised"}

\* No other file with the stem of f is written.
Alone(f) == \A g \in Range(files) : g.stem = f.stem /\ Accepted(g) => g = f

\* The report takes another place.
Spared(f) == ~(command.report /\ f.stem = "_report")

HasMarkdown(f) == Read(OutPath(f, "md")) = MarkdownFile(result[f])
HasJson(f)     == Read(OutPath(f, "json")) = JsonFile(result[f])

\* A file that is alone has its output, as far as it is written.
AloneInv ==
    \A f \in Range(files) :
        Alone(f) /\ Spared(f) =>
            /\ phase[f] \in {"half written", "written"} => HasMarkdown(f)
            /\ phase[f] = "written" => HasJson(f)

\* One thread begins a file when those before it are counted.
SerialInv ==
    ~Parallel =>
        \A i \in DOMAIN files :
            phase[files[i]] # "queued" => \A k \in 1 .. i - 1 : IsCounted(files[k])

\* Behind one thread, a file that is written has the pair of a sibling in its place, or a
\* sibling has begun to replace it.
PairInv ==
    ~Parallel =>
        \A f \in Range(files) :
            Spared(f) =>
                /\ phase[f] = "half written" => HasMarkdown(f)
                /\ phase[f] = "written" =>
                       \E g \in Range(files) :
                           /\ g.stem = f.stem
                           /\ \/ phase[g] \in {"half written", "raised"}
                              \/ phase[g] = "written" /\ HasMarkdown(g) /\ HasJson(g)

DiskInv == AloneInv /\ SerialInv /\ PairInv
-----------------------------------------------------------------------------
\* Outputs are in one place only for one stem.
LEMMA PathsApart ==
    ASSUME NEW f, NEW g, NEW a, NEW b
    PROVE  /\ OutPath(f, a) = OutPath(g, b) => f.stem = g.stem /\ a = b
           /\ f.stem = g.stem => OutPath(f, a) = OutPath(g, a)
           /\ OutPath(f, a) = ReportPath => f.stem = "_report"
BY DEF OutPath, ReportPath

\* What is read behind a write.
LEMMA ReadBehind ==
    ASSUME NEW p, NEW v, disk' = With(disk, p, v)
    PROVE  Read(p)' = v /\ \A q : q # p => Read(q)' = Read(q)
<1>1. /\ DOMAIN disk' = DOMAIN disk \cup {p} /\ disk'[p] = v
      /\ \A q \in DOMAIN disk : q # p => disk'[q] = disk[q]
  BY DEF With
<1> QED
  BY <1>1 DEF Read

\* What is read of outputs behind a write of one of them.
LEMMA OutputBehind ==
    ASSUME NEW f, NEW ext, NEW v, disk' = With(disk, OutPath(f, ext), v), UNCHANGED command
    PROVE  /\ Read(OutPath(f, ext))' = v
           /\ \A g, e : g.stem # f.stem \/ e # ext => Read(OutPath(g, e))' = Read(OutPath(g, e))
<1>1. \A g, e : OutPath(g, e)' = OutPath(g, e)
  BY DEF OutPath
<1>2. Read(OutPath(f, ext))' = IF OutPath(f, ext) \in DOMAIN disk' THEN disk'[OutPath(f, ext)] ELSE Absent
  BY <1>1 DEF Read
<1>3. /\ DOMAIN disk' = DOMAIN disk \cup {OutPath(f, ext)} /\ disk'[OutPath(f, ext)] = v
      /\ \A q \in DOMAIN disk : q # OutPath(f, ext) => disk'[q] = disk[q]
  BY DEF With
<1>4. ASSUME NEW g, NEW e, g.stem # f.stem \/ e # ext
      PROVE  Read(OutPath(g, e))' = Read(OutPath(g, e))
  <2>1. OutPath(g, e) # OutPath(f, ext)
    BY <1>4, PathsApart
  <2> QED
    BY <1>1, <1>3, <2>1 DEF Read
<1> QED
  BY <1>2, <1>3, <1>4

\* With one thread at most one file is between its beginning and its count.
LEMMA OneAtATime ==
    ASSUME BatchInv, SerialInv, ~Parallel, NEW f \in Range(files), NEW g \in Range(files),
           phase[f] \in {"processed", "half written"}, phase[g] \in {"processed", "half written"}
    PROVE  f = g
<1>1. ~IsCounted(f) /\ ~IsCounted(g)
  BY DEF IsCounted, BatchInv, CountedInv
<1>2. PICK i \in DOMAIN files : files[i] = f
  BY RangeOf
<1>3. PICK k \in DOMAIN files : files[k] = g
  BY RangeOf
<1>4. ~(i \in 1 .. k - 1) /\ ~(k \in 1 .. i - 1)
  BY <1>1, <1>2, <1>3 DEF SerialInv
<1>5. i \in Nat /\ k \in Nat /\ i >= 1 /\ k >= 1
  <2>1. Len(files) \in Nat /\ DOMAIN files = 1 .. Len(files)
    BY FilesAre
  <2>2. i \in 1 .. Len(files) /\ k \in 1 .. Len(files)
    BY <2>1
  <2> QED
    BY ONLY <2>1, <2>2
<1>6. i = k
  BY ONLY <1>4, <1>5
<1> QED
  BY <1>2, <1>3, <1>6

\* A file that is alone was alone before, while the files stay and none is given up.
LEMMA WasAlone ==
    ASSUME UNCHANGED files, \A g \in Range(files) : Accepted(g) => Accepted(g)'
    PROVE  \A g \in Range(files) : Alone(g)' => Alone(g)
BY DEF Alone

\* A task that goes on writes nothing but the outputs of its stem.
LEMMA TaskDisk ==
    ASSUME BatchInv, DiskInv, NEW f \in Range(files), NEW p \in {"half written", "written", "raised"},
           phase[f] \in {"processed", "half written"}, phase' = [phase EXCEPT ![f] = p],
           UNCHANGED <<command, files, result, counted>>,
           \A g : g.stem # f.stem => (HasMarkdown(g)' <=> HasMarkdown(g)) /\ (HasJson(g)' <=> HasJson(g)),
           p = "half written" => HasMarkdown(f)',
           p = "written" => phase[f] = "half written" /\ HasJson(f)' /\ (HasMarkdown(f) => HasMarkdown(f)')
    PROVE  DiskInv'
<1>1. \A g \in Range(files) : phase'[g] = IF g = f THEN p ELSE phase[g]
  BY DEF BatchInv, FilesInv
<1>2. \A g \in Range(files) : (Accepted(g) => Accepted(g)') /\ (Spared(g)' <=> Spared(g))
  BY <1>1 DEF Accepted, Spared
<1>3. Accepted(f)
  BY DEF Accepted
<1>4. \A g \in Range(files) : Alone(g)' => Alone(g)
  BY <1>2, WasAlone
<1>5. AloneInv'
  <2> SUFFICES ASSUME NEW g \in Range(files), Alone(g), Spared(g)
               PROVE  /\ phase'[g] \in {"half written", "written"} => HasMarkdown(g)'
                      /\ phase'[g] = "written" => HasJson(g)'
    BY <1>2, <1>4 DEF AloneInv
  <2>1. CASE g = f
    <3>1. phase[f] = "half written" => HasMarkdown(f)
      BY <2>1 DEF AloneInv, DiskInv
    <3> QED
      BY <1>1, <2>1, <3>1
  <2>2. CASE g # f
    <3>1. g.stem # f.stem
      BY <1>3, <2>2 DEF Alone
    <3>2. phase'[g] = phase[g]
      BY <1>1, <2>2
    <3> QED
      BY <3>1, <3>2 DEF AloneInv, DiskInv
  <2> QED
    BY <2>1, <2>2
<1>6. SerialInv'
  <2>1. Parallel' = Parallel /\ \A g : IsCounted(g)' = IsCounted(g)
    BY DEF Parallel, IsCounted
  <2>2. \A i \in DOMAIN files : phase'[files[i]] # "queued" => phase[files[i]] # "queued"
    BY ZenonT(30), <1>1, RangeOf
  <2> QED
    BY <2>1, <2>2 DEF SerialInv, DiskInv
<1>7. PairInv'
  <2> DEFINE Covered(g, h) ==
               /\ h.stem = g.stem
               /\ \/ phase'[h] \in {"half written", "raised"}
                  \/ phase'[h] = "written" /\ HasMarkdown(h)' /\ HasJson(h)'
  <2> SUFFICES ASSUME ~Parallel, NEW g \in Range(files), Spared(g)
               PROVE  /\ phase'[g] = "half written" => HasMarkdown(g)'
                      /\ phase'[g] = "written" => \E h \in Range(files) : Covered(g, h)
    BY <1>2 DEF PairInv, Parallel
  <2>1. phase'[g] = "half written" => g = f /\ p = "half written"
    BY <1>1, OneAtATime DEF DiskInv
  <2>2. ASSUME phase'[g] = "written", g.stem = f.stem PROVE Covered(g, f)
    <3>1. Spared(f)
      BY <2>2 DEF Spared
    <3>2. phase[f] = "half written" => HasMarkdown(f)
      BY <3>1 DEF PairInv, DiskInv
    <3>3. phase'[f] = p
      BY <1>1
    <3> QED
      BY <2>2, <3>2, <3>3
  <2>3. ASSUME phase'[g] = "written", g.stem # f.stem PROVE \E h \in Range(files) : Covered(g, h)
    <3>1. phase[g] = "written"
      BY <1>1, <2>3
    <3>2. PICK h \in Range(files) :
             /\ h.stem = g.stem
             /\ \/ phase[h] \in {"half written", "raised"}
                \/ phase[h] = "written" /\ HasMarkdown(h) /\ HasJson(h)
      BY <3>1 DEF PairInv, DiskInv
    <3>3. h.stem # f.stem /\ phase'[h] = phase[h]
      BY <1>1, <2>3, <3>2
    <3>4. Covered(g, h)
      BY <3>2, <3>3
    <3> QED
      BY <3>4
  <2> HIDE DEF Covered
  <2> QED
    BY <2>1, <2>2, <2>3
<1> QED
  BY <1>5, <1>6, <1>7 DEF DiskInv

\* A write of one output leaves those of other stems alone.
LEMMA ApartKept ==
    ASSUME NEW f, NEW ext, NEW v, disk' = With(disk, OutPath(f, ext), v), UNCHANGED <<command, result>>
    PROVE  \A g : g.stem # f.stem => (HasMarkdown(g)' <=> HasMarkdown(g)) /\ (HasJson(g)' <=> HasJson(g))
<1> TAKE g
<1> HAVE g.stem # f.stem
<1>1. Read(OutPath(g, "md"))' = Read(OutPath(g, "md")) /\ Read(OutPath(g, "json"))' = Read(OutPath(g, "json"))
  BY OutputBehind
<1> QED
  BY <1>1 DEF HasMarkdown, HasJson

\* The JSON goes next to the Markdown.
LEMMA JsonBehind ==
    ASSUME NEW f, NEW v, disk' = With(disk, OutPath(f, "json"), v), UNCHANGED command
    PROVE  Read(OutPath(f, "json"))' = v /\ Read(OutPath(f, "md"))' = Read(OutPath(f, "md"))
<1>1. "md" # "json"
  OBVIOUS
<1> QED
  BY <1>1, OutputBehind

\* What the three steps of a write make of the disk.
LEMMA WriteDisk ==
    ASSUME BatchInv, DiskInv, NEW f \in Range(files), WriteMarkdown(f) \/ WriteJson(f) \/ WriteFails(f)
    PROVE  DiskInv'
<1>1. CASE WriteMarkdown(f)
  <2>1. /\ phase[f] = "processed" /\ disk' = With(disk, OutPath(f, "md"), MarkdownFile(result[f]))
        /\ phase' = [phase EXCEPT ![f] = "half written"]
        /\ UNCHANGED <<command, files, result, counted>>
    BY <1>1 DEF WriteMarkdown
  <2>2. HasMarkdown(f)'
    BY <2>1, OutputBehind DEF HasMarkdown
  <2>3. \A g : g.stem # f.stem => (HasMarkdown(g)' <=> HasMarkdown(g)) /\ (HasJson(g)' <=> HasJson(g))
    BY <2>1, ApartKept
  <2> QED
    BY <2>1, <2>2, <2>3, TaskDisk
<1>2. CASE WriteJson(f)
  <2>1. /\ phase[f] = "half written" /\ disk' = With(disk, OutPath(f, "json"), JsonFile(result[f]))
        /\ phase' = [phase EXCEPT ![f] = "written"]
        /\ UNCHANGED <<command, files, result, counted>>
    BY <1>2 DEF WriteJson
  <2>2. /\ Read(OutPath(f, "json"))' = JsonFile(result[f])
        /\ Read(OutPath(f, "md"))' = Read(OutPath(f, "md"))
    BY <2>1, JsonBehind
  <2>3. HasJson(f)' /\ (HasMarkdown(f) => HasMarkdown(f)')
    BY <2>1, <2>2 DEF HasMarkdown, HasJson
  <2>4. \A g : g.stem # f.stem => (HasMarkdown(g)' <=> HasMarkdown(g)) /\ (HasJson(g)' <=> HasJson(g))
    BY <2>1, ApartKept
  <2> QED
    BY <2>1, <2>3, <2>4, TaskDisk
<1>3. CASE WriteFails(f)
  <2>1. /\ phase[f] \in {"processed", "half written"} /\ phase' = [phase EXCEPT ![f] = "raised"]
        /\ UNCHANGED <<command, disk, files, result, counted>>
    BY <1>3 DEF WriteFails
  <2>2. \A g : (HasMarkdown(g)' <=> HasMarkdown(g)) /\ (HasJson(g)' <=> HasJson(g))
    BY <2>1 DEF HasMarkdown, HasJson, Read, OutPath
  <2> QED
    BY <2>1, <2>2, TaskDisk
<1> QED
  BY <1>1, <1>2, <1>3

\* A file that is begun does not touch the disk.
LEMMA ProcessDisk == ASSUME BatchInv, DiskInv, NEW i \in DOMAIN files, Process(i) PROVE DiskInv'
<1> DEFINE f == files[i]
           p == IF result'[f].ok THEN "processed" ELSE "failed"
           r == ProcessFile(f, Read(f))
<1>1. /\ phase[f] = "queued" /\ phase' = [phase EXCEPT ![f] = p] /\ result' = With(result, f, r)
      /\ UNCHANGED <<command, disk, files, counted>>
      /\ ~Parallel => \A k \in 1 .. i - 1 : IsCounted(files[k])
  BY DEF Process
<1>2. f \in Range(files) /\ p \in {"processed", "failed"}
  BY RangeOf
<1>3. f = files[i]
  OBVIOUS
<1> HIDE DEF f, p, r
<1>4. \A g \in Range(files) : phase'[g] = IF g = f THEN p ELSE phase[g]
  BY <1>1 DEF BatchInv, FilesInv
<1>5. \A g \in Range(files) : phase[g] # "queued" => result'[g] = result[g] /\ g # f
  <2>1. \A g \in DOMAIN result : g # f => result'[g] = result[g]
    BY <1>1 DEF With
  <2> QED
    BY <1>1, <2>1 DEF BatchInv, ResultInv
<1>6. \A g \in Range(files) : phase[g] # "queued" =>
         /\ HasMarkdown(g)' <=> HasMarkdown(g)
         /\ HasJson(g)' <=> HasJson(g)
         /\ phase'[g] = phase[g]
  BY <1>1, <1>4, <1>5 DEF HasMarkdown, HasJson, Read, OutPath
<1>7. \A g \in Range(files) : phase'[g] \in {"half written", "written", "raised"} => phase[g] = phase'[g]
  BY <1>2, <1>4
<1>8. \A g \in Range(files) : (Accepted(g) => Accepted(g)') /\ (Spared(g)' <=> Spared(g))
  BY <1>1, <1>6 DEF Accepted, Spared
<1>9. \A g \in Range(files) : Alone(g)' => Alone(g)
  BY <1>1, <1>8, WasAlone
<1>10. AloneInv'
  <2> SUFFICES ASSUME NEW g \in Range(files), Alone(g), Spared(g)
               PROVE  /\ phase'[g] \in {"half written", "written"} => HasMarkdown(g)'
                      /\ phase'[g] = "written" => HasJson(g)'
    BY <1>1, <1>8, <1>9 DEF AloneInv
  <2> QED
    BY <1>6, <1>7 DEF AloneInv, DiskInv
<1>11. SerialInv'
  <2>1. Parallel' = Parallel /\ \A g : IsCounted(g)' = IsCounted(g)
    BY <1>1 DEF Parallel, IsCounted
  <2>2. ASSUME ~Parallel, NEW m \in DOMAIN files, phase'[files[m]] # "queued", NEW k \in 1 .. m - 1
        PROVE  IsCounted(files[k])
    <3>1. CASE m = i
      BY <1>1, <2>2, <3>1
    <3>2. CASE m # i
      <4>1. files[m] # f /\ files[m] \in Range(files)
        BY <1>3, <3>2, RangeOf DEF BatchInv, FilesInv
      <4>2. phase[files[m]] # "queued"
        BY <1>4, <2>2, <4>1
      <4> QED
        BY <2>2, <4>2 DEF SerialInv, DiskInv
    <3> QED
      BY <3>1, <3>2
  <2> QED
    BY <1>1, <2>1, <2>2 DEF SerialInv
<1>12. PairInv'
  <2> SUFFICES ASSUME ~Parallel, NEW g \in Range(files), Spared(g)
               PROVE  /\ phase'[g] = "half written" => HasMarkdown(g)'
                      /\ phase'[g] = "written" =>
                             \E h \in Range(files) :
                                 /\ h.stem = g.stem
                                 /\ \/ phase'[h] \in {"half written", "raised"}
                                    \/ phase'[h] = "written" /\ HasMarkdown(h)' /\ HasJson(h)'
    BY <1>1, <1>8 DEF PairInv, Parallel
  <2>1. phase'[g] = "half written" => HasMarkdown(g)'
    BY <1>6, <1>7 DEF PairInv, DiskInv
  <2>2. ASSUME phase'[g] = "written"
        PROVE  \E h \in Range(files) :
                   /\ h.stem = g.stem
                   /\ \/ phase'[h] \in {"half written", "raised"}
                      \/ phase'[h] = "written" /\ HasMarkdown(h)' /\ HasJson(h)'
    <3>1. phase[g] = "written"
      BY <1>7, <2>2
    <3>2. PICK h \in Range(files) :
             /\ h.stem = g.stem
             /\ \/ phase[h] \in {"half written", "raised"}
                \/ phase[h] = "written" /\ HasMarkdown(h) /\ HasJson(h)
      BY <3>1 DEF PairInv, DiskInv
    <3> QED
      BY <1>6, <3>2
  <2> QED
    BY <2>1, <2>2
<1> QED
  BY <1>10, <1>11, <1>12 DEF DiskInv

\* Where the phases, the results and the outputs of the spared stems stay, and no count is
\* taken back, the disk is as it was.
LEMMA QuietDisk ==
    ASSUME BatchInv, DiskInv, UNCHANGED <<command, files, phase, result>>,
           \A f \in Range(files) : IsCounted(f) => IsCounted(f)',
           \A f \in Range(files) : Spared(f) => (HasMarkdown(f)' <=> HasMarkdown(f)) /\ (HasJson(f)' <=> HasJson(f))
    PROVE  DiskInv'
<1>1. \A f \in Range(files) : (Alone(f)' <=> Alone(f)) /\ (Spared(f)' <=> Spared(f))
  BY DEF Alone, Accepted, Spared
<1>2. AloneInv'
  BY <1>1 DEF AloneInv, DiskInv
<1>3. Parallel' = Parallel
  BY DEF Parallel
<1>4. SerialInv'
  <2>1. \A i \in DOMAIN files : \A k \in 1 .. i - 1 : files[k] \in Range(files)
    BY FilesAre
  <2> QED
    BY <1>3, <2>1 DEF SerialInv, DiskInv
<1>5. PairInv'
  <2> SUFFICES ASSUME ~Parallel, NEW g \in Range(files), Spared(g)
               PROVE  /\ phase[g] = "half written" => HasMarkdown(g)'
                      /\ phase[g] = "written" =>
                             \E h \in Range(files) :
                                 /\ h.stem = g.stem
                                 /\ \/ phase[h] \in {"half written", "raised"}
                                    \/ phase[h] = "written" /\ HasMarkdown(h)' /\ HasJson(h)'
    BY <1>1, <1>3 DEF PairInv
  <2>1. \A h \in Range(files) : h.stem = g.stem => Spared(h)
    BY DEF Spared
  <2> QED
    BY <2>1 DEF PairInv, DiskInv
<1> QED
  BY <1>2, <1>4, <1>5 DEF DiskInv

\* Where the disk stays, the outputs do.
LEMMA SameOutputs ==
    ASSUME UNCHANGED <<command, disk, result>>
    PROVE  \A f : (HasMarkdown(f)' <=> HasMarkdown(f)) /\ (HasJson(f)' <=> HasJson(f))
BY DEF HasMarkdown, HasJson, Read, OutPath

\* The report replaces no output of a spared stem.
LEMMA FinishDisk == ASSUME BatchInv, DiskInv, Finish PROVE DiskInv'
<1>1. /\ disk' = IF command.report THEN With(disk, ReportPath, ReportFile) ELSE disk
      /\ UNCHANGED <<command, files, phase, result, counted>>
  BY DEF Finish
<1>2. \A f : IsCounted(f)' = IsCounted(f)
  BY <1>1 DEF IsCounted
<1>3. CASE command.report
  <2>1. ASSUME NEW f \in Range(files), Spared(f), NEW e
        PROVE  Read(OutPath(f, e))' = Read(OutPath(f, e))
    <3>1. OutPath(f, e) # ReportPath
      BY <1>3, <2>1, PathsApart DEF Spared
    <3>2. OutPath(f, e)' = OutPath(f, e)
      BY <1>1 DEF OutPath
    <3>3. /\ DOMAIN disk' = DOMAIN disk \cup {ReportPath}
          /\ \A q \in DOMAIN disk : q # ReportPath => disk'[q] = disk[q]
      BY <1>1, <1>3 DEF With
    <3> QED
      BY <3>1, <3>2, <3>3 DEF Read
  <2>2. \A f \in Range(files) : Spared(f) =>
           (HasMarkdown(f)' <=> HasMarkdown(f)) /\ (HasJson(f)' <=> HasJson(f))
    BY <1>1, <2>1 DEF HasMarkdown, HasJson
  <2> QED
    BY <1>1, <1>2, <2>2, QuietDisk
<1>4. CASE ~command.report
  <2>1. \A f : (HasMarkdown(f)' <=> HasMarkdown(f)) /\ (HasJson(f)' <=> HasJson(f))
    BY <1>1, <1>4, SameOutputs
  <2> QED
    BY <1>1, <1>2, <2>1, QuietDisk
<1> QED
  BY <1>3, <1>4

\* Files that are all queued owe nothing.
LEMMA QueuedDisk == ASSUME \A f \in Range(files) : phase[f] = "queued" PROVE DiskInv
<1>1. \A i \in DOMAIN files : files[i] \in Range(files)
  BY RangeOf
<1> QED
  BY <1>1 DEF DiskInv, AloneInv, SerialInv, PairInv

\* Every step preserves DiskInv.
LEMMA NextDisk == BatchInv /\ DiskInv /\ [Next]_vars => DiskInv'
<1> SUFFICES ASSUME BatchInv, DiskInv, [Next]_vars PROVE DiskInv'
  OBVIOUS
<1> DEFINE Queued == \A f \in Range(files) : phase[f] = "queued"
<1>0. Queued' => DiskInv'
  BY QueuedDisk, PTL
<1>1. CASE Collect
  <2>1. phase' = [f \in Range(files') |-> "queued"]
    BY <1>1 DEF Collect
  <2> QED
    BY <1>0, <2>1
<1>2. CASE Again
  <2>1. Range(files') = {}
    BY <1>2, Nothing DEF Again
  <2> QED
    BY <1>0, <2>1
<1>3. CASE Finish
  BY <1>3, FinishDisk
<1>4. CASE Unwind \/ Ended \/ (\E f \in Range(files) : Raise(f)) \/ UNCHANGED vars
  <2>1. UNCHANGED <<command, disk, files, phase, result, counted>>
    BY <1>4 DEF Unwind, Ended, Raise, vars
  <2>2. \A f : IsCounted(f)' = IsCounted(f)
    BY <2>1 DEF IsCounted
  <2>3. \A f : (HasMarkdown(f)' <=> HasMarkdown(f)) /\ (HasJson(f)' <=> HasJson(f))
    BY <2>1, SameOutputs
  <2> QED
    BY <2>1, <2>2, <2>3, QuietDisk
<1>5. ASSUME NEW i \in DOMAIN files, Process(i) PROVE DiskInv'
  BY <1>5, ProcessDisk
<1>6. ASSUME NEW f \in Range(files), WriteMarkdown(f) \/ WriteJson(f) \/ WriteFails(f) PROVE DiskInv'
  BY <1>6, WriteDisk
<1>7. ASSUME NEW f \in Range(files), Count(f) PROVE DiskInv'
  <2>1. counted' = Append(counted, result[f]) /\ UNCHANGED <<command, disk, files, phase, result>>
    BY <1>7 DEF Count
  <2>2. counted \in Seq(Outcomes)
    BY DEF BatchInv, CountedInv
  <2>3. result[f] \in Outcomes
    BY <1>7 DEF Count, Outcomes, BatchInv, ResultInv
  <2>4. \A n \in DOMAIN counted : n \in DOMAIN counted' /\ counted'[n] = counted[n]
    BY <2>1, <2>2, <2>3
  <2>5. \A g : IsCounted(g) => IsCounted(g)'
    BY <2>4 DEF IsCounted
  <2>6. \A g : (HasMarkdown(g)' <=> HasMarkdown(g)) /\ (HasJson(g)' <=> HasJson(g))
    BY <2>1, SameOutputs
  <2> QED
    BY <2>1, <2>5, <2>6, QuietDisk
<1> QED
  BY <1>1, <1>2, <1>3, <1>4, <1>5, <1>6, <1>7 DEF Next

\* Behind a batch the two files of a document are those of one document, and of that one
\* if no other collected file has its stem: for any number of threads, of documents with
\* the same stem, and of runs over a directory that holds earlier outputs.
THEOREM PairsTogether == Spec => []PairsBelongTogether
<1>1. Init => DiskInv
  BY QueuedDisk, Nothing DEF Init
<1>2. BatchInv /\ DiskInv => PairsBelongTogether
  <2> SUFFICES ASSUME BatchInv, DiskInv, Reported, NEW f \in Range(files), result[f].ok,
                      Siblings(f) = {f} \/ ~Parallel, ~(command.report /\ f.stem = "_report")
               PROVE  \E g \in Siblings(f) :
                          PairIn(f) = [md |-> MarkdownFile(result[g]), json |-> JsonFile(result[g])]
    BY DEF PairsBelongTogether
  <2>1. \A g \in Range(files) : phase[g] \in {"written", "failed"}
    BY DEF BatchInv, ExitInv, CountedInv, IsCounted
  <2>2. \A g \in Range(files) : result[g].ok <=> phase[g] = "written"
    BY <2>1 DEF BatchInv, ResultInv
  <2>3. Spared(f) /\ phase[f] = "written"
    BY <2>2 DEF Spared
  <2>4. \E g \in Siblings(f) : HasMarkdown(g) /\ HasJson(g)
    <3>1. CASE Siblings(f) = {f}
      <4>1. Alone(f)
        BY <2>1, <2>2, <3>1 DEF Alone, Accepted, Siblings
      <4> QED
        BY <2>3, <3>1, <4>1 DEF AloneInv, DiskInv
    <3>2. CASE ~Parallel
      <4>1. PICK g \in Range(files) :
               /\ g.stem = f.stem
               /\ \/ phase[g] \in {"half written", "raised"}
                  \/ phase[g] = "written" /\ HasMarkdown(g) /\ HasJson(g)
        BY <2>3, <3>2 DEF PairInv, DiskInv
      <4>2. phase[g] = "written" /\ HasMarkdown(g) /\ HasJson(g)
        BY <2>1, <4>1
      <4> QED
        BY <2>2, <4>1, <4>2 DEF Siblings
    <3> QED
      BY <3>1, <3>2
  <2>5. PICK g \in Siblings(f) : HasMarkdown(g) /\ HasJson(g)
    BY <2>4
  <2>6. g.stem = f.stem
    BY DEF Siblings
  <2>7. /\ Read(OutPath(f, "md")) = MarkdownFile(result[g])
        /\ Read(OutPath(f, "json")) = JsonFile(result[g])
    BY <2>5, <2>6, PathsApart DEF HasMarkdown, HasJson
  <2>8. PairIn(f) = [md |-> MarkdownFile(result[g]), json |-> JsonFile(result[g])]
    BY <2>7 DEF PairIn
  <2> QED
    BY <2>8
<1> QED
  BY <1>1, <1>2, BatchInvariant, NextDisk, PTL DEF Spec

-----------------------------------------------------------------------------
(* The results.                                                             *)

\* A Result that is ok has a text that was extracted, what the cleaning makes of it as its
\* content, and the chunks of that.
IsChunked(r) ==
    r.ok => /\ r.raw \in Text /\ r.markdown = CleanMarkdown(r.raw)
            /\ r.markdown \in Text /\ r.chunks = ChunkMarkdown(r.markdown)

\* What can be read are texts, the files included that the command has written.
TextInv ==
    /\ \A path \in DOMAIN disk : IsFile(disk[path])
    /\ \A f \in DOMAIN result : IsChunked(result[f])

\* The files that are written hold texts.
LEMMA WrittenFiles ==
    /\ IsFile(ReportFile)
    /\ \A r : IsFile(JsonFile(r))
    /\ \A r : r.markdown \in Text => IsFile(MarkdownFile(r))
<1>1. JsonText \in Text
  <2>1. "tick3" \in Atoms /\ "a" \in Atoms /\ "A" \in Atoms /\ NL \in Atoms
    BY DEF Atoms, Fences, Words, LowerWords, Whitespace
  <2>2. \A x, y, z, u, v, w \in Atoms : <<x, y, z, u, v, w>> \in Text
    BY DEF Text
  <2> QED
    BY <2>1, <2>2 DEF JsonText
<1>2. IsFile(ReportFile)
  BY <1>1 DEF IsFile, ReportFile
<1>3. ASSUME NEW r PROVE IsFile(JsonFile(r))
  BY <1>1 DEF IsFile, JsonFile
<1>4. ASSUME NEW r, r.markdown \in Text PROVE IsFile(MarkdownFile(r))
  <2>1. CASE IsBlank(r.markdown)
    <3>1. MarkdownFile(r).views = <<>>
      BY <2>1 DEF MarkdownFile
    <3> QED
      BY <3>1, Nothing DEF IsFile
  <2>2. CASE ~ IsBlank(r.markdown)
    <3>1. MarkdownFile(r).views = [PlainText |-> [text |-> r.markdown, score |-> Threshold]]
      BY <2>2 DEF MarkdownFile
    <3> QED
      BY <1>4, <3>1 DEF IsFile
  <2> QED
    BY <2>1, <2>2
<1> QED
  BY <1>2, <1>3, <1>4

\* Every parser that may be chosen has got a text out of the file.
LEMMA ExtractedTexts ==
    ASSUME NEW file, IsFile(file), NEW parsers, NEW e \in ExtractWithFallback(file, parsers)
    PROVE  e.text \in Text
<1> DEFINE Ran == {i \in DOMAIN parsers : parsers[i].parser \in DOMAIN file.views}
<1>1. \E i \in Ran : e = [text |-> file.views[parsers[i].parser].text, parser |-> parsers[i].parser]
  BY DEF ExtractWithFallback
<1>2. PICK i \in Ran : e = [text |-> file.views[parsers[i].parser].text, parser |-> parsers[i].parser]
  BY <1>1
<1>3. parsers[i].parser \in DOMAIN file.views
  OBVIOUS
<1>4. e.text = file.views[parsers[i].parser].text
  BY <1>2
<1> QED
  BY <1>3, <1>4 DEF IsFile

\* A file with texts in it gives a result with a text in it.
LEMMA ProcessedTexts ==
    ASSUME NEW path, NEW file, file = Absent \/ IsFile(file)
    PROVE  IsChunked(ProcessFile(path, file))
<1>1. IsChunked(Failure(path))
  BY DEF IsChunked, Failure
<1>2. ASSUME NEW e, e.text \in Text PROVE IsChunked(Extracted(path, e))
  <2>1. CleanMarkdown(e.text) \in Text
    BY <1>2, CleanMarkdownText
  <2>2. ASSUME NEW markdown \in Text, markdown = CleanMarkdown(e.text)
        PROVE  IsChunked(Success(path, e, markdown))
    BY <1>2, <2>2 DEF IsChunked, Success
  <2> QED
    BY <2>1, <2>2 DEF Extracted
<1>3. ASSUME NEW extracted, \A e \in extracted : e.text \in Text
      PROVE  IsChunked(ResultOf(path, extracted))
  <2>1. CASE extracted = {}
    BY <1>1, <2>1 DEF ResultOf
  <2>2. CASE extracted # {}
    <3>1. (CHOOSE e \in extracted : TRUE) \in extracted
      BY <2>2
    <3>2. ResultOf(path, extracted) = Extracted(path, CHOOSE e \in extracted : TRUE)
      BY <2>2 DEF ResultOf
    <3> QED
      BY <1>2, <1>3, <3>1, <3>2
  <2> QED
    BY <2>1, <2>2
<1>4. CASE file = Absent
  BY <1>1, <1>4 DEF ProcessFile
<1>5. CASE file # Absent
  <2> DEFINE extracted == ExtractWithFallback(file, GetParsers(DetectMime(path.ext, file.label)))
  <2>1. \A e \in extracted : e.text \in Text
    BY <1>5, ExtractedTexts
  <2>2. ProcessFile(path, file) = ResultOf(path, extracted)
    BY <1>5 DEF ProcessFile
  <2> HIDE DEF extracted
  <2> QED
    BY <1>3, <2>1, <2>2
<1> QED
  BY <1>4, <1>5

\* One more file on the disk.
LEMMA FileWritten ==
    ASSUME TextInv, NEW path, NEW file, IsFile(file), disk' = With(disk, path, file), result' = result
    PROVE  TextInv'
<1> DEFINE d == With(disk, path, file)
<1>1. DOMAIN disk' = DOMAIN disk \cup {path} /\ disk'[path] = file
      /\ \A b \in DOMAIN disk : b # path => disk'[b] = disk[b]
  <2>1. DOMAIN d = DOMAIN disk \cup {path} /\ d[path] = file
        /\ \A b \in DOMAIN disk : b # path => d[b] = disk[b]
    BY DEF With
  <2>2. disk' = d
    OBVIOUS
  <2> HIDE DEF d
  <2> QED
    BY <2>1, <2>2
<1>2. \A b \in DOMAIN disk' : IsFile(disk'[b])
  BY <1>1 DEF TextInv
<1> QED
  BY <1>2 DEF TextInv

\* Every step keeps texts on the disk and in the results.
LEMMA NextTexts == BatchInv /\ TextInv /\ [Next]_vars => TextInv'
<1> SUFFICES ASSUME BatchInv, TextInv, [Next]_vars PROVE TextInv'
  OBVIOUS
<1>1. ASSUME UNCHANGED <<disk, result>> PROVE TextInv'
  BY <1>1 DEF TextInv
<1>2. ASSUME NEW f \in Range(files), phase[f] \in {"processed", "half written"}
      PROVE  result[f].markdown \in Text
  <2>1. f \in DOMAIN result /\ result[f].ok
    BY <1>2 DEF BatchInv, ResultInv
  <2> QED
    BY <2>1 DEF TextInv, IsChunked
<1>3. CASE Collect
  BY <1>1, <1>3 DEF Collect
<1>4. CASE Unwind
  BY <1>1, <1>4 DEF Unwind
<1>5. CASE Finish
  <2>1. CASE command.report
    BY <1>5, <2>1, FileWritten, WrittenFiles DEF Finish
  <2>2. CASE ~ command.report
    BY <1>1, <1>5, <2>2 DEF Finish
  <2> QED
    BY <2>1, <2>2
<1>6. CASE Again
  BY <1>6, Nothing DEF Again, TextInv
<1>7. CASE Ended \/ UNCHANGED vars
  BY <1>1, <1>7 DEF Ended, vars
<1>8. ASSUME NEW i \in DOMAIN files, Process(i) PROVE TextInv'
  <2> DEFINE f == files[i]
             r == ProcessFile(f, Read(f))
  <2>1. result' = With(result, f, r) /\ disk' = disk
    BY <1>8 DEF Process
  <2>2. Read(f) = Absent \/ IsFile(Read(f))
    BY DEF Read, TextInv
  <2>3. IsChunked(r)
    BY <2>2, ProcessedTexts
  <2> HIDE DEF f, r
  <2>4. /\ DOMAIN result' = DOMAIN result \cup {f} /\ result'[f] = r
        /\ \A g \in DOMAIN result : g # f => result'[g] = result[g]
    BY SMTT(30), <2>1, WithOne
  <2>5. \A g \in DOMAIN result' : IsChunked(result'[g])
    BY <2>3, <2>4 DEF TextInv
  <2> QED
    BY <2>1, <2>5 DEF TextInv
<1>9. ASSUME NEW f \in Range(files),
             WriteMarkdown(f) \/ WriteJson(f) \/ WriteFails(f) \/ Count(f) \/ Raise(f)
      PROVE  TextInv'
  <2>1. CASE WriteMarkdown(f)
    BY <1>2, <2>1, FileWritten, WrittenFiles DEF WriteMarkdown
  <2>2. CASE WriteJson(f)
    BY <2>2, FileWritten, WrittenFiles DEF WriteJson
  <2>3. CASE WriteFails(f) \/ Count(f) \/ Raise(f)
    BY <1>1, <2>3 DEF WriteFails, Count, Raise
  <2> QED
    BY <1>9, <2>1, <2>2, <2>3
<1> QED
  BY <1>3, <1>4, <1>5, <1>6, <1>7, <1>8, <1>9 DEF Next

\* A command finds texts.
LEMMA InitTexts == Init => TextInv
<1> SUFFICES ASSUME Init PROVE TextInv
  OBVIOUS
<1>1. \A path \in DOMAIN disk : IsFile(disk[path])
  BY CommandAssumption DEF Init
<1>2. result = <<>>
  BY DEF Init
<1> QED
  BY <1>1, <1>2, Nothing DEF TextInv

\* A result that is made is cleaned and chunked.
LEMMA MadeAre ==
    ASSUME BatchInv, TextInv, NEW r \in Made
    PROVE  /\ r.raw \in Text /\ r.markdown = CleanMarkdown(r.raw)
           /\ r.markdown \in Text /\ r.chunks = ChunkMarkdown(r.markdown)
<1>1. PICK f \in DOMAIN result : phase[f] = "processed" /\ r = result[f]
  BY DEF Made
<1>2. result[f].ok
  BY <1>1 DEF BatchInv, ResultInv
<1> QED
  BY <1>1, <1>2 DEF TextInv, IsChunked

\* The results hold texts in every state.
LEMMA TextInvariant == Spec => [](BatchInv /\ TextInv)
  BY InitTexts, NextTexts, BatchInvariant, PTL DEF Spec

\* ChunksFit: whatever the text, the vocabulary and the limits, no chunk has more
\* tokens than max_chunk_tokens.  _pack_spans may be wrong about the size of what it
\* packs; _enforce_max_tokens looks at every packed span again, and its last resort, the
\* token windows, are tried by counting: a window of one character has one token.
THEOREM NoChunkTooLarge == Spec => []ChunksFit
<1>1. BatchInv /\ TextInv => ChunksFit
  <2> SUFFICES ASSUME BatchInv, TextInv, NEW r \in Made, NEW n \in DOMAIN r.chunks
               PROVE  Tokens(r.chunks[n].text) <= MaxChunk
    BY DEF ChunksFit
  <2> DEFINE text == r.markdown
  <2>1. text \in Seq(Atoms) /\ r.chunks = ChunkMarkdown(text)
    BY MadeAre DEF Text
  <2> HIDE DEF text
  <2> QED
    BY <2>1, ChunksQuote
<1> QED
  BY <1>1, TextInvariant, PTL

\* ChunksRenderTheContent: every chunk quotes the content between its offsets, the chunks
\* follow one another, what is in none of them is whitespace or repeats one of
\* them, and no heading begins inside of one.
THEOREM ChunksAreTheContent == Spec => []ChunksRenderTheContent
<1>1. ASSUME BatchInv, TextInv PROVE ChunksQuoteTheContent
  <2> SUFFICES ASSUME NEW r \in Made
               PROVE  /\ \A n \in DOMAIN r.chunks :
                            LET c == r.chunks[n] IN c.text # <<>> /\ Slice(r.markdown, c.start, c.end) = c.text
                      /\ \A n \in 1 .. Len(r.chunks) - 1 : r.chunks[n].end <= r.chunks[n + 1].start
    BY DEF ChunksQuoteTheContent
  <2> DEFINE text == r.markdown
  <2>1. text \in Seq(Atoms) /\ r.chunks = ChunkMarkdown(text)
    BY <1>1, MadeAre DEF Text
  <2> HIDE DEF text
  <2>2. /\ \A n \in DOMAIN r.chunks :
              r.chunks[n].text # <<>> /\ Slice(text, r.chunks[n].start, r.chunks[n].end) = r.chunks[n].text
        /\ \A n \in 1 .. Len(r.chunks) - 1 : r.chunks[n].end <= r.chunks[n + 1].start
    BY <2>1, ChunksQuote
  <2> QED
    BY <2>2 DEF text
<1>2. ASSUME BatchInv, TextInv PROVE ContentIsChunked
  <2> SUFFICES ASSUME NEW r \in Made, NEW i \in InkAt(r.markdown)
               PROVE  \/ \E n \in DOMAIN r.chunks : r.chunks[n].start < i /\ i <= r.chunks[n].end
                      \/ \E n \in DOMAIN r.chunks, o \in 0 .. i - 1 :
                            LET c == r.chunks[n]
                            IN  /\ i <= o + Len(c.text) /\ o + Len(c.text) <= Len(r.markdown)
                                /\ Slice(r.markdown, o, o + Len(c.text)) = c.text
                                /\ PathFor(SectionStates(r.markdown), o) = c.path
    BY DEF ContentIsChunked
  <2> DEFINE text == r.markdown
  <2>1. text \in Seq(Atoms) /\ r.chunks = ChunkMarkdown(text)
    BY <1>2, MadeAre DEF Text
  <2>2. i \in InkAt(text)
    OBVIOUS
  <2> HIDE DEF text
  <2>3. PICK n \in DOMAIN r.chunks :
            \/ r.chunks[n].start < i /\ i <= r.chunks[n].end
            \/ \E o \in 0 .. i - 1 :
                  /\ i <= o + Len(r.chunks[n].text) /\ o + Len(r.chunks[n].text) <= Len(text)
                  /\ Slice(text, o, o + Len(r.chunks[n].text)) = r.chunks[n].text
                  /\ PathFor(SectionStates(text), o) = r.chunks[n].path
    BY <2>1, <2>2, ChunksCover
  <2> QED
    BY <2>3 DEF text
<1>3. ASSUME BatchInv, TextInv PROVE ChunkHasOneSection
  <2> SUFFICES ASSUME NEW r \in Made, NEW n \in DOMAIN r.chunks, NEW h \in DOMAIN Headings(r.markdown)
               PROVE  LET c == r.chunks[n]
                          headings == Headings(r.markdown)
                      IN  /\ ~(c.start < headings[h].offset /\ headings[h].offset < c.end)
                          /\ headings[h].offset = c.start => c.path # <<>> /\ Last(c.path) = headings[h].title
    BY DEF ChunkHasOneSection
  <2> DEFINE text == r.markdown
  <2>1. text \in Seq(Atoms) /\ r.chunks = ChunkMarkdown(text)
    BY <1>3, MadeAre DEF Text
  <2>2. h \in DOMAIN Headings(text)
    OBVIOUS
  <2> HIDE DEF text
  <2>3. n \in DOMAIN ChunkMarkdown(text)
    BY <2>1
  <2> QED
    BY <2>1, <2>2, <2>3, ChunksInSections DEF text
<1>4. BatchInv /\ TextInv => ChunksRenderTheContent
  BY <1>1, <1>2, <1>3 DEF ChunksRenderTheContent
<1> QED
  BY <1>4, TextInvariant, PTL
-----------------------------------------------------------------------------
(* Fenced code.                                                             *)

\* The atom a line begins with, and whether a line closes the fence f.
MarkOf(line)   == IF IsBlank(line) THEN "none" ELSE Head(Strip(line))
Shuts(line, f) == /\ MarkOf(line) \in Fences /\ Strip(line) = <<MarkOf(line)>>
                  /\ FenceChar[MarkOf(line)] = FenceChar[f] /\ FenceSize[MarkOf(line)] >= FenceSize[f]

\* o[i] is the line whose fence is open behind line i, or 0.
Fencing(o, lines, n) ==
    /\ o \in [0 .. n -> 0 .. n]
    /\ o[0] = 0
    /\ \A i \in 1 .. n :
          o[i] = IF o[i - 1] = 0 THEN IF MarkOf(lines[i]) \in Fences THEN i ELSE 0
                 ELSE IF Shuts(lines[i], MarkOf(lines[o[i - 1]])) THEN 0 ELSE o[i - 1]

\* CodeBlocks, from the lines that are open.
LEMMA CodeBlocksAre ==
    ASSUME NEW T, NEW lines \in Seq(T)
    PROVE  \E o : /\ Fencing(o, lines, Len(lines))
                  /\ CodeBlocks(lines) =
                        {b \in (DOMAIN lines) \X (DOMAIN lines) :
                            /\ b[1] <= b[2] /\ o[b[1]] = b[1] /\ o[b[1] - 1] = 0
                            /\ \A m \in b[1] .. b[2] - 1 : o[m] = b[1]
                            /\ b[2] = Len(lines) \/ o[b[2]] = 0}
<1> DEFINE n == Len(lines)
           Behind(i, v) == IF v = 0 THEN IF MarkOf(lines[i]) \in Fences THEN i ELSE 0
                         ELSE IF Shuts(lines[i], MarkOf(lines[v])) THEN 0 ELSE v
           Body(f) == [i \in 0 .. Len(lines) |-> IF i = 0 THEN 0 ELSE Behind(i, f[i - 1])]
           F == CHOOSE f : f = Body(f)
           h == [p \in (1 .. n) \X (0 .. n) |-> Behind(p[1], p[2])]
<1>1. n \in Nat /\ 0 \in 0 .. n
  OBVIOUS
<1>2. ASSUME NEW i \in 1 .. n, NEW v \in 0 .. n PROVE h[<<i, v>>] = Behind(i, v) /\ Behind(i, v) \in 0 .. n
  <2>1. h[<<i, v>>] = Behind(i, v)
    <3> HIDE DEF Behind
    <3> QED
      OBVIOUS
  <2>2. i \in 0 .. n
    BY <1>1
  <2>3. Behind(i, v) \in {i, 0, v}
    OBVIOUS
  <2> HIDE DEF h, Behind
  <2>4. Behind(i, v) \in 0 .. n
    BY <1>1, <2>2, <2>3
  <2> QED
    BY <2>1, <2>4
<1> HIDE DEF h, Behind
<1>3. Steps(h, 1 .. n, 0 .. n)
  BY <1>2 DEF Steps
<1>4. PICK o : Rises(o, n, 0 .. n, 0, h)
  BY ONLY <1>1, <1>3, Rising
<1>5. o \in [0 .. n -> 0 .. n] /\ o[0] = 0
  BY <1>4 DEF Rises
<1>6. ASSUME NEW i \in 1 .. n PROVE o[i] = Behind(i, o[i - 1]) /\ o[i - 1] \in 0 .. n
  <2>1. i - 1 \in 0 .. n
    BY <1>1
  <2>2. o[i - 1] \in 0 .. n /\ o[i] = h[<<i, o[i - 1]>>]
    BY <1>4, <1>5, <2>1 DEF Rises
  <2> QED
    BY <1>2, <2>2
<1>7. o = Body(o)
  <2>1. ASSUME NEW i \in 0 .. n PROVE o[i] = Body(o)[i]
    <3>1. CASE i = 0
      BY <1>5, <3>1
    <3>2. CASE i # 0
      <4>1. i \in 1 .. n
        BY <3>2
      <4>2. Body(o)[i] = Behind(i, o[i - 1])
        BY <3>2
      <4> QED
        BY <1>6, <4>1, <4>2
    <3> QED
      BY <3>1, <3>2
  <2>2. o = [i \in 0 .. n |-> o[i]] /\ Body(o) = [i \in 0 .. n |-> Body(o)[i]]
    BY <1>5
  <2> HIDE DEF Body
  <2> QED
    BY <2>1, <2>2
<1>8. F = Body(F)
  BY <1>7
<1>9. CodeBlocks(lines) =
          {b \in (DOMAIN lines) \X (DOMAIN lines) :
              /\ b[1] <= b[2] /\ F[b[1]] = b[1] /\ F[b[1] - 1] = 0
              /\ \A m \in b[1] .. b[2] - 1 : F[m] = b[1]
              /\ b[2] = Len(lines) \/ F[b[2]] = 0}
  BY DEF CodeBlocks, Behind, MarkOf, Shuts
<1> HIDE DEF F
<1>10. F = [i \in 0 .. n |-> IF i = 0 THEN 0 ELSE Behind(i, F[i - 1])]
  BY <1>8
<1> HIDE DEF Body, n
<1>11. \A i \in 0 .. n : F[i] = o[i]
  <2> DEFINE S == {i \in Int : F[i] = o[i]}
  <2>1. 0 \in S
    BY <1>1, <1>5, <1>10
  <2>2. ASSUME NEW i \in 1 .. n, i - 1 \in S PROVE i \in S
    <3>1. F[i] = Behind(i, F[i - 1])
      BY <1>1, <1>10
    <3>2. F[i - 1] = o[i - 1]
      BY <2>2
    <3>3. F[i] = o[i]
      BY <1>6, <3>1, <3>2
    <3> QED
      BY <3>3
  <2> HIDE DEF S
  <2>3. \A i \in 0 .. n : i \in S
    BY ONLY <1>1, <2>1, <2>2, Forwards
  <2> QED
    BY <2>3 DEF S
<1>12. F = o
  <2>1. F = [i \in 0 .. n |-> F[i]] /\ o = [i \in 0 .. n |-> o[i]]
    BY <1>5, <1>10
  <2> QED
    BY ONLY <1>11, <2>1
<1>13. Fencing(o, lines, n)
  BY <1>5, <1>6 DEF Fencing, Behind
<1> QED
  BY <1>9, <1>12, <1>13 DEF n

\* Leading spaces do not count for either way to look at a fence.
LEMMA FenceMarks ==
    ASSUME NEW line \in Text
    PROVE  /\ OpensFence(line) <=> MarkOf(line) \in Fences
           /\ OpensFence(line) => Head(Outdent(line)) = MarkOf(line)
           /\ \A f : ClosesFence(line, f) <=> Shuts(line, f)
<1> DEFINE I == InkAt(line)
           N == Len(line)
<1>1. N \in Nat /\ line \in Seq(Atoms) /\ I \in SUBSET (1 .. N)
  BY DEF Text, InkAt
<1>2. IsBlank(line) <=> I = {}
  BY <1>1 DEF IsBlank, InkAt, Range
<1>3. \A f \in Fences : f # "none"
  BY DEF Fences
<1>4. CASE I = {}
  <2>1. Strip(line) = <<>>
    BY <1>4 DEF Strip
  <2>2. Indent(line) = N
    <3>1. {N + 1} \in SUBSET ((N + 1) .. (N + 1)) /\ {N + 1} # {} /\ N + 1 \in Int
      BY <1>1
    <3>2. Min({N + 1}) \in {N + 1}
      BY ONLY <3>1, MinOf
    <3>3. Indent(line) = Min({N + 1}) - 1
      BY <1>4 DEF Indent
    <3> QED
      BY <1>1, <3>2, <3>3
  <2>3. Outdent(line) = <<>>
    BY <1>1, <2>2 DEF Outdent
  <2>4. ~OpensFence(line) /\ MarkOf(line) = "none" /\ \A f : ~ClosesFence(line, f)
    BY <1>2, <1>4, <2>1, <2>3 DEF OpensFence, StartsWith, MarkOf, ClosesFence
  <2> QED
    BY <1>3, <2>4 DEF Shuts
<1>5. CASE I # {}
  <2> DEFINE m == Min(I)
             k == Max(I)
  <2>1. m \in I /\ k \in I /\ m <= k
    <3>1. 1 \in Int /\ N \in Int
      BY <1>1
    <3> HIDE DEF I
    <3>2. Min(I) \in I /\ \A i \in I : Min(I) <= i
      BY ONLY <1>1, <1>5, <3>1, MinOf
    <3>3. Max(I) \in I
      BY ONLY <1>1, <1>5, <3>1, MaxOf
    <3> QED
      BY <3>2, <3>3
  <2>2. Indent(line) = m - 1
    <3> DEFINE J == I \cup {N + 1}
    <3>1. J \in SUBSET (1 .. (N + 1)) /\ J # {} /\ 1 \in Int /\ N + 1 \in Int
      BY <1>1
    <3>2. Indent(line) = Min(J) - 1
      BY DEF Indent
    <3> HIDE DEF J
    <3>3. Min(J) \in J /\ \A i \in J : Min(J) <= i
      BY ONLY <3>1, MinOf
    <3>4. Min(J) \in I \/ Min(J) = N + 1
      BY <3>3 DEF J
    <3>5. m \in J
      BY <2>1 DEF J
    <3>6. \A i \in I : m <= i
      <4>1. 1 \in Int /\ N \in Int
        BY <1>1
      <4> HIDE DEF I
      <4> QED
        BY ONLY <1>1, <1>5, <4>1, MinOf
    <3> HIDE DEF I, m
    <3>7. m <= N /\ N \in Nat /\ m \in Int /\ Min(J) \in Int
      <4>1. m \in 1 .. N
        BY <1>1, <2>1
      <4>2. Min(J) \in 1 .. (N + 1)
        BY <3>1, <3>3
      <4>3. N \in Nat
        BY <1>1
      <4> HIDE DEF N
      <4> QED
        BY ONLY <4>1, <4>2, <4>3
    <3>8. Min(J) = m
      <4>1. Min(J) <= m
        BY <3>3, <3>5
      <4>2. Min(J) \in I
        BY <3>4, <3>7, <4>1
      <4> QED
        BY <3>6, <3>7, <4>1, <4>2
    <3> QED
      BY <3>2, <3>8
  <2> HIDE DEF I, m, k, N
  <2>3. m \in 1 .. N /\ k \in m .. N
    BY <1>1, <2>1
  <2>4. Outdent(line) = SubSeq(line, m, N)
    <3>1. (m - 1) + 1 = m
      BY <2>3
    <3> QED
      BY <2>2, <3>1 DEF Outdent, N
  <2>5. /\ SubSeq(line, m, N) # <<>> /\ Head(SubSeq(line, m, N)) = line[m]
        /\ SubSeq(line, m, k) # <<>> /\ Head(SubSeq(line, m, k)) = line[m]
        /\ SubSeq(line, m, k) \in Seq(Atoms)
    <3>1. line \in Seq(Atoms) /\ m \in 1 .. Len(line) /\ k \in m .. Len(line)
      BY <1>1, <2>3 DEF N
    <3>2. \A e \in m .. Len(line) : /\ SubSeq(line, m, e) \in Seq(Atoms) /\ Len(SubSeq(line, m, e)) = e - m + 1
                                    /\ SubSeq(line, m, e)[1] = line[m]
      BY ONLY <3>1
    <3>3. \A e \in m .. Len(line) : SubSeq(line, m, e) # <<>> /\ Head(SubSeq(line, m, e)) = line[m]
      BY ONLY <3>1, <3>2
    <3> QED
      BY <3>1, <3>2, <3>3, Len(line) \in m .. Len(line) DEF N
  <2>6. Strip(line) = SubSeq(line, m, k)
    BY <1>5 DEF Strip, I, m, k
  <2>7. MarkOf(line) = line[m] /\ Head(Strip(line)) = line[m]
    BY <1>2, <1>5, <2>5, <2>6 DEF MarkOf
  <2>8. OpensFence(line) <=> line[m] \in Fences
    BY <2>4, <2>5 DEF OpensFence, StartsWith
  <2>9. Head(Outdent(line)) = line[m]
    BY <2>4, <2>5
  <2>10. Strip(line) \in Seq(Atoms) /\ Strip(line) # <<>>
    BY <2>5, <2>6
  <2>11. Len(Strip(line)) = 1 <=> Strip(line) = <<line[m]>>
    <3>1. ASSUME Len(Strip(line)) = 1 PROVE Strip(line) = <<Head(Strip(line))>>
      BY <2>10, <3>1
    <3> QED
      BY <2>7, <3>1
  <2>12. ASSUME NEW f PROVE ClosesFence(line, f) <=> Shuts(line, f)
    BY <2>7, <2>10, <2>11 DEF ClosesFence, Shuts, StartsWith
  <2> QED
    BY <2>7, <2>8, <2>9, <2>12
<1> QED
  BY <1>4, <1>5

Blocks == [fenced : BOOLEAN, text : Text]

\* end[i] is the last line of the block that begins at line i, f[i] the blocks from there on.
FenceScan(f, end, lines, n) ==
    /\ f \in [1 .. n + 1 -> Seq(Blocks)] /\ f[n + 1] = <<>>
    /\ \A i \in 1 .. n :
          /\ end[i] \in i .. n
          /\ f[i] = <<[fenced |-> OpensFence(lines[i]), text |-> FlattenSeq(SubSeq(lines, i, end[i]))]>>
                    \o f[end[i] + 1]
          /\ OpensFence(lines[i]) =>
                /\ \A k \in i + 1 .. end[i] - 1 : ~ClosesFence(lines[k], Head(Outdent(lines[i])))
                /\ end[i] # n => end[i] # i /\ ClosesFence(lines[end[i]], Head(Outdent(lines[i])))
          /\ ~OpensFence(lines[i]) => \A k \in i .. end[i] : ~OpensFence(lines[k])

\* FencedBlocks, from one block to the next.
LEMMA FencedSteps ==
    ASSUME NEW text \in Text
    PROVE  \E f, end : /\ FenceScan(f, end, KeptLines(text), Len(KeptLines(text)))
                       /\ FencedBlocks(text) = f[1]
<1> DEFINE T == Blocks
           lines == KeptLines(text)
           n == Len(lines)
           Block(fenced, i, k) == [fenced |-> fenced, text |-> FlattenSeq(SubSeq(lines, i, k))]
           Closing(i) == {k \in i + 1 .. Len(lines) : ClosesFence(lines[k], Head(Outdent(lines[i])))}
                         \cup {Len(lines)}
           Opening(i) == {k \in i .. Len(lines) : OpensFence(lines[k])} \cup {Len(lines) + 1}
           CloseAt(i) == Min({k \in i + 1 .. Len(lines) :
                                  ClosesFence(lines[k], Head(Outdent(lines[i])))} \cup {Len(lines)})
           OpenAt(i) == Min({k \in i .. Len(lines) : OpensFence(lines[k])} \cup {Len(lines) + 1})
           End(i) == IF OpensFence(lines[i]) THEN CloseAt(i) ELSE OpenAt(i) - 1
           piece == [i \in DOMAIN lines |-> <<Block(OpensFence(lines[i]), i, End(i))>>]
           next == [i \in DOMAIN lines |-> End(i) + 1]
           end == [i \in DOMAIN lines |-> End(i)]
<1>1. FencedBlocks(text) = Scanned(n, piece, next)
  BY DEF FencedBlocks
<1>2. lines \in Seq(Text) /\ n \in Nat /\ DOMAIN lines = 1 .. n
  <2>1. KeptLines(text) \in Seq(Seq(Atoms))
    BY LinesTile DEF Text
  <2> QED
    BY <2>1 DEF Text
<1> HIDE DEF lines
<1>3. ASSUME NEW i \in 1 .. n
      PROVE  /\ CloseAt(i) \in i .. n
             /\ \A k \in i + 1 .. CloseAt(i) - 1 : ~ClosesFence(lines[k], Head(Outdent(lines[i])))
             /\ CloseAt(i) # n => CloseAt(i) # i /\ ClosesFence(lines[CloseAt(i)], Head(Outdent(lines[i])))
  <2> DEFINE C == Closing(i)
             m == CloseAt(i)
             b == Head(Outdent(lines[i]))
  <2>0. i \in Int /\ n \in Int /\ i <= n
    BY <1>2
  <2>2. m = Min(C)
    OBVIOUS
  <2>7. C = {k \in i + 1 .. n : ClosesFence(lines[k], b)} \cup {n}
    OBVIOUS
  <2> HIDE DEF C, m, b, n
  <2>1. C \in SUBSET (i .. n) /\ C # {} /\ i \in Int /\ n \in Int
        /\ (\A k \in i + 1 .. n : ClosesFence(lines[k], b) => k \in C)
        /\ \A k \in C : k = n \/ (k \in i + 1 .. n /\ ClosesFence(lines[k], b))
    BY ONLY <2>0, <2>7
  <2>3. Min(C) \in C /\ \A k \in C : Min(C) <= k
    BY ONLY <2>1, MinOf
  <2>4. m \in i .. n
    BY ONLY <2>1, <2>2, <2>3
  <2>5. ASSUME NEW k \in i + 1 .. m - 1 PROVE ~ClosesFence(lines[k], b)
    <3>1. k \in i + 1 .. n /\ ~ (m <= k)
      BY ONLY <2>1, <2>4, k \in i + 1 .. m - 1
    <3> QED
      BY ONLY <2>1, <2>2, <2>3, <3>1
  <2>6. m # n => m # i /\ ClosesFence(lines[m], b)
    <3>1. m # n => m \in i + 1 .. n /\ ClosesFence(lines[m], b)
      BY ONLY <2>1, <2>2, <2>3
    <3>2. i \notin i + 1 .. n
      BY <2>1
    <3> QED
      BY ONLY <3>1, <3>2
  <2> QED
    BY <2>4, <2>5, <2>6 DEF m, b
<1>4. ASSUME NEW i \in 1 .. n
      PROVE  /\ OpenAt(i) \in i .. n + 1 /\ (~OpensFence(lines[i]) => OpenAt(i) # i)
             /\ \A k \in i .. OpenAt(i) - 1 : ~OpensFence(lines[k])
  <2> DEFINE C == Opening(i)
             m == n + 1
             w == OpenAt(i)
  <2>1. C \in SUBSET (i .. m) /\ C # {} /\ i \in Int /\ m \in Int /\ (~OpensFence(lines[i]) => i \notin C)
        /\ \A k \in i .. n : OpensFence(lines[k]) => k \in C
    BY <1>2
  <2>2. w = Min(C)
    OBVIOUS
  <2> HIDE DEF C, m, w
  <2>3. Min(C) \in C /\ \A k \in C : Min(C) <= k
    BY ONLY <2>1, MinOf
  <2>4. w \in i .. m /\ (~OpensFence(lines[i]) => w # i)
    BY ONLY <2>1, <2>2, <2>3
  <2>5. ASSUME NEW k \in i .. w - 1 PROVE ~OpensFence(lines[k])
    <3>1. k \in i .. n /\ ~ (w <= k)
      BY <1>2, <2>1, <2>4 DEF m
    <3> QED
      BY ONLY <2>1, <2>2, <2>3, <3>1
  <2> QED
    BY <2>4, <2>5 DEF m, w
<1> HIDE DEF CloseAt, OpenAt
<1>5. ASSUME NEW i \in 1 .. n
      PROVE  /\ End(i) \in i .. n
             /\ OpensFence(lines[i]) =>
                   /\ \A k \in i + 1 .. End(i) - 1 : ~ClosesFence(lines[k], Head(Outdent(lines[i])))
                   /\ End(i) # n => End(i) # i /\ ClosesFence(lines[End(i)], Head(Outdent(lines[i])))
             /\ ~OpensFence(lines[i]) => \A k \in i .. End(i) : ~OpensFence(lines[k])
  <2>1. CASE OpensFence(lines[i])
    <3>1. End(i) = CloseAt(i)
      BY <2>1
    <3> HIDE DEF End
    <3> QED
      BY <1>3, <2>1, <3>1
  <2>2. CASE ~OpensFence(lines[i])
    <3>1. End(i) = OpenAt(i) - 1
      BY <2>2
    <3> HIDE DEF End
    <3>2. End(i) \in i .. n
      BY <1>2, <1>4, <2>2, <3>1
    <3> QED
      BY <1>4, <2>2, <3>1, <3>2
  <2> QED
    BY <2>1, <2>2
<1> HIDE DEF End
<1>6. ASSUME NEW i \in 1 .. n
      PROVE  /\ next[i] \in i + 1 .. n + 1 /\ piece[i] \in Seq(T) /\ next[i] = end[i] + 1 /\ end[i] = End(i)
             /\ piece[i] = <<Block(OpensFence(lines[i]), i, End(i))>>
  <2>1. next[i] = End(i) + 1 /\ piece[i] = <<Block(OpensFence(lines[i]), i, End(i))>> /\ end[i] = End(i)
    BY <1>2
  <2> HIDE DEF piece, next, end
  <2>2. next[i] \in i + 1 .. n + 1
    BY <1>2, <1>5, <2>1
  <2>3. SubSeq(lines, i, End(i)) \in Seq(Text)
    <3> DEFINE k == End(i)
    <3>1. i \in Nat /\ 1 <= i /\ k \in Int /\ k <= Len(lines)
      BY <1>2, <1>5
    <3> HIDE DEF k
    <3>2. SubSeq(lines, i, k) \in Seq(Text)
      BY ONLY <1>2, <3>1, SubSequence
    <3> QED
      BY <3>2 DEF k
  <2>4. FlattenSeq(SubSeq(lines, i, End(i))) \in Text
    BY <2>3, FlattenSequence DEF Text
  <2>5. OpensFence(lines[i]) \in BOOLEAN
    BY DEF OpensFence, StartsWith
  <2> DEFINE b == Block(OpensFence(lines[i]), i, End(i))
  <2>6. b \in T
    BY <2>4, <2>5 DEF Blocks
  <2> HIDE DEF b, T
  <2>7. <<b>> \in Seq(T)
    BY <2>6
  <2> QED
    BY <2>1, <2>2, <2>7 DEF b
<1> HIDE DEF n, piece, next, T, end
<1>7. PICK f : Finds(f, T, n, piece, next) /\ Scanned(n, piece, next) = f[1]
  <2>1. \A i \in 1 .. n : piece[i] \in Seq(T) /\ next[i] \in i + 1 .. n + 1
    BY <1>6
  <2>2. n \in Nat
    BY <1>2 DEF n
  <2> QED
    BY ONLY <2>1, <2>2, ScannedSteps
<1>8. FenceScan(f, end, lines, n)
  <2>1. f \in [1 .. n + 1 -> Seq(Blocks)] /\ f[n + 1] = <<>>
    BY <1>7 DEF Finds, T
  <2>2. ASSUME NEW i \in 1 .. n
        PROVE  f[i] = <<[fenced |-> OpensFence(lines[i]), text |-> FlattenSeq(SubSeq(lines, i, end[i]))]>>
                      \o f[end[i] + 1]
    <3>1. f[i] = piece[i] \o f[next[i]]
      BY <1>7 DEF Finds
    <3> QED
      BY <1>6, <3>1
  <2> QED
    BY <1>5, <1>6, <2>1, <2>2 DEF FenceScan
<1> QED
  BY <1>1, <1>7, <1>8 DEF n, lines

\* An open fence stays open up to the line that closes it.
LEMMA FencedUntil ==
    ASSUME NEW lines, NEW n \in Nat, NEW o, Fencing(o, lines, n),
           NEW i \in 1 .. n, o[i - 1] = 0, MarkOf(lines[i]) \in Fences,
           NEW e \in i .. n, \A k \in i + 1 .. e - 1 : ~Shuts(lines[k], MarkOf(lines[i]))
    PROVE  /\ o[i] = i /\ \A m \in i .. e - 1 : o[m] = i
           /\ o[e] \in {0, i}
           /\ e # i /\ Shuts(lines[e], MarkOf(lines[i])) => o[e] = 0
<1> DEFINE Behind(k) == IF o[k - 1] = 0 THEN IF MarkOf(lines[k]) \in Fences THEN k ELSE 0
                      ELSE IF Shuts(lines[k], MarkOf(lines[o[k - 1]])) THEN 0 ELSE o[k - 1]
<1>1. \A k \in 1 .. n : o[k] = Behind(k)
  BY DEF Fencing
<1>2. o[i] = i
  BY <1>1
<1>3. ASSUME NEW k \in i + 1 .. n, o[k - 1] = i
      PROVE  o[k] = IF Shuts(lines[k], MarkOf(lines[i])) THEN 0 ELSE i
  <2>1. k \in 1 .. n /\ i # 0
    BY <1>3
  <2>2. o[k] = Behind(k)
    BY <1>1, <2>1
  <2> QED
    BY <1>3, <2>1, <2>2
<1>4. \A m \in i .. e - 1 : o[m] = i
  <2> DEFINE S == {j \in Int : o[i + j] = i}
             N == e - 1 - i
  <2>1. CASE e = i
    BY <2>1
  <2>2. CASE e # i
    <3>1. N \in Nat
      BY <2>2
    <3>2. 0 \in S
      BY <1>2
    <3>3. ASSUME NEW j \in 1 .. N, j - 1 \in S PROVE j \in S
      <4>1. i + j \in i + 1 .. n /\ i + j \in i + 1 .. e - 1 /\ (i + j) - 1 = i + (j - 1) /\ j \in Int
        BY <3>3
      <4>2. o[i + (j - 1)] = i
        BY <3>3
      <4>3. o[i + j] = i
        BY <1>3, <4>1, <4>2
      <4> QED
        BY <4>1, <4>3
    <3> HIDE DEF S, N
    <3>4. \A j \in 0 .. N : j \in S
      BY ONLY <3>1, <3>2, <3>3, Forwards
    <3>5. ASSUME NEW m \in i .. e - 1 PROVE o[m] = i
      <4>1. m - i \in 0 .. N /\ i + (m - i) = m
        BY DEF N
      <4>2. o[i + (m - i)] = i
        BY <3>4, <4>1 DEF S
      <4> QED
        BY <4>1, <4>2
    <3> QED
      BY <3>5
  <2> QED
    BY <2>1, <2>2
<1>5. CASE e = i
  BY <1>2, <1>4, <1>5
<1>6. CASE e # i
  <2>1. e \in i + 1 .. n /\ e - 1 \in i .. e - 1
    BY <1>6
  <2>2. o[e] = IF Shuts(lines[e], MarkOf(lines[i])) THEN 0 ELSE i
    BY <1>3, <1>4, <2>1
  <2> QED
    BY <1>2, <1>4, <2>2
<1> QED
  BY <1>5, <1>6

\* Prose stays prose up to the next fence.
LEMMA ProseUntil ==
    ASSUME NEW lines, NEW n \in Nat, NEW o, Fencing(o, lines, n),
           NEW i \in 1 .. n, o[i - 1] = 0, NEW e \in i .. n,
           \A k \in i .. e : MarkOf(lines[k]) \notin Fences
    PROVE  \A m \in i .. e : o[m] = 0
<1> DEFINE S == {j \in Int : o[i - 1 + j] = 0}
           N == e - i + 1
<1>1. N \in Nat /\ 0 \in S
  OBVIOUS
<1>2. ASSUME NEW j \in 1 .. N, j - 1 \in S PROVE j \in S
  <2>1. i - 1 + j \in 1 .. n /\ i - 1 + j \in i .. e /\ (i - 1 + j) - 1 = i - 1 + (j - 1) /\ j \in Int
    BY <1>2
  <2>2. o[i - 1 + (j - 1)] = 0
    BY <1>2
  <2>3. o[i - 1 + j] = 0
    BY <2>1, <2>2 DEF Fencing
  <2> QED
    BY <2>1, <2>3
<1> HIDE DEF S, N
<1>3. \A j \in 0 .. N : j \in S
  BY ONLY <1>1, <1>2, Forwards
<1> SUFFICES ASSUME NEW m \in i .. e PROVE o[m] = 0
  OBVIOUS
<1>4. m - i + 1 \in 0 .. N /\ i - 1 + (m - i + 1) = m
  BY DEF N
<1>5. o[i - 1 + (m - i + 1)] = 0
  BY <1>3, <1>4 DEF S
<1> QED
  BY <1>4, <1>5

\* The text of the lines from b[1] to b[2].
PartOf(lines, b) == FlattenSeq(SubSeq(lines, b[1], b[2]))

\* The blocks of a text, cleaned, quote its code.
LEMMA BlocksQuoteCode ==
    ASSUME NEW text \in Text, NEW b \in CodeBlocks(KeptLines(text))
    PROVE  /\ FlatMap(CleanBlock, FencedBlocks(text)) \in Text
           /\ PartOf(KeptLines(text), b) \in Text
           /\ Quotes(FlatMap(CleanBlock, FencedBlocks(text)), PartOf(KeptLines(text), b))
<1> DEFINE lines == KeptLines(text)
           n == Len(lines)
           cb == [x \in Blocks |-> CleanBlock(x)]
<1>1. lines \in Seq(Text) /\ n \in Nat /\ DOMAIN lines = 1 .. n
  <2>1. KeptLines(text) \in Seq(Seq(Atoms))
    BY LinesTile DEF Text
  <2> QED
    BY <2>1 DEF Text
<1>2. PICK f, end : FenceScan(f, end, lines, n) /\ FencedBlocks(text) = f[1]
  BY FencedSteps
<1>3. PICK o : /\ Fencing(o, lines, n)
               /\ CodeBlocks(lines) =
                     {c \in (DOMAIN lines) \X (DOMAIN lines) :
                         /\ c[1] <= c[2] /\ o[c[1]] = c[1] /\ o[c[1] - 1] = 0
                         /\ \A m \in c[1] .. c[2] - 1 : o[m] = c[1]
                         /\ c[2] = Len(lines) \/ o[c[2]] = 0}
  BY <1>1, CodeBlocksAre
<1>4. /\ b[1] \in 1 .. n /\ b[2] \in 1 .. n /\ b[1] <= b[2] /\ o[b[1]] = b[1] /\ o[b[1] - 1] = 0
      /\ \A m \in b[1] .. b[2] - 1 : o[m] = b[1]
      /\ b[2] = n \/ o[b[2]] = 0
  <2>1. b \in (DOMAIN lines) \X (DOMAIN lines)
    BY <1>3
  <2> QED
    BY <1>1, <1>3, <2>1
<1>5. cb \in [Blocks -> Text]
  <2>1. ASSUME NEW x \in Blocks PROVE CleanBlock(x) \in Text
    <3>1. x.text \in Text
      BY DEF Blocks
    <3> QED
      BY <3>1, CleanProseText DEF CleanBlock
  <2> QED
    BY <2>1
<1>6. f[1] \in Seq(Blocks)
  BY <1>1, <1>2 DEF FenceScan
<1>7. FlatMap(CleanBlock, FencedBlocks(text)) = Spelled(cb, f[1])
  <2>1. \A i \in DOMAIN f[1] : f[1][i] \in Blocks
    BY <1>6
  <2>2. \A i \in DOMAIN f[1] : cb[f[1][i]] = CleanBlock(f[1][i])
    BY <2>1
  <2> HIDE DEF cb
  <2> QED
    BY <1>2, <2>2 DEF FlatMap, Map, Spelled
<1> HIDE DEF lines, n
<1>8. ASSUME NEW line \in Text
      PROVE  /\ OpensFence(line) <=> MarkOf(line) \in Fences
             /\ OpensFence(line) => Head(Outdent(line)) = MarkOf(line)
             /\ \A g : ClosesFence(line, g) <=> Shuts(line, g)
  BY FenceMarks
<1>9. \A i \in 1 .. n : lines[i] \in Text
  BY <1>1
<1>10. /\ \A s \in Seq(Blocks) : Spelled(cb, s) \in Text
       /\ \A x \in Blocks : Spelled(cb, <<x>>) = cb[x]
       /\ \A s \in Seq(Blocks), t \in Seq(Blocks) : Spelled(cb, s \o t) = Spelled(cb, s) \o Spelled(cb, t)
  <2>1. cb \in [Blocks -> Seq(Atoms)]
    BY <1>5 DEF Text
  <2> HIDE DEF cb
  <2> QED
    BY ONLY SMTT(40), <2>1, SpelledParts DEF Text
<1> DEFINE p == PartOf(lines, b)
<1>11. p \in Text
  <2>1. b[1] \in Nat /\ 1 <= b[1] /\ b[2] \in Int /\ b[2] <= Len(lines)
    BY <1>1, <1>4 DEF n
  <2>2. SubSeq(lines, b[1], b[2]) \in Seq(Text)
    BY ONLY <1>1, <2>1, SubSequence
  <2> QED
    BY <2>2, FlattenSequence DEF Text, PartOf
<1> DEFINE Good(i) == o[i - 1] = 0 /\ b[1] >= i => Quotes(Spelled(cb, f[i]), p)
           S == {i \in Int : Good(i)}
<1>12. ASSUME NEW i \in 1 .. n, o[i - 1] = 0, b[1] >= i, \A k \in i + 1 .. n : k \in S
       PROVE  Quotes(Spelled(cb, f[i]), p)
  <2> DEFINE e == end[i]
             x == [fenced |-> OpensFence(lines[i]), text |-> FlattenSeq(SubSeq(lines, i, e))]
  <2>1. /\ e \in i .. n /\ f[i] = <<x>> \o f[e + 1]
        /\ OpensFence(lines[i]) =>
              /\ \A k \in i + 1 .. e - 1 : ~ClosesFence(lines[k], Head(Outdent(lines[i])))
              /\ e # n => e # i /\ ClosesFence(lines[e], Head(Outdent(lines[i])))
        /\ ~OpensFence(lines[i]) => \A k \in i .. e : ~OpensFence(lines[k])
    BY <1>2 DEF FenceScan
  <2> HIDE DEF e
  <2>2. x \in Blocks
    <3>1. i \in Nat /\ 1 <= i /\ e \in Int /\ e <= Len(lines)
      <4>1. n \in Nat /\ n = Len(lines)
        BY <1>1 DEF n
      <4>2. e \in i .. n
        BY <2>1
      <4> QED
        BY ONLY <4>1, <4>2, i \in 1 .. n
    <3>2. SubSeq(lines, i, e) \in Seq(Text)
      BY ONLY <1>1, <3>1, SubSequence
    <3>3. FlattenSeq(SubSeq(lines, i, e)) \in Text
      BY <3>2, FlattenSequence DEF Text
    <3>4. OpensFence(lines[i]) \in BOOLEAN
      BY DEF OpensFence, StartsWith
    <3> QED
      BY <3>3, <3>4 DEF Blocks
  <2>3. f[e + 1] \in Seq(Blocks) /\ e + 1 \in 1 .. n + 1
    <3>1. e + 1 \in 1 .. n + 1
      BY <2>1, <1>1
    <3> QED
      BY <1>2, <3>1 DEF FenceScan
  <2>4. /\ Spelled(cb, f[i]) = cb[x] \o Spelled(cb, f[e + 1]) /\ cb[x] \in Text
        /\ Spelled(cb, f[e + 1]) \in Text
    <3> HIDE DEF x, cb
    <3>1. <<x>> \in Seq(Blocks)
      BY <2>2
    <3>2. Spelled(cb, <<x>> \o f[e + 1]) = Spelled(cb, <<x>>) \o Spelled(cb, f[e + 1])
      BY ONLY <1>10, <2>3, <3>1
    <3>3. Spelled(cb, <<x>>) = cb[x]
      BY ONLY <1>10, <2>2
    <3>4. cb[x] \in Text
      BY ONLY <1>5, <2>2
    <3> QED
      BY <1>10, <2>1, <2>3, <3>2, <3>3, <3>4
  <2>5. ASSUME o[e] = 0, b[1] > e
        PROVE  Quotes(Spelled(cb, f[i]), p)
    <3>1. e + 1 \in i + 1 .. n
      <4>1. n \in Int /\ b[1] \in Int /\ b[1] <= n
        BY <1>1, <1>4
      <4> QED
        BY <2>1, <2>5, <4>1
    <3>2. e + 1 \in S
      BY <1>12, <3>1
    <3>3. b[1] >= e + 1 /\ (e + 1) - 1 = e
      BY <1>4, <2>1, <2>5
    <3>4. Quotes(Spelled(cb, f[e + 1]), p)
      BY <2>5, <3>2, <3>3
    <3> DEFINE u == Spelled(cb, f[e + 1])
               a == cb[x]
    <3>5. u \in Text /\ a \in Text /\ Quotes(u, p) /\ Spelled(cb, f[i]) = a \o u
      BY <2>4, <3>4
    <3> HIDE DEF u, a, p
    <3>6. u \o <<>> = u /\ <<>> \in Seq(Atoms)
      BY <3>5 DEF Text
    <3>7. Quotes(a \o (u \o <<>>), p)
      BY ONLY <1>11, <3>5, <3>6, QuotesIn DEF Text
    <3> QED
      BY <3>5, <3>6, <3>7
  <2>6. CASE OpensFence(lines[i])
    <3>1. /\ MarkOf(lines[i]) \in Fences
          /\ \A k \in i + 1 .. e - 1 : ~Shuts(lines[k], MarkOf(lines[i]))
          /\ e # n => e # i /\ Shuts(lines[e], MarkOf(lines[i]))
      <4>1. Head(Outdent(lines[i])) = MarkOf(lines[i]) /\ MarkOf(lines[i]) \in Fences
        BY <1>8, <1>9, <2>6
      <4>2. ASSUME NEW k \in i + 1 .. e - 1 PROVE ~Shuts(lines[k], MarkOf(lines[i]))
        <5>1. k \in 1 .. n
          BY <1>1, <2>1
        <5> QED
          BY <1>8, <1>9, <2>1, <2>6, <4>1, <5>1
      <4>3. e \in 1 .. n
        BY <1>1, <2>1
      <4> QED
        BY <1>8, <1>9, <2>1, <2>6, <4>1, <4>2, <4>3
    <3>2. /\ o[i] = i /\ \A m \in i .. e - 1 : o[m] = i
          /\ o[e] \in {0, i} /\ (e # n => o[e] = 0)
      <4>1. /\ o[i] = i /\ \A m \in i .. e - 1 : o[m] = i
            /\ o[e] \in {0, i}
            /\ e # i /\ Shuts(lines[e], MarkOf(lines[i])) => o[e] = 0
        <5>1. Fencing(o, lines, n) /\ n \in Nat /\ o[i - 1] = 0
          BY <1>1, <1>3, <1>12
        <5>2. e \in i .. n
          BY <2>1
        <5>3. \A k \in i + 1 .. e - 1 : ~Shuts(lines[k], MarkOf(lines[i]))
          BY <3>1
        <5>4. MarkOf(lines[i]) \in Fences
          BY <3>1
        <5> QED
          BY ONLY <5>1, <5>2, <5>3, <5>4, i \in 1 .. n, FencedUntil
      <4> QED
        BY <3>1, <4>1
    <3>3. CASE b[1] = i
      <4>1. b[2] = e
        <5>1. ASSUME b[2] < e PROVE FALSE
          <6>1. b[2] \in i .. e - 1 /\ b[2] # n
            BY <1>1, <1>4, <2>1, <3>3, <5>1
          <6>2. o[b[2]] = i /\ i # 0
            BY <3>2, <6>1
          <6> QED
            BY <1>4, <6>1, <6>2
        <5>2. ASSUME b[2] > e PROVE FALSE
          <6>1. e # n /\ e \in b[1] .. b[2] - 1
            BY <1>1, <1>4, <2>1, <3>3, <5>2
          <6>2. o[e] = 0 /\ o[e] = b[1] /\ b[1] # 0
            BY <1>4, <3>2, <6>1
          <6> QED
            BY <6>2
        <5>3. b[2] \in Int /\ e \in Int
          BY <1>4, <2>1
        <5> QED
          BY <5>1, <5>2, <5>3
      <4>2. cb[x] = p
        <5>1. cb[x] = x.text
          BY <2>2, <2>6 DEF CleanBlock
        <5> QED
          BY <3>3, <4>1, <5>1 DEF PartOf
      <4> DEFINE u == Spelled(cb, f[e + 1])
      <4>3. u \in Text /\ Spelled(cb, f[i]) = p \o u
        BY <2>4, <4>2
      <4> HIDE DEF u, p
      <4>4. <<>> \o (p \o u) = p \o u /\ <<>> \in Seq(Atoms)
        BY <1>11, <4>3 DEF Text
      <4>5. Quotes(p, p)
        BY <1>11, QuotesSelf DEF Text
      <4>6. Quotes(<<>> \o (p \o u), p)
        BY ONLY <1>11, <4>3, <4>4, <4>5, QuotesIn DEF Text
      <4> QED
        BY <4>3, <4>4, <4>6
    <3>4. CASE b[1] # i
      <4>1. b[1] > e /\ o[e] = 0
        <5>1. b[1] \notin i .. e - 1
          BY <1>4, <3>2, <3>4
        <5>2. b[1] # e
          <6>1. b[1] \in Int /\ b[1] > 0 /\ i \in Int
            BY <1>4
          <6> QED
            BY <1>4, <3>2, <3>4, <6>1
        <5>3. b[1] > e
          <6>1. b[1] \in Int /\ e \in Int /\ i \in Int
            BY <1>4, <2>1
          <6> QED
            BY <1>12, <5>1, <5>2, <6>1
        <5>4. e # n
          BY <1>1, <1>4, <2>1, <5>3
        <5> QED
          BY <3>2, <5>3, <5>4
      <4> QED
        BY <2>5, <4>1
    <3> QED
      BY <3>3, <3>4
  <2>7. CASE ~OpensFence(lines[i])
    <3>1. ASSUME NEW k \in i .. e PROVE MarkOf(lines[k]) \notin Fences
      <4>1. k \in 1 .. n
        BY <1>1, <2>1
      <4> QED
        BY <1>8, <1>9, <2>1, <2>7, <4>1
    <3>2. \A m \in i .. e : o[m] = 0
      <4>1. Fencing(o, lines, n) /\ n \in Nat /\ o[i - 1] = 0
        BY <1>1, <1>3, <1>12
      <4>2. e \in i .. n
        BY <2>1
      <4> QED
        BY ONLY <3>1, <4>1, <4>2, i \in 1 .. n, ProseUntil
    <3>3. b[1] > e /\ e \in i .. e
      <4>1. b[1] \notin i .. e
        BY <1>4, <3>2
      <4>2. b[1] \in Int /\ e \in Int /\ i \in Int
        BY <1>4, <2>1
      <4> QED
        BY <1>12, <2>1, <4>1, <4>2
    <3> QED
      BY <2>5, <3>2, <3>3
  <2> QED
    BY <2>6, <2>7
<1>13. ASSUME NEW i \in 1 .. n, \A k \in i + 1 .. n : k \in S PROVE i \in S
  <2>1. Good(i)
    BY <1>12, <1>13
  <2> QED
    BY <2>1
<1> HIDE DEF S
<1>14. \A i \in 1 .. n : i \in S
  <2>1. 1 \in Int /\ n \in Int
    BY <1>1
  <2> QED
    BY ONLY <1>13, <2>1, Backwards
<1>15. Quotes(Spelled(cb, f[1]), p)
  <2>1. 1 \in S /\ b[1] >= 1
    BY <1>1, <1>4, <1>14
  <2>2. o[1 - 1] = 0
    <3>1. 1 - 1 = 0
      OBVIOUS
    <3> QED
      BY <1>3, <3>1 DEF Fencing
  <2> QED
    BY <2>1, <2>2 DEF S
<1>16. Spelled(cb, f[1]) \in Text
  BY <1>6, <1>10
<1> QED
  BY <1>7, <1>11, <1>15, <1>16 DEF lines

\* CleanMarkdown keeps the code.
LEMMA CodeSurvives ==
    ASSUME NEW text \in Text, NEW b \in CodeBlocks(KeptLines(text))
    PROVE  Quotes(CleanMarkdown(text), Strip(FlattenSeq(SubSeq(KeptLines(text), b[1], b[2]))))
<1> DEFINE t == FlatMap(CleanBlock, FencedBlocks(text))
           p == PartOf(KeptLines(text), b)
<1>1. t \in Text /\ p \in Text /\ Quotes(t, p)
  BY BlocksQuoteCode
<1>2. CleanMarkdown(text) = Strip(t) \o <<NL>>
  BY DEF CleanMarkdown
<1>3. p = FlattenSeq(SubSeq(KeptLines(text), b[1], b[2]))
  BY DEF PartOf
<1> HIDE DEF t, p
<1>4. Quotes(Strip(t) \o <<NL>>, Strip(p))
  BY ONLY <1>1, QuotesStripped
<1> QED
  BY <1>2, <1>3, <1>4

\* CodeIsKept.
THEOREM CodeKept == Spec => []CodeIsKept
<1>1. ASSUME BatchInv, TextInv PROVE CodeIsKept
  <2> SUFFICES ASSUME NEW r \in Made, NEW b \in CodeBlocks(KeptLines(r.raw))
               PROVE  Quotes(r.markdown, Strip(FlattenSeq(SubSeq(KeptLines(r.raw), b[1], b[2]))))
    BY DEF CodeIsKept
  <2> DEFINE text == r.raw
  <2>1. text \in Text /\ r.markdown = CleanMarkdown(text)
    BY <1>1, MadeAre
  <2>2. b \in CodeBlocks(KeptLines(text))
    OBVIOUS
  <2> HIDE DEF text
  <2>3. Quotes(CleanMarkdown(text), Strip(FlattenSeq(SubSeq(KeptLines(text), b[1], b[2]))))
    BY <2>1, <2>2, CodeSurvives
  <2> QED
    BY <2>1, <2>3 DEF text
<1> QED
  BY <1>1, TextInvariant, PTL

-----------------------------------------------------------------------------
(* Words, and the tables of contents.                                       *)

\* What g makes nothing of.
LEMMA SpelledVoid ==
    ASSUME NEW S, NEW T, NEW g \in [S -> Seq(T)], NEW s \in Seq(S), \A i \in 1 .. Len(s) : g[s[i]] = <<>>
    PROVE  Spelled(g, s) = <<>>
<1> DEFINE P == {v \in Seq(S) : (\A i \in 1 .. Len(v) : g[v[i]] = <<>>) => Spelled(g, v) = <<>>}
<1>1. <<>> \in P
  BY SpelledNone
<1>2. ASSUME NEW v \in Seq(S), NEW x \in S, v \in P PROVE Append(v, x) \in P
  <2> DEFINE u == Append(v, x)
  <2>1. u \in Seq(S) /\ Len(u) = Len(v) + 1 /\ Len(v) \in Nat /\ u[Len(v) + 1] = x /\ \A i \in 1 .. Len(v) : u[i] = v[i]
    OBVIOUS
  <2>2. Spelled(g, u) = Spelled(g, v) \o g[x]
    BY SpelledAppend
  <2> HIDE DEF u
  <2>3. ASSUME \A i \in 1 .. Len(u) : g[u[i]] = <<>> PROVE Spelled(g, u) = <<>>
    <3>1. g[x] = <<>> /\ \A i \in 1 .. Len(v) : g[v[i]] = <<>>
      BY <2>1, <2>3
    <3>2. Spelled(g, v) = <<>>
      BY <1>2, <3>1
    <3>3. <<>> \o <<>> = <<>>
      OBVIOUS
    <3> QED
      BY <2>2, <3>1, <3>2, <3>3
  <2>4. u \in P
    BY <2>1, <2>3
  <2> QED
    BY <2>4 DEF u
<1> HIDE DEF P
<1>3. s \in P
  BY ONLY <1>1, <1>2, s \in Seq(S), SeqInduction
<1> QED
  BY <1>3 DEF P

\* Spelling goes through every concatenation.
Law(g, S) == \A s, t \in Seq(S) : Spelled(g, s \o t) = Spelled(g, s) \o Spelled(g, t)

\* Spelling distributes over concatenation, as a hypothesis the next lemma takes.
LEMMA SpelledLaw == ASSUME NEW S, NEW T, NEW g \in [S -> Seq(T)] PROVE Law(g, S)
BY SMTT(60), SpelledParts DEF Law

InThree(g, a, b, c) == Spelled(g, (a \o b) \o c) = (Spelled(g, a) \o Spelled(g, b)) \o Spelled(g, c)

\* Spelling goes through two concatenations.
LEMMA SpelledThree ==
    ASSUME NEW S, NEW g, Law(g, S), NEW a \in Seq(S), NEW b \in Seq(S), NEW c \in Seq(S)
    PROVE  InThree(g, a, b, c)
<1> DEFINE d == a \o b
<1>1. d \in Seq(S)
  OBVIOUS
<1>2. Spelled(g, d) = Spelled(g, a) \o Spelled(g, b)
  BY DEF Law
<1> HIDE DEF d
<1>3. Spelled(g, d \o c) = Spelled(g, d) \o Spelled(g, c)
  BY <1>1 DEF Law
<1> QED
  BY <1>2, <1>3 DEF d, InThree

\* The ends of s, of which g makes nothing.
LEMMA SpelledPart ==
    ASSUME NEW S, NEW T, NEW g \in [S -> Seq(T)], NEW s \in Seq(S),
           NEW lo \in 1 .. Len(s) + 1, NEW hi \in lo - 1 .. Len(s),
           \A i \in 1 .. Len(s) : i < lo \/ hi < i => g[s[i]] = <<>>
    PROVE  Spelled(g, SubSeq(s, lo, hi)) = Spelled(g, s)
<1> DEFINE n == Len(s)
           m == lo - 1
           a == Slice(s, 0, m)
           b == Slice(s, m, hi)
           c == Slice(s, hi, n)
<1>1. n \in Nat /\ m \in Nat /\ hi \in Nat /\ 0 \in Nat /\ 0 <= m /\ m <= hi /\ hi <= n /\ 0 <= hi /\ m <= n /\ n <= Len(s)
  OBVIOUS
<1>2. a \in Seq(S) /\ Len(a) = m /\ \A i \in 1 .. m : a[i] = s[i]
  <2>1. Slice(s, 0, m) \in Seq(S) /\ Len(Slice(s, 0, m)) = m - 0 /\ \A i \in 1 .. m - 0 : Slice(s, 0, m)[i] = s[0 + i]
    BY ONLY <1>1, s \in Seq(S), SliceOf
  <2> QED
    BY <1>1, <2>1
<1>3. b \in Seq(S)
  BY ONLY <1>1, s \in Seq(S), SliceOf
<1>4. c \in Seq(S) /\ Len(c) = n - hi /\ \A i \in 1 .. n - hi : c[i] = s[hi + i]
  BY ONLY <1>1, s \in Seq(S), SliceOf
<1>5. a \o b = Slice(s, 0, hi)
  BY ONLY <1>1, s \in Seq(S), SliceConcat
<1>6. Slice(s, 0, hi) \o c = Slice(s, 0, n)
  BY ONLY <1>1, s \in Seq(S), SliceConcat
<1>7. Slice(s, 0, n) = s /\ SubSeq(s, lo, hi) = b
  BY <1>1 DEF Slice
<1>8. \A i \in 1 .. Len(a) : g[a[i]] = <<>>
  <2>1. ASSUME NEW i \in 1 .. m PROVE g[s[i]] = <<>>
    BY <1>1
  <2> HIDE DEF a
  <2> QED
    BY <1>2, <2>1
<1>9. \A i \in 1 .. Len(c) : g[c[i]] = <<>>
  <2>1. ASSUME NEW i \in 1 .. n - hi PROVE g[s[hi + i]] = <<>>
    <3>1. hi + i \in 1 .. Len(s) /\ hi < hi + i
      BY <1>1
    <3> QED
      BY <3>1
  <2> HIDE DEF c
  <2> QED
    BY <1>4, <2>1
<1> HIDE DEF a, b, c, m, n
<1>a. a \in Seq(S)
  BY <1>2
<1>c. c \in Seq(S)
  BY <1>4
<1>10. Spelled(g, a) = <<>>
  BY ONLY <1>a, <1>8, g \in [S -> Seq(T)], SpelledVoid
<1>11. Spelled(g, c) = <<>>
  BY ONLY <1>c, <1>9, g \in [S -> Seq(T)], SpelledVoid
<1>14. Spelled(g, (a \o b) \o c) = (Spelled(g, a) \o Spelled(g, b)) \o Spelled(g, c)
  <2>1. Law(g, S)
    BY SpelledLaw
  <2> QED
    <3>1. InThree(g, a, b, c)
      BY ONLY <1>a, <1>3, <1>c, <2>1, SpelledThree
    <3> QED
      BY ONLY <3>1 DEF InThree
<1>15. Spelled(g, b) \in Seq(T)
  BY ONLY <1>3, g \in [S -> Seq(T)], SpelledSeq
<1>16. (<<>> \o Spelled(g, b)) \o <<>> = Spelled(g, b)
  BY <1>15
<1> QED
  BY <1>5, <1>6, <1>7, <1>10, <1>11, <1>14, <1>16

\* A part of s that begins and ends where the first and the last of I are.
LEMMA SpelledInner ==
    ASSUME NEW S, NEW T, NEW g \in [S -> Seq(T)], NEW s \in Seq(S), NEW I \in SUBSET DOMAIN s,
           \A i \in 1 .. Len(s) : i \notin I => g[s[i]] = <<>>
    PROVE  Spelled(g, IF I = {} THEN <<>> ELSE SubSeq(s, Min(I), Max(I))) = Spelled(g, s)
<1>1. CASE I = {}
  BY <1>1, SpelledNone, SpelledVoid
<1>2. CASE I # {}
  <2> DEFINE n == Len(s)
  <2>1. n \in Int /\ 1 \in Int /\ I \in SUBSET (1 .. n) /\ n \in Nat
    OBVIOUS
  <2> HIDE DEF n
  <2>2. Min(I) \in I /\ \A k \in I : Min(I) <= k
    BY ONLY <1>2, <2>1, MinOf
  <2>3. Max(I) \in I /\ \A k \in I : k <= Max(I)
    BY ONLY <1>2, <2>1, MaxOf
  <2> DEFINE lo == Min(I)
             hi == Max(I)
  <2>4. lo \in I /\ hi \in I /\ (\A k \in I : lo <= k /\ k <= hi) /\ lo \in 1 .. n /\ hi \in 1 .. n
    BY <2>1, <2>2, <2>3
  <2> HIDE DEF lo, hi
  <2>5. lo \in 1 .. n + 1 /\ hi \in lo - 1 .. n
    BY ONLY <2>1, <2>4
  <2>6. ASSUME NEW i \in 1 .. n, i < lo \/ hi < i PROVE i \notin I
    BY ONLY <2>1, <2>4, <2>6
  <2>7. \A i \in 1 .. Len(s) : i < lo \/ hi < i => g[s[i]] = <<>>
    BY <2>6 DEF n
  <2>8. lo \in 1 .. Len(s) + 1 /\ hi \in lo - 1 .. Len(s)
    BY <2>5 DEF n
  <2>9. Spelled(g, SubSeq(s, lo, hi)) = Spelled(g, s)
    BY ONLY <2>7, <2>8, g \in [S -> Seq(T)], s \in Seq(S), SpelledPart
  <2> QED
    BY <1>2, <2>9 DEF lo, hi
<1> QED
  BY <1>1, <1>2

\* The letters that tables and contents entries put in or take out are not words.
LEMMA NoWords ==
    /\ \A x \in Atoms \ Words : word[x] = <<>>
    /\ {SP, Rule, "-", Bar, Leader, Number, PageWord, NL} \cap Words = {} /\ Whitespace \cap Words = {}
    /\ {SP, Rule, "-", Bar, Leader, Number, PageWord, NL} \subseteq Atoms
    /\ word[SP] = <<>> /\ word[Leader] = <<>> /\ word[Number] = <<>> /\ word[PageWord] = <<>> /\ word[Bar] = <<>>
    /\ word[NL] = <<>>
<1>1. {SP, Rule, "-", Bar, Leader, Number, PageWord, NL} \cap Words = {} /\ Whitespace \cap Words = {}
  BY DEF Words, LowerWords, HyphenWord, JoinedWord, Whitespace, NL, CRLF, FF, SP, Rule, Bar, Leader, Number, PageWord
<1>2. {SP, Rule, "-", Bar, Leader, Number, PageWord, NL} \subseteq Atoms
  BY DEF Atoms, Whitespace, ItemMarkers, Bullets
<1>3. ASSUME NEW x \in Atoms \ Words PROVE word[x] = <<>>
  BY DEF word
<1> QED
  BY <1>1, <1>2, <1>3

\* Trimming letters that are not words leaves the words as they were.
LEMMA WordsTrim ==
    ASSUME NEW s \in Text, NEW E, E \cap Words = {}
    PROVE  WordsOf(Trim(s, E)) = WordsOf(s) /\ Trim(s, E) \in Text
<1> DEFINE I == {i \in DOMAIN s : s[i] \notin E}
<1>1. s \in Seq(Atoms) /\ word \in [Atoms -> Seq(Atoms)] /\ I \in SUBSET DOMAIN s
  BY LettersAre DEF Text
<1>2. ASSUME NEW i \in 1 .. Len(s), i \notin I PROVE word[s[i]] = <<>>
  <2>1. s[i] \in E /\ s[i] \in Atoms
    BY <1>1, <1>2
  <2> QED
    BY <2>1, NoWords
<1>3. Trim(s, E) = IF I = {} THEN <<>> ELSE SubSeq(s, Min(I), Max(I))
  BY DEF Trim
<1> HIDE DEF I
<1>4. Spelled(word, IF I = {} THEN <<>> ELSE SubSeq(s, Min(I), Max(I))) = Spelled(word, s)
  BY ONLY <1>1, <1>2, SpelledInner
<1>5. Trim(s, E) \in Text
  BY TrimText
<1> QED
  BY <1>3, <1>4, <1>5, WordsAre

\* Taking out letters that are not words leaves the words as they were.
LEMMA WordsWithout ==
    ASSUME NEW s \in Text, NEW D, \A i \in 1 .. Len(s) : i \in D => s[i] \notin Words
    PROVE  WordsOf(Without(s, D)) = WordsOf(s) /\ Without(s, D) \in Text
<1> DEFINE I == DOMAIN s \ D
<1>1. s \in Seq(Atoms) /\ word \in [Atoms -> Seq(Atoms)]
  BY LettersAre DEF Text
<1>2. ASSUME NEW i \in 1 .. Len(s), i \notin I PROVE word[s[i]] = <<>>
  <2>1. i \in D /\ s[i] \in Atoms
    BY <1>1, <1>2
  <2> QED
    BY <2>1, NoWords
<1>3. Without(s, D) = Selected(s, I)
  BY DEF Without
<1> HIDE DEF I
<1>4. Spelled(word, Selected(s, I)) = Spelled(word, s)
  BY ONLY <1>1, <1>2, SpelledSelected
<1>5. Without(s, D) \in Text
  BY WithoutSequence DEF Text
<1> QED
  BY <1>3, <1>4, <1>5, WordsAre

\* Collapsing blank lines leaves the words as they were.
LEMMA WordsCollapse == ASSUME NEW s \in Text PROVE WordsOf(CollapseBlanks(s)) = WordsOf(s)
<1> DEFINE D == {i \in DOMAIN s : i > 2 /\ \A k \in i - 2 .. i : s[k] = NL}
<1>1. \A i \in 1 .. Len(s) : i \in D => s[i] \notin Words
  <2>1. NL \notin Words
    BY NoWords
  <2>2. s \in Seq(Atoms)
    BY DEF Text
  <2> SUFFICES ASSUME NEW i \in 1 .. Len(s), i \in D PROVE s[i] = NL
    BY <2>1
  <2>3. i \in i - 2 .. i
    OBVIOUS
  <2> QED
    BY <2>3
<1>2. CollapseBlanks(s) = Without(s, D)
  BY DEF CollapseBlanks
<1> HIDE DEF D
<1> QED
  BY <1>1, <1>2, WordsWithout

\* Stripping leaves the words as they were.
LEMMA WordsStrip == ASSUME NEW s \in Text PROVE WordsOf(Strip(s)) = WordsOf(s) /\ Strip(s) \in Text
<1>1. Strip(s) \in Text
  BY StripText
<1> QED
  BY <1>1, CoreStrip, CoreWords

\* A text without a word has no words.
LEMMA WordsOnly ==
    ASSUME NEW s \in Text, NEW N, Only(s, N), N \cap Words = {}
    PROVE  WordsOf(s) = <<>>
<1>1. s \in Seq(Atoms) /\ word \in [Atoms -> Seq(Atoms)]
  BY LettersAre DEF Text
<1>2. ASSUME NEW i \in 1 .. Len(s) PROVE word[s[i]] = <<>>
  BY <1>1, NoWords DEF Only
<1>3. Spelled(word, s) = <<>>
  BY ONLY <1>1, <1>2, SpelledVoid
<1> QED
  BY <1>3, WordsAre

\* The words of the empty text, and of one letter.
LEMMA WordsFew == WordsOf(<<>>) = <<>> /\ words[<<>>] = <<>> /\ \A x \in Atoms : WordsOf(<<x>>) = word[x]
<1>1. WordsOf(<<>>) = <<>>
  BY SomeTexts, WordsAre, SpelledNone, LettersAre
<1>2. ASSUME NEW x \in Atoms PROVE WordsOf(<<x>>) = word[x]
  <2>1. <<x>> \in Text
    BY DEF Text
  <2> QED
    BY <2>1, WordsAre, SpelledOne, LettersAre
<1> QED
  BY <1>1, <1>2, SomeTexts, TextsAre

\* A fragment of a contents line keeps its words.
LEMMA WordsFragment == ASSUME NEW line \in Text PROVE WordsOf(TocFragment(line)) = WordsOf(line) /\ TocFragment(line) \in Text
<1> DEFINE f == [i \in DOMAIN line |-> IF line[i] = Leader THEN SP ELSE line[i]]
           D == {i \in DOMAIN f : i > 1 /\ f[i] = SP /\ f[i - 1] = SP}
<1>1. TocFragment(line) = Trim(OneSpace(f), {SP, Bar})
  BY DEF TocFragment, Map
<1>2. line \in Seq(Atoms) /\ f = [i \in DOMAIN line |-> f[i]]
  BY DEF Text
<1>3. ASSUME NEW i \in 1 .. Len(line) PROVE f[i] \in Atoms /\ word[f[i]] = word[line[i]]
  <2>1. line[i] \in Atoms /\ i \in DOMAIN line
    BY <1>2
  <2>2. f[i] = IF line[i] = Leader THEN SP ELSE line[i]
    BY <2>1
  <2> HIDE DEF f
  <2> QED
    BY <2>1, <2>2, NoWords
<1>a. OneSpace(f) = Without(f, D)
  BY DEF OneSpace
<1>b. \A i \in 1 .. Len(f) : i \in D => f[i] \notin Words
  BY NoWords
<1> HIDE DEF f, D
<1>c. line \in Seq(Atoms)
  BY <1>2
<1>d. f = [i \in DOMAIN line |-> f[i]]
  BY <1>2
<1>e. \A i \in 1 .. Len(line) : f[i] \in Atoms
  BY <1>3
<1>4. f \in Seq(Atoms) /\ Len(f) = Len(line)
  BY ONLY <1>c, <1>d, <1>e, MappedSequence
<1>5. f \in Text
  BY <1>4 DEF Text
<1>6. Spelled(word, f) = Spelled(word, line)
  <2>1. \A i \in 1 .. Len(f) : word[f[i]] = word[line[i]]
    BY <1>3, <1>4
  <2> QED
    BY ONLY <1>2, <1>4, <2>1, SpelledSame
<1>7. WordsOf(f) = WordsOf(line)
  BY <1>5, <1>6, WordsAre
<1>8. WordsOf(OneSpace(f)) = WordsOf(f) /\ OneSpace(f) \in Text
  BY <1>5, <1>a, <1>b, WordsWithout
<1>9. {SP, Bar} \cap Words = {}
  BY NoWords
<1> QED
  BY <1>1, <1>7, <1>8, <1>9, WordsTrim

\* The title of a contents entry keeps its words.
LEMMA WordsTitle == ASSUME NEW s \in Text PROVE WordsOf(Title(s)) = WordsOf(s) /\ Title(s) \in Text
<1>1. {SP, Rule, "-"} \cap Words = {}
  BY NoWords
<1> QED
  BY <1>1, WordsTrim DEF Title

\* A contents entry with its number keeps its words.
LEMMA WordsEntry == ASSUME NEW s \in Text PROVE WordsOf(Entry(s, Number)) = WordsOf(s) /\ Entry(s, Number) \in Text
<1>1. <<SP, PageWord, Number>> \in Text
  BY SomeTexts
<1>2. Only(<<SP, PageWord, Number>>, {SP, PageWord, Number})
  BY DEF Only
<1>3. {SP, PageWord, Number} \cap Words = {}
  BY NoWords
<1>4. WordsOf(<<SP, PageWord, Number>>) = <<>>
  BY <1>1, <1>2, <1>3, WordsOnly
<1>5. WordsOf(s \o <<SP, PageWord, Number>>) = WordsOf(s) \o <<>>
  BY <1>1, <1>4, WordsConcat
<1>6. WordsOf(s) \in Seq(Atoms)
  <2>1. WordsOf(s) \in Text
    BY SomeTexts, WordsConcat
  <2> QED
    BY <2>1 DEF Text
<1>7. WordsOf(s) \o <<>> = WordsOf(s)
  BY <1>6, ConcatEmpty
<1> QED
  BY <1>5, <1>7, EntryText DEF Entry

\* The words of some texts with something between them that has none.
LEMMA WordsJoin ==
    ASSUME NEW ls \in Seq(Text), NEW b \in Text, WordsOf(b) = <<>>
    PROVE  WordsOf(Join(ls, b)) = Spelled(words, ls) /\ Join(ls, b) \in Text
<1> DEFINE P == {v \in Seq(Text) : WordsOf(Join(v, b)) = Spelled(words, v) /\ Join(v, b) \in Text}
<1>0. b \in Text /\ b \in Seq(Atoms) /\ <<>> \in Text
  BY DEF Text
<1>1. <<>> \in P
  <2>1. Join(<<>>, b) = <<>>
    BY ONLY <1>0, JoinFew
  <2>2. Spelled(words, <<>>) = <<>>
    BY TextsAre, SpelledNone
  <2>3. <<>> \in Seq(Text)
    OBVIOUS
  <2> QED
    BY <1>0, <2>1, <2>2, <2>3, WordsFew
<1>2. ASSUME NEW v \in Seq(Text), NEW x \in Text, v \in P PROVE Append(v, x) \in P
  <2>1. Spelled(words, Append(v, x)) = Spelled(words, v) \o words[x]
    BY TextsAre, SpelledAppend
  <2>2. words[x] = WordsOf(x) /\ WordsOf(x) \in Seq(Atoms) /\ x \in Seq(Atoms)
    <3>1. words[x] \in Seq(Atoms) /\ words[x] = WordsOf(x)
      BY TextsAre
    <3> QED
      BY <3>1 DEF Text
  <2>3. Append(v, x) \in Seq(Text)
    OBVIOUS
  <2>4. CASE v = <<>>
    <3>1. Append(v, x) = <<x>>
      BY <2>4
    <3>2. Join(<<x>>, b) = x
      BY ONLY <1>0, <2>2, JoinFew
    <3>3. Spelled(words, <<>>) = <<>>
      BY TextsAre, SpelledNone
    <3>4. <<>> \o WordsOf(x) = WordsOf(x)
      BY <2>2
    <3>5. Spelled(words, Append(v, x)) = WordsOf(x)
      BY <2>1, <2>2, <2>4, <3>3, <3>4
    <3> QED
      BY <2>3, <3>1, <3>2, <3>5
  <2>5. CASE v # <<>>
    <3>1. v \in Parts(Atoms)
      BY <2>5 DEF Parts, Text
    <3>2. Join(Append(v, x), b) = (Join(v, b) \o b) \o x
      BY <1>0, <2>2, <3>1, JoinAppend
    <3>3. WordsOf(Join(v, b)) = Spelled(words, v) /\ Join(v, b) \in Text
      BY <1>2
    <3>4. WordsOf(Join(v, b) \o b) = WordsOf(Join(v, b)) /\ Join(v, b) \o b \in Text
      <4>1. WordsOf(Join(v, b) \o b) = WordsOf(Join(v, b)) \o <<>> /\ WordsOf(Join(v, b)) \in Text
        BY <3>3, WordsConcat
      <4>2. WordsOf(Join(v, b)) \o <<>> = WordsOf(Join(v, b))
        BY <4>1, ConcatEmpty DEF Text
      <4> QED
        BY <3>3, <4>1, <4>2, ConcatText
    <3>5. WordsOf((Join(v, b) \o b) \o x) = WordsOf(Join(v, b) \o b) \o WordsOf(x)
      BY <3>4, WordsConcat
    <3>6. (Join(v, b) \o b) \o x \in Text
      BY <3>4, ConcatText
    <3> QED
      BY <2>1, <2>2, <2>3, <3>2, <3>3, <3>4, <3>5, <3>6
  <2> QED
    BY <2>4, <2>5
<1> HIDE DEF P
<1>3. ls \in P
  BY ONLY <1>1, <1>2, ls \in Seq(Text), SeqInduction
<1> QED
  BY <1>3 DEF P

\* The separators of table cells are texts without a word.
LEMMA BarVoid == <<Bar>> \in Text /\ <<SP>> \in Text /\ WordsOf(<<Bar>>) = <<>> /\ WordsOf(<<SP>>) = <<>>
<1>1. Bar \in Atoms /\ SP \in Atoms
  BY NoWords
<1> QED
  BY <1>1, SomeTexts, WordsFew, NoWords

\* The cells of a row have its words.
LEMMA WordsOfCells ==
    ASSUME NEW line \in Text
    PROVE  /\ Map(Strip, Split(line, Bar)) \in Seq(Text)
           /\ Spelled(words, Map(Strip, Split(line, Bar))) = WordsOf(line)
<1> DEFINE parts == Split(line, Bar)
           cells == [i \in DOMAIN parts |-> Strip(parts[i])]
<1>1. parts \in Seq(Text)
  BY SplitSequence DEF Text
<1>2. Map(Strip, parts) = cells /\ cells = [i \in DOMAIN parts |-> cells[i]]
  BY DEF Map
<1>3. Join(parts, <<Bar>>) = line
  <2>1. line \in Seq(Atoms) /\ Bar \in Atoms
    BY NoWords DEF Text
  <2> QED
    BY <2>1, JoinSplit
<1> HIDE DEF parts
<1>4. ASSUME NEW i \in 1 .. Len(parts) PROVE cells[i] \in Text /\ words[cells[i]] = words[parts[i]]
  <2>1. parts[i] \in Text /\ i \in DOMAIN parts
    BY <1>1
  <2>2. cells[i] = Strip(parts[i])
    BY <2>1
  <2> HIDE DEF cells
  <2>3. WordsOf(Strip(parts[i])) = WordsOf(parts[i]) /\ Strip(parts[i]) \in Text
    BY <2>1, WordsStrip
  <2> QED
    BY <2>1, <2>2, <2>3, TextsAre
<1> HIDE DEF cells
<1>5. cells \in Seq(Text)
  <2>1. \A i \in 1 .. Len(parts) : cells[i] \in Text
    BY <1>4
  <2> QED
    BY ONLY ZenonT(40), <1>1, <1>2, <2>1, MappedSequence
<1>6. Len(cells) = Len(parts)
  <2>1. DOMAIN cells = DOMAIN parts
    BY <1>2
  <2> QED
    BY <1>1, <1>5, <2>1
<1>7. Spelled(words, cells) = Spelled(words, parts)
  <2>1. \A i \in 1 .. Len(cells) : words[cells[i]] = words[parts[i]]
    BY <1>4, <1>6
  <2> QED
    BY ONLY <1>1, <1>5, <1>6, <2>1, SpelledSame
<1>8. WordsOf(Join(parts, <<Bar>>)) = Spelled(words, parts)
  BY <1>1, BarVoid, WordsJoin
<1> QED
  BY <1>2, <1>3, <1>5, <1>7, <1>8 DEF parts

\* The cells of a table row hold the words of the row.
LEMMA WordsCells == ASSUME NEW line \in Text PROVE Cells(line) \in Seq(Text) /\ Spelled(words, Cells(line)) = WordsOf(line)
<1> DEFINE cells == Map(Strip, Split(line, Bar))
           lo == IF Head(cells) = <<>> THEN 2 ELSE 1
           hi == IF Len(cells) > 1 /\ Last(cells) = <<>> THEN Len(cells) - 1 ELSE Len(cells)
<1>1. cells \in Seq(Text) /\ Spelled(words, cells) = WordsOf(line)
  BY WordsOfCells
<1>2. Cells(line) = SubSeq(cells, lo, hi)
  BY DEF Cells, WithoutEmptyEnds
<1>3. Len(cells) > 0
  <2> DEFINE parts == Split(line, Bar)
  <2>1. parts \in Parts(Atoms)
    <3>1. line \in Seq(Atoms) /\ Bar \in Atoms
      BY NoWords DEF Text
    <3> QED
      BY ONLY <3>1, SplitAppend
  <2>2. parts \in Seq(Text) /\ parts # <<>>
    BY <2>1 DEF Parts, Text
  <2>3. DOMAIN cells = DOMAIN parts
    BY DEF Map
  <2> HIDE DEF parts, cells
  <2> QED
    BY <1>1, <2>2, <2>3
<1> HIDE DEF cells
<1>4. cells[1] = Head(cells) /\ Last(cells) = cells[Len(cells)] /\ Len(cells) \in Nat
  BY <1>1, <1>3 DEF Last
<1>5. lo \in 1 .. Len(cells) + 1 /\ hi \in lo - 1 .. Len(cells)
  BY <1>3, <1>4
<1>6. ASSUME NEW i \in 1 .. Len(cells), i < lo \/ hi < i PROVE words[cells[i]] = <<>>
  <2>1. cells[i] = <<>>
    BY <1>3, <1>4, <1>6
  <2> QED
    BY <2>1, WordsFew
<1> HIDE DEF lo, hi
<1>7. words \in [Text -> Seq(Atoms)]
  BY TextsAre
<1>8. Spelled(words, SubSeq(cells, lo, hi)) = Spelled(words, cells)
  <2>1. cells \in Seq(Text)
    BY <1>1
  <2> QED
    BY ONLY <1>5, <1>6, <1>7, <2>1, SpelledPart
<1> QED
  BY <1>1, <1>2, <1>8, CellsText

\* A line of nothing but table rules has no words.
LEMMA WordsSeparator ==
    ASSUME NEW line \in Text, IsSeparatorOnly(line)
    PROVE  WordsOf(line) = <<>>
<1>1. Strip(line) \in Text /\ WordsOf(Strip(line)) = WordsOf(line)
  BY WordsStrip
<1>2. Only(Strip(line), {Rule, Leader, SP})
  BY <1>1, OnlyRange DEF IsSeparatorOnly
<1>3. {Rule, Leader, SP} \cap Words = {}
  BY NoWords
<1> QED
  BY <1>1, <1>2, <1>3, WordsOnly

\* What an entry is made of has the words of the cells.
LEMMA WordsTocEntry ==
    ASSUME NEW cells \in Seq(Text)
    PROVE  TocEntry(cells) \in Text /\ WordsOf(TocEntry(cells)) = Spelled(words, cells)
<1> DEFINE clean == [i \in DOMAIN cells |-> TocFragment(cells[i])]
           page == {i \in DOMAIN clean : clean[i] = <<Number>>
                                          /\ \A k \in i + 1 .. Len(clean) : clean[k] # <<Number>>}
           D == page \cup {i \in DOMAIN clean : ~ (clean[i] # <<>> /\ ~IsSeparatorOnly(clean[i]))}
           rest == Without(clean, D)
           title == Title(Join(rest, <<SP>>))
<1>1. TocEntry(cells) \in {title, Entry(title, Number)}
  BY DEF TocEntry, Map
<1>2. clean = [i \in DOMAIN cells |-> clean[i]]
  OBVIOUS
<1>3. ASSUME NEW i \in 1 .. Len(cells) PROVE clean[i] \in Text /\ words[clean[i]] = words[cells[i]]
  <2>1. cells[i] \in Text /\ i \in DOMAIN cells
    OBVIOUS
  <2>2. clean[i] = TocFragment(cells[i])
    BY <2>1
  <2> HIDE DEF clean
  <2>3. TocFragment(cells[i]) \in Text /\ WordsOf(TocFragment(cells[i])) = WordsOf(cells[i])
    BY <2>1, WordsFragment
  <2> QED
    BY <2>1, <2>2, <2>3, TextsAre
<1>a. \A i \in D : clean[i] = <<Number>> \/ clean[i] = <<>> \/ IsSeparatorOnly(clean[i])
  OBVIOUS
<1> HIDE DEF clean, D
<1>4. clean \in Seq(Text)
  <2>1. \A i \in 1 .. Len(cells) : clean[i] \in Text
    BY <1>3
  <2> QED
    BY ONLY <1>2, <2>1, cells \in Seq(Text), MappedSequence
<1>5. Len(clean) = Len(cells) /\ DOMAIN clean = 1 .. Len(clean)
  <2>1. DOMAIN clean = DOMAIN cells
    BY <1>2
  <2> QED
    BY <1>4, <2>1
<1>6. Spelled(words, clean) = Spelled(words, cells)
  <2>1. \A i \in 1 .. Len(clean) : words[clean[i]] = words[cells[i]]
    BY <1>3, <1>5
  <2>2. Len(clean) = Len(cells)
    BY <1>5
  <2> QED
    BY ONLY <1>4, <2>1, <2>2, cells \in Seq(Text), SpelledSame
<1> DEFINE I == DOMAIN clean \ D
<1>7. ASSUME NEW i \in 1 .. Len(clean), i \notin I PROVE words[clean[i]] = <<>>
  <2>1. i \in D /\ clean[i] \in Text
    BY <1>4, <1>5, <1>7
  <2>2. WordsOf(<<Number>>) = <<>>
    BY NoWords, WordsFew
  <2>3. WordsOf(clean[i]) = <<>>
    BY <1>a, <2>1, <2>2, WordsFew, WordsSeparator
  <2> QED
    BY <2>1, <2>3, TextsAre
<1>8. rest \in Seq(Text)
  BY <1>4, WithoutSequence
<1>9. rest = Selected(clean, I)
  BY DEF Without
<1> HIDE DEF I, rest
<1>b. words \in [Text -> Seq(Atoms)]
  BY TextsAre
<1>10. Spelled(words, Selected(clean, I)) = Spelled(words, clean)
  BY ONLY <1>4, <1>7, <1>b, SpelledSelected
<1>11. WordsOf(Join(rest, <<SP>>)) = Spelled(words, rest) /\ Join(rest, <<SP>>) \in Text
  BY <1>8, BarVoid, WordsJoin
<1>12. WordsOf(title) = WordsOf(Join(rest, <<SP>>)) /\ title \in Text
  BY <1>11, WordsTitle
<1> HIDE DEF title
<1>13. WordsOf(Entry(title, Number)) = WordsOf(title) /\ Entry(title, Number) \in Text
  BY <1>12, WordsEntry
<1> QED
  BY <1>1, <1>6, <1>9, <1>10, <1>11, <1>12, <1>13

\* low is s with some of its texts blank.
Thins(low, s) == Len(low) = Len(s) /\ \A i \in 1 .. Len(s) : low[i] = <<>> \/ low[i] = s[i]

\* All that w has, and nothing that s has not.
Amid(low, w, s) == Sub(Spelled(words, low), w) /\ Sub(w, Spelled(words, s))

\* A function on the positions of a sequence is as long.
LEMMA MappedLen ==
    ASSUME NEW S, NEW T, NEW s \in Seq(S), NEW f \in Seq(T), f = [i \in DOMAIN s |-> f[i]]
    PROVE  f \in Seq(T) /\ Len(f) = Len(s)
<1>1. DOMAIN f = DOMAIN s
  OBVIOUS
<1> QED
  BY ONLY <1>1, s \in Seq(S), f \in Seq(T)

\* The words of a sequence of texts are a text.
LEMMA WordsOfSeq == ASSUME NEW s \in Seq(Text) PROVE Spelled(words, s) \in Seq(Atoms)
  BY TextsAre, SpelledSeq

\* Texts that have fewer words, one by one.
LEMMA SpelledSub ==
    ASSUME NEW s \in Seq(Text), NEW t \in Seq(Text), Len(s) = Len(t),
           \A i \in 1 .. Len(s) : words[s[i]] = <<>> \/ words[s[i]] = words[t[i]]
    PROVE  Sub(Spelled(words, s), Spelled(words, t))
<1> DEFINE as == [i \in DOMAIN s |-> words[s[i]]]
           bs == [i \in DOMAIN t |-> words[t[i]]]
<1>1. FlattenSeq(as) = Spelled(words, s) /\ FlattenSeq(bs) = Spelled(words, t)
  BY DEF Spelled
<1>2. as = [i \in DOMAIN s |-> as[i]] /\ bs = [i \in DOMAIN t |-> bs[i]]
  OBVIOUS
<1>3. ASSUME NEW i \in 1 .. Len(s)
      PROVE  as[i] \in Seq(Atoms) /\ bs[i] \in Seq(Atoms) /\ Sub(as[i], bs[i])
  <2>1. s[i] \in Text /\ t[i] \in Text /\ i \in DOMAIN s /\ i \in DOMAIN t
    OBVIOUS
  <2>2. as[i] = words[s[i]] /\ bs[i] = words[t[i]]
    BY <2>1
  <2>3. words[s[i]] \in Seq(Atoms) /\ words[t[i]] \in Seq(Atoms)
    BY <2>1, TextsAre
  <2>4. words[s[i]] = <<>> \/ words[s[i]] = words[t[i]]
    OBVIOUS
  <2> HIDE DEF as, bs
  <2> QED
    BY <2>2, <2>3, <2>4, SubNone, SubSelf
<1> HIDE DEF as, bs
<1>4. as \in Seq(Seq(Atoms)) /\ Len(as) = Len(s)
  <2>1. \A i \in 1 .. Len(s) : as[i] \in Seq(Atoms)
    BY <1>3
  <2>2. as = [i \in DOMAIN s |-> as[i]]
    BY <1>2
  <2>3. as \in Seq(Seq(Atoms))
    BY ONLY <2>1, <2>2, s \in Seq(Text), MappedSequence
  <2> QED
    BY ONLY <2>2, <2>3, s \in Seq(Text), MappedLen
<1>5. bs \in Seq(Seq(Atoms)) /\ Len(bs) = Len(t)
  <2>1. \A i \in 1 .. Len(t) : bs[i] \in Seq(Atoms)
    BY <1>3
  <2>2. bs = [i \in DOMAIN t |-> bs[i]]
    BY <1>2
  <2>3. bs \in Seq(Seq(Atoms))
    BY ONLY <2>1, <2>2, t \in Seq(Text), MappedSequence
  <2> QED
    BY ONLY <2>2, <2>3, t \in Seq(Text), MappedLen
<1>6. Sub(FlattenSeq(as), FlattenSeq(bs))
  <2>1. \A i \in 1 .. Len(as) : Sub(as[i], bs[i])
    BY <1>3, <1>4
  <2>2. Len(as) = Len(bs) /\ as \in Seq(Seq(Atoms)) /\ bs \in Seq(Seq(Atoms))
    BY <1>4, <1>5
  <2> QED
    BY ONLY <2>1, <2>2, SubFlatten
<1> QED
  BY <1>1, <1>6

\* Blanking texts of a sequence leaves some of its words out.
LEMMA ThinsSub ==
    ASSUME NEW low \in Seq(Text), NEW s \in Seq(Text), Thins(low, s)
    PROVE  Sub(Spelled(words, low), Spelled(words, s))
<1>1. \A i \in 1 .. Len(low) : words[low[i]] = <<>> \/ words[low[i]] = words[s[i]]
  BY WordsFew DEF Thins
<1> QED
  BY <1>1, SpelledSub DEF Thins

\* The words of a sequence lie between those of a thinned one and its own.
LEMMA AmidSame ==
    ASSUME NEW low \in Seq(Text), NEW s \in Seq(Text), Thins(low, s)
    PROVE  Amid(low, Spelled(words, s), s)
  BY ThinsSub, WordsOfSeq, SubSelf DEF Amid

\* A row of nothing but separators.
SeparatorLine(line) == IsSeparatorRow(Cells(line))

\* The separator row of a table has no words.
LEMMA WordsSeparatorRow == ASSUME NEW line \in Text, SeparatorLine(line) PROVE WordsOf(line) = <<>>
<1> DEFINE cells == Cells(line)
<1>1. cells \in Seq(Text) /\ Spelled(words, cells) = WordsOf(line)
  BY WordsCells
<1>2. IsSeparatorRow(cells)
  BY DEF SeparatorLine
<1> HIDE DEF cells
<1>3. ASSUME NEW i \in 1 .. Len(cells) PROVE words[cells[i]] = <<>>
  <2>1. cells[i] \in Text /\ i \in DOMAIN cells
    BY <1>1
  <2>2. Range(cells[i]) \subseteq {Rule, Leader, SP}
    BY <1>2, <2>1 DEF IsSeparatorRow
  <2>3. Only(cells[i], {Rule, Leader, SP})
    BY <2>1, <2>2, OnlyRange
  <2>4. {Rule, Leader, SP} \cap Words = {}
    BY NoWords
  <2>5. WordsOf(cells[i]) = <<>>
    BY <2>1, <2>3, <2>4, WordsOnly
  <2> QED
    BY <2>1, <2>5, TextsAre
<1>4. words \in [Text -> Seq(Atoms)]
  BY TextsAre
<1>5. cells \in Seq(Text)
  BY <1>1
<1>6. Spelled(words, cells) = <<>>
  BY ONLY <1>3, <1>4, <1>5, SpelledVoid
<1> QED
  BY <1>1, <1>6

\* A table of contents loses its header row and what has no words.
LEMMA WordsTocTable ==
    ASSUME NEW block \in Seq(Text), NEW low \in Seq(Text), Thins(low, block),
           Len(block) > 1 /\ SeparatorLine(block[2]) => low[1] = <<>>
    PROVE  TocTable(block) \in Seq(Text) /\ Amid(low, Spelled(words, TocTable(block)), block)
<1> DEFINE rows == [i \in DOMAIN block |-> Cells(block[i])]
           Header(i) == i = 1 /\ Len(rows) > 1 /\ IsSeparatorRow(rows[2])
           Skip(i) == IsSeparatorRow(rows[i]) \/ Header(i)
           entries == [i \in DOMAIN rows |-> IF Skip(i) THEN <<>> ELSE TocEntry(rows[i])]
           D == {i \in DOMAIN entries : entries[i] = <<>>}
<1>1. TocTable(block) \in {block, Without(entries, D)}
  BY DEF TocTable, TableEntries, Map
<1>2. rows = [i \in DOMAIN block |-> rows[i]]
  OBVIOUS
<1>3. ASSUME NEW i \in 1 .. Len(block) PROVE rows[i] \in Seq(Text) /\ rows[i] = Cells(block[i]) /\ block[i] \in Text
  <2>1. block[i] \in Text /\ i \in DOMAIN block
    OBVIOUS
  <2>2. rows[i] = Cells(block[i])
    BY <2>1
  <2> HIDE DEF rows
  <2> QED
    BY <2>1, <2>2, CellsText
<1> HIDE DEF rows
<1>4. rows \in Seq(Seq(Text)) /\ Len(rows) = Len(block)
  <2>1. \A i \in 1 .. Len(block) : rows[i] \in Seq(Text)
    BY <1>3
  <2> QED
    <3>1. rows \in Seq(Seq(Text))
      BY ONLY <1>2, <2>1, block \in Seq(Text), MappedSequence
    <3> QED
      BY ONLY <1>2, <3>1, block \in Seq(Text), MappedLen
<1>5. entries = [i \in DOMAIN rows |-> entries[i]]
  OBVIOUS
<1>h. ASSUME NEW i \in 1 .. Len(rows), Header(i) PROVE low[i] = <<>>
  <2>1. i = 1 /\ Len(block) > 1 /\ IsSeparatorRow(rows[2]) /\ 2 \in 1 .. Len(block)
    BY <1>4, <1>h
  <2>2. SeparatorLine(block[2])
    BY <1>3, <2>1 DEF SeparatorLine
  <2> QED
    BY <2>1, <2>2
<1>i. \A i : Skip(i) <=> IsSeparatorRow(rows[i]) \/ Header(i)
  OBVIOUS
<1> HIDE DEF Skip, Header
<1>6. ASSUME NEW i \in 1 .. Len(rows)
      PROVE  /\ entries[i] \in Text
             /\ words[entries[i]] = <<>> \/ words[entries[i]] = words[block[i]]
             /\ words[low[i]] = <<>> \/ words[low[i]] = words[entries[i]]
  <2>1. rows[i] \in Seq(Text) /\ i \in DOMAIN rows /\ i \in 1 .. Len(block) /\ rows[i] = Cells(block[i]) /\ block[i] \in Text
    BY <1>3, <1>4
  <2>2. entries[i] = IF Skip(i) THEN <<>> ELSE TocEntry(rows[i])
    BY <2>1
  <2>3. low[i] = <<>> \/ low[i] = block[i]
    BY <2>1 DEF Thins
  <2> HIDE DEF entries
  <2>4. Spelled(words, rows[i]) = WordsOf(block[i])
    BY <2>1, WordsCells
  <2>5. words[<<>>] = <<>> /\ <<>> \in Text
    BY WordsFew, SomeTexts
  <2>6. CASE Skip(i)
    <3>1. entries[i] = <<>>
      BY <2>2, <2>6
    <3>2. CASE IsSeparatorRow(rows[i])
      <4>1. WordsOf(block[i]) = <<>>
        BY <2>1, <3>2, WordsSeparatorRow DEF SeparatorLine
      <4>2. words[block[i]] = <<>>
        BY <2>1, <4>1, TextsAre
      <4> QED
        BY <2>3, <2>5, <3>1, <4>2
    <3>3. CASE Header(i)
      <4>1. low[i] = <<>>
        BY <1>h, <3>3
      <4> QED
        BY <2>5, <3>1, <4>1
    <3> QED
      BY <1>i, <2>6, <3>2, <3>3
  <2>7. CASE ~ Skip(i)
    <3>1. entries[i] = TocEntry(rows[i])
      BY <2>2, <2>7
    <3>2. TocEntry(rows[i]) \in Text /\ WordsOf(TocEntry(rows[i])) = Spelled(words, rows[i])
      BY <2>1, WordsTocEntry
    <3>3. words[entries[i]] = words[block[i]]
      BY <2>1, <2>4, <3>1, <3>2, TextsAre
    <3> QED
      BY <2>3, <2>5, <3>1, <3>2, <3>3
  <2> QED
    BY <2>6, <2>7
<1> HIDE DEF entries
<1>7. entries \in Seq(Text) /\ Len(entries) = Len(rows)
  <2>1. \A i \in 1 .. Len(rows) : entries[i] \in Text
    BY <1>6
  <2>2. rows \in Seq(Seq(Text))
    BY <1>4
  <2> QED
    <3>1. entries \in Seq(Text)
      BY ONLY <1>5, <2>1, <2>2, MappedSequence
    <3> QED
      BY ONLY <1>5, <3>1, <2>2, MappedLen
<1>8. Sub(Spelled(words, entries), Spelled(words, block))
  <2>1. Len(entries) = Len(block) /\ \A i \in 1 .. Len(entries) : words[entries[i]] = <<>> \/ words[entries[i]] = words[block[i]]
    BY <1>4, <1>6, <1>7
  <2> QED
    BY <1>7, <2>1, SpelledSub
<1>9. Sub(Spelled(words, low), Spelled(words, entries))
  <2>1. Len(low) = Len(entries) /\ \A i \in 1 .. Len(low) : words[low[i]] = <<>> \/ words[low[i]] = words[entries[i]]
    BY <1>4, <1>6, <1>7 DEF Thins
  <2> QED
    BY <1>7, <2>1, SpelledSub
<1>10. Spelled(words, Without(entries, D)) = Spelled(words, entries)
  <2> DEFINE I == DOMAIN entries \ D
  <2>1. ASSUME NEW i \in 1 .. Len(entries), i \notin I PROVE words[entries[i]] = <<>>
    <3>1. entries[i] = <<>>
      BY <1>7, <2>1
    <3> QED
      BY <3>1, WordsFew
  <2>2. Without(entries, D) = Selected(entries, I)
    BY DEF Without
  <2> HIDE DEF I, D
  <2>3. words \in [Text -> Seq(Atoms)] /\ entries \in Seq(Text)
    BY <1>7, TextsAre
  <2>4. Spelled(words, Selected(entries, I)) = Spelled(words, entries)
    BY ONLY <2>1, <2>3, SpelledSelected
  <2> QED
    BY <2>2, <2>4
<1> HIDE DEF D
<1>11. Amid(low, Spelled(words, block), block)
  BY AmidSame
<1> QED
  BY <1>1, <1>8, <1>9, <1>10, <1>11, TocTableText DEF Amid

\* The words of two sequences of texts side by side.
LEMMA WordsConcats == ASSUME NEW a \in Seq(Text), NEW b \in Seq(Text) PROVE Spelled(words, a \o b) = Spelled(words, a) \o Spelled(words, b)
<1>1. Law(words, Text)
  BY TextsAre, SpelledLaw
<1> QED
  BY <1>1 DEF Law

\* Words that lie between those of two halves lie, side by side, between those of the whole.
LEMMA AmidConcat ==
    ASSUME NEW a \in Seq(Text), NEW b \in Seq(Text), NEW c \in Seq(Text), NEW d \in Seq(Text),
           NEW p \in Seq(Atoms), NEW q \in Seq(Atoms), Amid(a, p, c), Amid(b, q, d)
    PROVE  Amid(a \o b, p \o q, c \o d)
<1> DEFINE wa == Spelled(words, a)
           wb == Spelled(words, b)
           wc == Spelled(words, c)
           wd == Spelled(words, d)
<1>1. wa \in Seq(Atoms) /\ wb \in Seq(Atoms) /\ wc \in Seq(Atoms) /\ wd \in Seq(Atoms)
  BY WordsOfSeq
<1>2. Sub(wa, p) /\ Sub(wb, q) /\ Sub(p, wc) /\ Sub(q, wd)
  BY DEF Amid
<1>3. Spelled(words, a \o b) = wa \o wb
  BY WordsConcats
<1>4. Spelled(words, c \o d) = wc \o wd
  BY WordsConcats
<1> HIDE DEF wa, wb, wc, wd
<1>5. Sub(wa \o wb, p \o q)
  BY <1>1, <1>2, SubConcat
<1>6. Sub(p \o q, wc \o wd)
  BY <1>1, <1>2, SubConcat
<1> QED
  BY <1>3, <1>4, <1>5, <1>6 DEF Amid

\* What each piece does to its lines, all pieces do to all of them.
LEMMA ScanAmid ==
    ASSUME NEW n \in Nat, NEW low \in Seq(Text), NEW s \in Seq(Text), Len(low) = n, Len(s) = n,
           NEW piece, \A i \in 1 .. n : piece[i] \in Seq(Text),
           NEW next, \A i \in 1 .. n : next[i] \in i + 1 .. n + 1,
           \A i \in 1 .. n :
               Amid(Slice(low, i - 1, next[i] - 1), Spelled(words, piece[i]), Slice(s, i - 1, next[i] - 1))
    PROVE  Amid(low, Spelled(words, Scanned(n, piece, next)), s)
<1>1. PICK f : Finds(f, Text, n, piece, next) /\ Scanned(n, piece, next) = f[1]
  <2>1. \A i \in 1 .. n : piece[i] \in Seq(Text)
    OBVIOUS
  <2>2. \A i \in 1 .. n : next[i] \in i + 1 .. n + 1
    OBVIOUS
  <2>3. n \in Nat
    OBVIOUS
  <2> QED
    BY ONLY <2>1, <2>2, <2>3, ScannedSteps
<1>2. /\ \A i \in 1 .. n + 1 : f[i] \in Seq(Text)
      /\ f[n + 1] = <<>>
      /\ \A i \in 1 .. n : f[i] = piece[i] \o f[next[i]]
  BY <1>1 DEF Finds
<1> DEFINE m == n + 1
           S == {i \in Int : Amid(Slice(low, i - 1, n), Spelled(words, f[i]), Slice(s, i - 1, n))}
<1>3. ASSUME NEW i \in 1 .. m, \A k \in i + 1 .. m : k \in S PROVE i \in S
  <2>1. CASE i = m
    <3>1. Slice(low, i - 1, n) = <<>> /\ Slice(s, i - 1, n) = <<>>
      BY <2>1 DEF Slice
    <3>2. f[i] = <<>>
      BY <1>2, <2>1
    <3>3. Thins(<<>>, <<>>) /\ <<>> \in Seq(Text)
      BY DEF Thins
    <3>4. Amid(<<>>, Spelled(words, <<>>), <<>>)
      BY ONLY <3>3, AmidSame
    <3> QED
      BY <3>1, <3>2, <3>4
  <2>2. CASE i # m
    <3>18. \A j \in i + 1 .. m : j \in S
      BY <1>3
    <3>1. i \in 1 .. n /\ i - 1 \in Nat
      BY <2>2
    <3> DEFINE k == next[i]
               a == Slice(low, i - 1, k - 1)
               b == Slice(low, k - 1, n)
               c == Slice(s, i - 1, k - 1)
               d == Slice(s, k - 1, n)
               p == piece[i]
               q == f[k]
    <3>2. k \in i + 1 .. m
      BY <3>1
    <3>20. \A j \in 1 .. n : piece[j] \in Seq(Text)
      OBVIOUS
    <3>21. \A j \in 1 .. m : f[j] \in Seq(Text)
      BY ONLY <1>2
    <3>22. k \in 1 .. m
      BY ONLY <3>1, <3>2, n \in Nat
    <3>15. p \in Seq(Text) /\ q \in Seq(Text)
      BY ONLY <3>1, <3>20, <3>21, <3>22
    <3>16. f[i] = p \o q
      BY ONLY <1>2, <3>1
    <3>17. k \in S
      BY ONLY <3>18, <3>2
    <3>3. f[i] = p \o q /\ p \in Seq(Text) /\ q \in Seq(Text)
      BY ONLY <3>15, <3>16
    <3>4. Amid(b, Spelled(words, q), d)
      BY ONLY <3>17
    <3>5. Amid(a, Spelled(words, p), c)
      BY <3>1
    <3> HIDE DEF k, S, p, q
    <3>6. i - 1 \in Nat /\ k - 1 \in Nat /\ i - 1 <= k - 1 /\ k - 1 <= n /\ n <= Len(low) /\ n <= Len(s)
          /\ k - 1 <= Len(low) /\ k - 1 <= Len(s)
      BY <3>1, <3>2
    <3>7. a \in Seq(Text) /\ b \in Seq(Text)
      BY <3>6, SliceOf
    <3>8. c \in Seq(Text) /\ d \in Seq(Text)
      BY <3>6, SliceOf
    <3>9. a \o b = Slice(low, i - 1, n)
      BY <3>6, SliceConcat
    <3>10. c \o d = Slice(s, i - 1, n)
      BY <3>6, SliceConcat
    <3> HIDE DEF a, b, c, d
    <3>11. Spelled(words, p) \in Seq(Atoms) /\ Spelled(words, q) \in Seq(Atoms)
      BY <3>3, WordsOfSeq
    <3>12. Amid(a \o b, Spelled(words, p) \o Spelled(words, q), c \o d)
      BY <3>4, <3>5, <3>7, <3>8, <3>11, AmidConcat
    <3>13. Spelled(words, p \o q) = Spelled(words, p) \o Spelled(words, q)
      BY <3>3, WordsConcats
    <3>14. Spelled(words, f[i]) = Spelled(words, p) \o Spelled(words, q)
      BY <3>3, <3>13
    <3>19. Amid(Slice(low, i - 1, n), Spelled(words, f[i]), Slice(s, i - 1, n)) /\ i \in Int
      BY ONLY <3>1, <3>9, <3>10, <3>12, <3>14
    <3> QED
      BY ONLY <3>19 DEF S
  <2> QED
    BY <2>1, <2>2
<1> HIDE DEF S
<1>4. 1 \in S
  <2>1. 1 \in Int /\ m \in Int /\ 1 \in 1 .. m
    OBVIOUS
  <2> HIDE DEF m
  <2>2. \A i \in 1 .. m : i \in S
    BY ONLY <1>3, <2>1, Backwards
  <2> QED
    BY <2>1, <2>2
<1>5. Slice(low, 1 - 1, n) = low /\ Slice(s, 1 - 1, n) = s
  BY DEF Slice
<1> QED
  BY <1>1, <1>4, <1>5 DEF S

\* The words of a sequence of one text.
LEMMA WordsSingle == ASSUME NEW t \in Text PROVE <<t>> \in Seq(Text) /\ Spelled(words, <<t>>) = WordsOf(t) /\ Spelled(words, <<>>) = <<>>
<1>1. words \in [Text -> Seq(Atoms)] /\ words[t] = WordsOf(t)
  BY TextsAre
<1>2. Spelled(words, <<t>>) = words[t]
  BY <1>1, SpelledOne
<1>3. Spelled(words, <<>>) = <<>>
  BY <1>1, SpelledNone
<1> QED
  BY <1>1, <1>2, <1>3

\* A contents line keeps its words, whatever lines it becomes.
LEMMA WordsTocLine == ASSUME NEW line \in Text PROVE Spelled(words, TocLine(line)) = WordsOf(line)
<1> DEFINE cleaned == TocFragment(Strip(line))
           front == SubSeq(cleaned, 1, Len(cleaned) - 2)
           title == Title(front)
<1>1. cleaned \in Text /\ WordsOf(cleaned) = WordsOf(line)
  BY WordsStrip, WordsFragment
<1>2. \/ TocLine(line) = <<line>>
      \/ TocLine(line) = <<>> /\ (IsSeparatorOnly(line))
      \/ TocLine(line) = LeaderLine(cleaned)
  BY DEF TocLine
<1> HIDE DEF cleaned
<1> DEFINE HasPage == Len(cleaned) > 2 /\ Last(cleaned) = Number /\ cleaned[Len(cleaned) - 1] = SP
<1>3. \/ LeaderLine(cleaned) = <<>> /\ cleaned = <<>>
      \/ LeaderLine(cleaned) = <<Title(cleaned)>>
      \/ LeaderLine(cleaned) = <<Entry(title, Number)>> /\ HasPage
  BY DEF LeaderLine
<1>4. HasPage => WordsOf(front) = WordsOf(cleaned) /\ front \in Text
  <2> SUFFICES ASSUME HasPage PROVE WordsOf(front) = WordsOf(cleaned) /\ front \in Text
    OBVIOUS
  <2> DEFINE n == Len(cleaned)
             hi == n - 2
  <2>1. cleaned \in Seq(Atoms) /\ n \in Nat /\ n > 2 /\ cleaned[n] = Number /\ cleaned[n - 1] = SP
    BY <1>1 DEF Text, Last
  <2>2. ASSUME NEW i \in 1 .. Len(cleaned), i < 1 \/ hi < i PROVE word[cleaned[i]] = <<>>
    <3>1. i = n \/ i = n - 1
      BY <2>1, <2>2
    <3> QED
      BY <2>1, <3>1, NoWords
  <2>3. 1 \in 1 .. Len(cleaned) + 1 /\ hi \in 1 - 1 .. Len(cleaned) /\ word \in [Atoms -> Seq(Atoms)]
    <3>1. word \in [Atoms -> Seq(Atoms)]
      BY LettersAre
    <3>2. n \in Nat /\ n > 2 /\ n = Len(cleaned) /\ hi = n - 2
      BY <2>1
    <3> QED
      BY ONLY <3>1, <3>2
  <2>4. front = SubSeq(cleaned, 1, hi)
    OBVIOUS
  <2> HIDE DEF hi, n, front
  <2>5. Spelled(word, SubSeq(cleaned, 1, hi)) = Spelled(word, cleaned)
    <3>1. cleaned \in Seq(Atoms)
      BY <2>1
    <3> QED
      BY ONLY <2>2, <2>3, <3>1, SpelledPart
  <2>6. front \in Text
    <3>1. cleaned \in Seq(Atoms) /\ 1 \in Nat /\ hi \in Int /\ 1 <= 1 /\ hi <= Len(cleaned)
      BY <2>1, <2>3
    <3> QED
      BY ONLY <2>4, <3>1, SubSequence DEF Text
  <2> QED
    BY <1>1, <2>4, <2>5, <2>6, WordsAre
<1> HIDE DEF front
<1>5. WordsOf(Title(cleaned)) = WordsOf(cleaned) /\ Title(cleaned) \in Text
  BY <1>1, WordsTitle
<1>6. HasPage => WordsOf(Entry(title, Number)) = WordsOf(cleaned) /\ Entry(title, Number) \in Text
  BY <1>4, WordsTitle, WordsEntry
<1> HIDE DEF HasPage, title
<1>7. Spelled(words, <<line>>) = WordsOf(line) /\ Spelled(words, <<>>) = <<>>
  BY WordsSingle
<1>8. Spelled(words, <<Title(cleaned)>>) = WordsOf(cleaned)
  BY <1>5, WordsSingle
<1>9. HasPage => Spelled(words, <<Entry(title, Number)>>) = WordsOf(cleaned)
  BY <1>6, WordsSingle
<1>10. cleaned = <<>> => WordsOf(cleaned) = <<>>
  BY WordsFew
<1>11. IsSeparatorOnly(line) => WordsOf(line) = <<>>
  BY WordsSeparator
<1> QED
  BY <1>1, <1>2, <1>3, <1>7, <1>8, <1>9, <1>10, <1>11

\* The rows of a table above a row of separators.
HeaderRows(lines) ==
    {j \in 1 .. Len(lines) - 1 : Bar \in Range(lines[j]) /\ Bar \in Range(lines[j + 1]) /\ SeparatorLine(lines[j + 1])}

\* Those under a contents heading.
TocHeaders(lines) == {j \in HeaderRows(lines) : \E h \in 1 .. j - 1 : IsTocHeading(lines[h])}

\* A slice of a thinned sequence is the slice thinned.
LEMMA ThinsSlice ==
    ASSUME NEW low \in Seq(Text), NEW s \in Seq(Text), Thins(low, s), NEW a \in Nat, NEW b \in Nat, a <= b, b <= Len(s)
    PROVE  /\ Slice(low, a, b) \in Seq(Text) /\ Slice(s, a, b) \in Seq(Text)
           /\ Len(Slice(s, a, b)) = b - a
           /\ \A i \in 1 .. b - a : Slice(s, a, b)[i] = s[a + i] /\ Slice(low, a, b)[i] = low[a + i]
           /\ Thins(Slice(low, a, b), Slice(s, a, b))
<1>1. Len(low) = Len(s) /\ \A i \in 1 .. Len(s) : low[i] = <<>> \/ low[i] = s[i]
  BY DEF Thins
<1> DEFINE u == Slice(low, a, b)
           v == Slice(s, a, b)
<1>2. u \in Seq(Text) /\ Len(u) = b - a /\ \A i \in 1 .. b - a : u[i] = low[a + i]
  <2>1. low \in Seq(Text) /\ a \in Nat /\ b \in Nat /\ a <= b /\ b <= Len(low)
    BY <1>1
  <2> QED
    BY ONLY <2>1, SliceOf
<1>3. v \in Seq(Text) /\ Len(v) = b - a /\ \A i \in 1 .. b - a : v[i] = s[a + i]
  <2>1. s \in Seq(Text) /\ a \in Nat /\ b \in Nat /\ a <= b /\ b <= Len(s)
    OBVIOUS
  <2> QED
    BY ONLY <2>1, SliceOf
<1> HIDE DEF u, v
<1>4. \A i \in 1 .. b - a : a + i \in 1 .. Len(s)
  OBVIOUS
<1>5. \A i \in 1 .. Len(v) : u[i] = <<>> \/ u[i] = v[i]
  BY <1>1, <1>2, <1>3, <1>4
<1>6. Thins(u, v)
  BY <1>2, <1>3, <1>5 DEF Thins
<1> QED
  BY <1>2, <1>3, <1>6 DEF u, v

\* A slice of one element.
LEMMA SliceOne ==
    ASSUME NEW s \in Seq(Text), NEW i \in 1 .. Len(s)
    PROVE  Slice(s, i - 1, i) = <<s[i]>>
<1>1. i - 1 \in Nat /\ i \in Nat /\ i - 1 <= i /\ i <= Len(s)
  OBVIOUS
<1> DEFINE u == Slice(s, i - 1, i)
<1>2. u \in Seq(Text) /\ Len(u) = 1 /\ u[1] = s[i]
  <2> DEFINE a == i - 1
  <2>1. a \in Nat /\ i \in Nat /\ a <= i /\ i <= Len(s) /\ i - a = 1 /\ a + 1 = i
    BY <1>1
  <2> HIDE DEF a
  <2>2. Slice(s, a, i) \in Seq(Text) /\ Len(Slice(s, a, i)) = i - a /\ \A k \in 1 .. i - a : Slice(s, a, i)[k] = s[a + k]
    BY ONLY <2>1, s \in Seq(Text), SliceOf
  <2>3. 1 \in 1 .. i - a
    BY <2>1
  <2>4. Slice(s, a, i)[1] = s[i]
    BY <2>1, <2>2, <2>3
  <2>5. Slice(s, a, i) \in Seq(Text) /\ Len(Slice(s, a, i)) = 1
    BY <2>1, <2>2
  <2> QED
    BY <2>4, <2>5 DEF a
<1> HIDE DEF u
<1>3. u = <<s[i]>>
  BY <1>2
<1> QED
  BY <1>3 DEF u

\* What the cleaning of a region keeps.
LEMMA WordsTocRegion ==
    ASSUME NEW lines \in Seq(Text), NEW low \in Seq(Text), Thins(low, lines),
           \A j \in HeaderRows(lines) : low[j] = <<>>
    PROVE  Amid(low, Spelled(words, TocRegion(lines)), lines)
<1> DEFINE n == Len(lines)
           HasBar(i) == Bar \in Range(lines[i])
           BarFree(i) == {k \in i .. Len(lines) : ~HasBar(k)} \cup {Len(lines) + 1}
           BlockEnd(i) == Min({k \in i .. Len(lines) : ~HasBar(k)} \cup {Len(lines) + 1})
           Cleaned(i) == IF HasBar(i) THEN TocTable(SubSeq(lines, i, BlockEnd(i) - 1)) ELSE TocLine(lines[i])
           piece == [i \in DOMAIN lines |-> Cleaned(i)]
           next == [i \in DOMAIN lines |-> IF HasBar(i) THEN BlockEnd(i) ELSE i + 1]
<1>0. low \in Seq(Text) /\ lines \in Seq(Text) /\ Thins(low, lines)
  OBVIOUS
<1>1. TocRegion(lines) = Scanned(n, piece, next)
  BY DEF TocRegion
<1>2. n \in Nat /\ DOMAIN lines = 1 .. n /\ Len(low) = n
  BY DEF Thins
<1>3. ASSUME NEW i \in 1 .. n
      PROVE  /\ BlockEnd(i) \in i .. n + 1 /\ (HasBar(i) => BlockEnd(i) # i)
             /\ \A k \in i .. BlockEnd(i) - 1 : HasBar(k)
  <2> DEFINE C == BarFree(i)
             m == n + 1
  <2> HIDE DEF HasBar
  <2>1. C \in SUBSET (i .. m) /\ C # {} /\ i \in Int /\ m \in Int /\ (HasBar(i) => i \notin C)
    BY <1>2
  <2>2. BlockEnd(i) = Min(C)
    OBVIOUS
  <2>4. \A k \in i .. n : HasBar(k) \/ k \in C
    BY <1>2
  <2> HIDE DEF C, m, BlockEnd
  <2>3. Min(C) \in C /\ \A k \in C : Min(C) <= k
    BY ONLY <2>1, MinOf
  <2>5. \A k \in C : k \in Int
    BY <2>1
  <2>6. BlockEnd(i) \in i .. n + 1 /\ (HasBar(i) => BlockEnd(i) # i)
    BY <2>1, <2>2, <2>3 DEF m
  <2>7. ASSUME NEW k \in i .. BlockEnd(i) - 1 PROVE HasBar(k)
    BY <1>2, <2>2, <2>3, <2>4, <2>5, <2>6
  <2> QED
    BY <2>6, <2>7
<1> HIDE DEF BlockEnd
<1>4. ASSUME NEW i \in 1 .. n
      PROVE  /\ next[i] \in i + 1 .. n + 1 /\ piece[i] \in Seq(Text)
             /\ Amid(Slice(low, i - 1, next[i] - 1), Spelled(words, piece[i]), Slice(lines, i - 1, next[i] - 1))
  <2>1. next[i] = IF HasBar(i) THEN BlockEnd(i) ELSE i + 1
    BY <1>2
  <2>2. piece[i] = IF HasBar(i) THEN TocTable(SubSeq(lines, i, BlockEnd(i) - 1)) ELSE TocLine(lines[i])
    BY <1>2
  <2> HIDE DEF piece, next
  <2>3. CASE HasBar(i)
    <3> DEFINE a == i - 1
               b == BlockEnd(i) - 1
               block == Slice(lines, a, b)
               thin == Slice(low, a, b)
    <3>1. a \in Nat /\ b \in Nat /\ a < b /\ b <= n /\ a + 1 = i /\ next[i] = b + 1 /\ next[i] - 1 = b
      BY <1>2, <1>3, <2>1, <2>3
    <3>2. piece[i] = TocTable(block)
      <4>1. block = SubSeq(lines, i, BlockEnd(i) - 1)
        BY <3>1 DEF Slice
      <4> QED
        BY <2>2, <2>3, <4>1
    <3>10. \A k \in i .. b : HasBar(k)
      BY <1>3
    <3> HIDE DEF a, b
    <3> HIDE DEF thin, block
    <3>3. /\ thin \in Seq(Text) /\ block \in Seq(Text) /\ Len(block) = b - a
          /\ \A k \in 1 .. b - a : block[k] = lines[a + k] /\ thin[k] = low[a + k]
          /\ Thins(thin, block)
      <4>1. a \in Nat /\ b \in Nat /\ a <= b /\ b <= Len(lines)
        BY <3>1
      <4> QED
        BY ONLY <1>0, <4>1, ThinsSlice DEF thin, block
    <3>4. ASSUME Len(block) > 1, SeparatorLine(block[2]) PROVE thin[1] = <<>>
      <4>1. i \in 1 .. n - 1 /\ i + 1 = a + 2 /\ 2 \in 1 .. b - a /\ 1 \in 1 .. b - a /\ i + 1 \in i .. b
        BY <3>1, <3>3, <3>4, <1>2
      <4>2. block[2] = lines[i + 1] /\ thin[1] = low[i]
        BY <3>1, <3>3, <4>1
      <4>3. HasBar(i) /\ HasBar(i + 1)
        BY ONLY <2>3, <3>10, <4>1
      <4>4. i \in HeaderRows(lines)
        BY <3>4, <4>1, <4>2, <4>3 DEF HeaderRows
      <4> QED
        BY <4>2, <4>4
    <3>5. TocTable(block) \in Seq(Text) /\ Amid(thin, Spelled(words, TocTable(block)), block)
      BY <3>3, <3>4, WordsTocTable
    <3>6. next[i] \in i + 1 .. n + 1
      BY <3>1
    <3> QED
      BY <3>1, <3>2, <3>5, <3>6 DEF thin, block, a
  <2>4. CASE ~ HasBar(i)
    <3>1. next[i] = i + 1 /\ next[i] - 1 = i /\ next[i] \in i + 1 .. n + 1
      BY <1>2, <2>1, <2>4
    <3>2. piece[i] = TocLine(lines[i]) /\ lines[i] \in Text
      BY <1>2, <2>2, <2>4
    <3>3. piece[i] \in Seq(Text)
      BY <3>2, TocLineText
    <3>4. Spelled(words, piece[i]) = WordsOf(lines[i])
      BY <3>2, WordsTocLine
    <3>5. Spelled(words, <<lines[i]>>) = WordsOf(lines[i]) /\ <<lines[i]>> \in Seq(Text)
      BY <3>2, WordsSingle
    <3>6. Slice(lines, i - 1, i) = <<lines[i]>>
      BY <1>2, SliceOne
    <3>7. i - 1 \in Nat /\ i \in Nat /\ i - 1 <= i /\ i <= Len(lines)
      BY <1>2
    <3> DEFINE thin == Slice(low, i - 1, i)
    <3>8. thin \in Seq(Text) /\ Thins(thin, <<lines[i]>>)
      <4>1. /\ Slice(low, i - 1, i) \in Seq(Text) /\ Slice(lines, i - 1, i) \in Seq(Text)
            /\ Thins(Slice(low, i - 1, i), Slice(lines, i - 1, i))
        BY ONLY <1>0, <3>7, ThinsSlice
      <4> QED
        BY <3>6, <4>1
    <3> HIDE DEF thin
    <3>9. Amid(thin, Spelled(words, <<lines[i]>>), <<lines[i]>>)
      BY <3>5, <3>8, AmidSame
    <3> QED
      BY <3>1, <3>3, <3>4, <3>5, <3>6, <3>9 DEF thin
  <2> QED
    BY <2>3, <2>4
<1> HIDE DEF n, piece, next
<1>5. Amid(low, Spelled(words, Scanned(n, piece, next)), lines)
  <2>1. Len(lines) = n
    BY DEF n
  <2>2. \A i \in 1 .. n : piece[i] \in Seq(Text)
    BY <1>4
  <2>3. \A i \in 1 .. n : next[i] \in i + 1 .. n + 1
    BY <1>4
  <2>4. \A i \in 1 .. n :
           Amid(Slice(low, i - 1, next[i] - 1), Spelled(words, piece[i]), Slice(lines, i - 1, next[i] - 1))
    BY <1>4
  <2>5. low \in Seq(Text) /\ lines \in Seq(Text) /\ Len(low) = n /\ n \in Nat
    BY <1>2
  <2> QED
    BY ONLY <2>1, <2>2, <2>3, <2>4, <2>5, ScanAmid
<1> QED
  BY <1>1, <1>5

\* What the cleaning of the tables of contents keeps.
LEMMA WordsToc ==
    ASSUME NEW lines \in Seq(Text), NEW low \in Seq(Text), Thins(low, lines),
           \A j \in TocHeaders(lines) : low[j] = <<>>
    PROVE  NormalizeTocLines(lines) \in Seq(Text) /\ Amid(low, Spelled(words, NormalizeTocLines(lines)), lines)
<1> DEFINE n == Len(lines)
           End(i) == IF IsTocHeading(lines[i]) THEN TocRegionEnd(lines, i + 1) ELSE i + 1
           Cleaned(i) == <<lines[i]>> \o TocRegion(SubSeq(lines, i + 1, End(i) - 1))
           piece == [i \in DOMAIN lines |-> Cleaned(i)]
           next == [i \in DOMAIN lines |-> End(i)]
<1>0. low \in Seq(Text) /\ lines \in Seq(Text) /\ Thins(low, lines)
  OBVIOUS
<1>1. NormalizeTocLines(lines) = Scanned(n, piece, next)
  BY DEF NormalizeTocLines
<1>2. n \in Nat /\ DOMAIN lines = 1 .. n /\ Len(low) = n
  BY DEF Thins
<1>3. ASSUME NEW i \in 1 .. n PROVE End(i) \in i + 1 .. n + 1 /\ (IsTocHeading(lines[i]) \/ End(i) = i + 1)
  <2>1. i + 1 \in 1 .. Len(lines) + 1
    BY <1>2
  <2>2. TocRegionEnd(lines, i + 1) \in i + 1 .. Len(lines) + 1
    BY <1>2, <2>1, TocRegionEndOf
  <2> QED
    BY <1>2, <2>2
<1> HIDE DEF End
<1>4. ASSUME NEW i \in 1 .. n
      PROVE  /\ next[i] \in i + 1 .. n + 1 /\ piece[i] \in Seq(Text)
             /\ Amid(Slice(low, i - 1, next[i] - 1), Spelled(words, piece[i]), Slice(lines, i - 1, next[i] - 1))
  <2>1. next[i] = End(i) /\ piece[i] = <<lines[i]>> \o TocRegion(SubSeq(lines, i + 1, End(i) - 1))
    BY <1>2
  <2> HIDE DEF piece, next
  <2> DEFINE a == i - 1
             b == End(i) - 1
             block == Slice(lines, i, b)
             thin == Slice(low, i, b)
             top == Slice(low, a, i)
  <2>2. a \in Nat /\ b \in Nat /\ i \in Nat /\ i <= b /\ b <= n /\ a + 1 = i /\ next[i] - 1 = b /\ a <= i /\ i <= n
    BY <1>2, <1>3, <2>1
  <2>3. Slice(lines, i, b) = SubSeq(lines, i + 1, End(i) - 1)
    BY DEF Slice
  <2>4. i = b \/ IsTocHeading(lines[i])
    BY <1>3
  <2> HIDE DEF a, b, thin, block
  <2>5. /\ thin \in Seq(Text) /\ block \in Seq(Text) /\ Len(block) = b - i
        /\ \A k \in 1 .. b - i : block[k] = lines[i + k] /\ thin[k] = low[i + k]
        /\ Thins(thin, block)
    <3>1. i \in Nat /\ b \in Nat /\ i <= b /\ b <= Len(lines)
      BY <2>2
    <3> QED
      BY ONLY <1>0, <3>1, ThinsSlice DEF thin, block
  <2>6. piece[i] = <<lines[i]>> \o TocRegion(block)
    BY <2>1, <2>3 DEF block
  <2>7. ASSUME NEW j \in HeaderRows(block) PROVE thin[j] = <<>>
    <3>1. j \in 1 .. Len(block) - 1 /\ Bar \in Range(block[j]) /\ Bar \in Range(block[j + 1]) /\ SeparatorLine(block[j + 1])
      BY <2>7 DEF HeaderRows
    <3>2. j \in 1 .. b - i /\ j + 1 \in 1 .. b - i /\ i + j \in 1 .. n - 1 /\ i + (j + 1) = (i + j) + 1 /\ i \in 1 .. (i + j) - 1
      BY <2>2, <2>5, <3>1
    <3>3. block[j] = lines[i + j] /\ block[j + 1] = lines[(i + j) + 1] /\ thin[j] = low[i + j]
      <4>1. block[j + 1] = lines[i + (j + 1)]
        BY ONLY <2>5, <3>2
      <4>2. block[j] = lines[i + j] /\ thin[j] = low[i + j]
        BY ONLY <2>5, <3>2
      <4> QED
        BY <3>2, <4>1, <4>2
    <3>4. i + j \in HeaderRows(lines)
      BY <3>1, <3>2, <3>3 DEF HeaderRows
    <3>5. IsTocHeading(lines[i])
      BY <2>4, <3>2
    <3>6. i + j \in TocHeaders(lines)
      BY <3>2, <3>4, <3>5 DEF TocHeaders
    <3> QED
      BY <3>3, <3>6
  <2>8. Amid(thin, Spelled(words, TocRegion(block)), block) /\ TocRegion(block) \in Seq(Text)
    BY <2>5, <2>7, WordsTocRegion, TocRegionText
  <2>9. lines[i] \in Text /\ <<lines[i]>> \in Seq(Text)
    BY <1>2
  <2>10. Slice(lines, a, i) = <<lines[i]>>
    BY <1>2, SliceOne DEF a
  <2>11. top \in Seq(Text) /\ Thins(top, <<lines[i]>>)
    <3>1. a \in Nat /\ i \in Nat /\ a <= i /\ i <= Len(lines)
      BY <2>2
    <3>2. Slice(low, a, i) \in Seq(Text) /\ Thins(Slice(low, a, i), Slice(lines, a, i))
      BY ONLY <1>0, <3>1, ThinsSlice
    <3> QED
      BY <2>10, <3>2
  <2> HIDE DEF top
  <2>12. Amid(top, Spelled(words, <<lines[i]>>), <<lines[i]>>)
    BY <2>9, <2>11, AmidSame
  <2> DEFINE p == Spelled(words, <<lines[i]>>)
             q == Spelled(words, TocRegion(block))
             head == <<lines[i]>>
             rest == TocRegion(block)
  <2>13. p \in Seq(Atoms) /\ q \in Seq(Atoms)
    BY <2>8, <2>9, WordsOfSeq
  <2>14. Spelled(words, head \o rest) = p \o q /\ head \o rest \in Seq(Text)
    <3>1. head \in Seq(Text) /\ rest \in Seq(Text) /\ p = Spelled(words, head) /\ q = Spelled(words, rest)
      BY <2>8, <2>9
    <3> HIDE DEF head, rest, p, q
    <3>2. Spelled(words, head \o rest) = Spelled(words, head) \o Spelled(words, rest)
      BY ONLY <3>1, WordsConcats
    <3>3. head \o rest \in Seq(Text)
      BY ONLY <3>1
    <3> QED
      BY ONLY <3>1, <3>2, <3>3
  <2>15. piece[i] = head \o rest
    BY <2>6
  <2>16. Amid(top, p, head) /\ Amid(thin, q, block) /\ head \in Seq(Text)
    BY <2>8, <2>9, <2>12
  <2>17. Slice(lines, a, i) = head
    BY <2>10
  <2> HIDE DEF p, q, head, rest
  <2>18. Amid(top \o thin, p \o q, head \o block)
    BY <2>5, <2>11, <2>13, <2>16, AmidConcat
  <2>19. top \o thin = Slice(low, a, b)
    <3>1. b <= Len(low)
      BY <1>2, <2>2
    <3> QED
      BY <2>2, <3>1, SliceConcat DEF top, thin
  <2>20. head \o block = Slice(lines, a, b)
    <3>1. b <= Len(lines)
      BY <1>2, <2>2
    <3> QED
      BY ZenonT(40), <2>2, <2>17, <3>1, SliceConcat DEF block
  <2>21. Slice(low, i - 1, next[i] - 1) = Slice(low, a, b) /\ Slice(lines, i - 1, next[i] - 1) = Slice(lines, a, b)
    BY <2>2 DEF a
  <2>22. next[i] \in i + 1 .. n + 1
    BY <1>3, <2>1
  <2>23. Spelled(words, piece[i]) = p \o q /\ piece[i] \in Seq(Text)
    BY <2>14, <2>15
  <2> QED
    BY ONLY <2>18, <2>19, <2>20, <2>21, <2>22, <2>23
<1> HIDE DEF n, piece, next
<1>5. Amid(low, Spelled(words, Scanned(n, piece, next)), lines) /\ Scanned(n, piece, next) \in Seq(Text)
  <2>1. Len(lines) = n
    BY DEF n
  <2>2. \A i \in 1 .. n : piece[i] \in Seq(Text)
    BY <1>4
  <2>3. \A i \in 1 .. n : next[i] \in i + 1 .. n + 1
    BY <1>4
  <2>4. \A i \in 1 .. n :
           Amid(Slice(low, i - 1, next[i] - 1), Spelled(words, piece[i]), Slice(lines, i - 1, next[i] - 1))
    BY <1>4
  <2>5. low \in Seq(Text) /\ lines \in Seq(Text) /\ Len(low) = n /\ n \in Nat
    BY <1>2
  <2>6. Amid(low, Spelled(words, Scanned(n, piece, next)), lines)
    BY ONLY <2>1, <2>2, <2>3, <2>4, <2>5, ScanAmid
  <2>7. Scanned(n, piece, next) \in Seq(Text)
    BY ONLY <2>2, <2>3, <2>5, ScannedSequence
  <2> QED
    BY <2>6, <2>7
<1> QED
  BY <1>1, <1>5

\* A broken word and the word joined again are the same word.
LEMMA WordsSim == ASSUME NEW u, NEW k, NEW j, Sim(u, k, j) PROVE WordsOf(k) = WordsOf(j)
<1> DEFINE P == {v \in Seq(Units) : WordsOf(Spelled(left, v)) = WordsOf(Spelled(right, v))}
<1>1. <<>> \in P
  <2>1. Spelled(left, <<>>) = <<>> /\ Spelled(right, <<>>) = <<>>
    BY UnitsAre, SpelledNone
  <2>2. <<>> \in Seq(Units)
    OBVIOUS
  <2> QED
    BY <2>1, <2>2
<1>2. ASSUME NEW v \in Seq(Units), NEW x \in Units, v \in P PROVE Append(v, x) \in P
  <2> DEFINE a == Spelled(left, v)
             b == Spelled(right, v)
             lx == left[x]
             rx == right[x]
  <2>1. Spelled(left, Append(v, x)) = a \o lx /\ Spelled(right, Append(v, x)) = b \o rx
    BY UnitsAppend
  <2>2. a \in Text /\ b \in Text
    BY SimText DEF Sim
  <2>3. lx \in Text /\ rx \in Text
    BY UnitsAre DEF Text
  <2>4. WordsOf(lx) = WordsOf(rx)
    <3>1. CASE x \in Atoms
      <4>1. lx = <<x>> /\ rx = <<x>>
        BY <3>1, UnitOf
      <4> QED
        BY <4>1
    <3>2. CASE x \notin Atoms
      <4>1. x = "torn" \/ x = "joined"
        BY <3>2 DEF Units
      <4>2. rx = <<JoinedWord>>
        BY <4>1, UnitsAre
      <4>3. word[JoinedWord] = <<JoinedWord>> /\ word[HyphenWord] = <<JoinedWord>> /\ word[NL] = <<>>
        BY LettersAre, UnitsAre, NoWords DEF word
      <4>4. WordsOf(rx) = <<JoinedWord>>
        BY <4>2, <4>3, WordsFew, UnitsAre
      <4>5. CASE x = "torn"
        <5>1. lx = <<HyphenWord>>
          BY <4>5, UnitsAre
        <5> QED
          BY <4>3, <4>4, <5>1, WordsFew, UnitsAre
      <4>6. CASE x = "joined"
        <5>1. lx = <<HyphenWord, NL>>
          BY <4>6, UnitsAre
        <5>2. <<HyphenWord, NL>> = <<HyphenWord>> \o <<NL>>
          OBVIOUS
        <5>3. <<HyphenWord>> \in Text /\ <<NL>> \in Text
          BY UnitsAre DEF Text
        <5>4. WordsOf(<<HyphenWord>> \o <<NL>>) = WordsOf(<<HyphenWord>>) \o WordsOf(<<NL>>)
          BY <5>3, WordsConcat
        <5>5. WordsOf(<<HyphenWord>>) = <<JoinedWord>> /\ WordsOf(<<NL>>) = <<>>
          BY <4>3, WordsFew, UnitsAre
        <5>6. <<JoinedWord>> \o <<>> = <<JoinedWord>>
          OBVIOUS
        <5> QED
          BY <4>4, <5>1, <5>2, <5>4, <5>5, <5>6
      <4> QED
        BY <4>1, <4>5, <4>6
    <3> QED
      BY <3>1, <3>2
  <2>5. WordsOf(a) = WordsOf(b)
    BY ONLY v \in P
  <2> HIDE DEF a, b, lx, rx
  <2>6. WordsOf(a \o lx) = WordsOf(a) \o WordsOf(lx) /\ WordsOf(b \o rx) = WordsOf(b) \o WordsOf(rx)
    BY <2>2, <2>3, WordsConcat
  <2>7. WordsOf(Spelled(left, Append(v, x))) = WordsOf(Spelled(right, Append(v, x)))
    BY ONLY <2>1, <2>4, <2>5, <2>6
  <2>8. Append(v, x) \in Seq(Units)
    OBVIOUS
  <2> QED
    BY ONLY <2>7, <2>8
<1> HIDE DEF P
<1>3. u \in Seq(Units) /\ k = Spelled(left, u) /\ j = Spelled(right, u)
  BY DEF Sim
<1>4. u \in P
  <2>1. u \in Seq(Units)
    BY <1>3
  <2> QED
    BY ONLY <1>1, <1>2, <2>1, SeqInduction
<1> QED
  BY <1>3, <1>4 DEF P

\* A pass over the lines that keeps the words of each keeps all words.
LEMMA WordsEachLine ==
    ASSUME NEW t \in Text, NEW f, f = [i \in DOMAIN Lines(t) |-> f[i]],
           \A i \in 1 .. Len(Lines(t)) : f[i] \in Text /\ WordsOf(f[i]) = WordsOf(Lines(t)[i])
    PROVE  WordsOf(FromLines(f)) = WordsOf(t)
<1> DEFINE lines == Lines(t)
<1>1. lines \in Seq(Text) /\ FromLines(lines) = t
  BY LinesOf
<1>2. \A i \in 1 .. Len(lines) : f[i] \in Text /\ WordsOf(f[i]) = WordsOf(lines[i])
  OBVIOUS
<1>3. f = [i \in DOMAIN lines |-> f[i]]
  OBVIOUS
<1> HIDE DEF lines
<1>4. f \in Seq(Text) /\ Len(f) = Len(lines)
  <2>1. \A i \in 1 .. Len(lines) : f[i] \in Text
    BY <1>2
  <2>2. f \in Seq(Text)
    BY ONLY <1>1, <1>3, <2>1, MappedSequence
  <2> QED
    BY ONLY <1>1, <1>3, <2>2, MappedLen
<1>5. \A i \in 1 .. Len(f) : words[f[i]] = words[lines[i]]
  <2> SUFFICES ASSUME NEW i \in 1 .. Len(f) PROVE words[f[i]] = words[lines[i]]
    OBVIOUS
  <2>1. f[i] \in Text /\ WordsOf(f[i]) = WordsOf(lines[i]) /\ lines[i] \in Text
    BY <1>1, <1>2, <1>4
  <2> QED
    BY <2>1, TextsAre
<1>6. Spelled(words, f) = Spelled(words, lines)
  <2>1. f \in Seq(Text) /\ lines \in Seq(Text) /\ Len(f) = Len(lines)
    BY <1>1, <1>4
  <2> QED
    BY ONLY <1>5, <2>1, SpelledSame
<1>7. WordsOf(FromLines(f)) = Spelled(words, f) /\ WordsOf(FromLines(lines)) = Spelled(words, lines)
  BY <1>1, <1>4, WordsOfLines
<1> QED
  BY <1>1, <1>6, <1>7

\* Cleaning the tables leaves the words as they were.
LEMMA WordsTables == ASSUME NEW t \in Text PROVE WordsOf(CleanTables(t)) = WordsOf(t)
<1> DEFINE lines == Lines(t)
           f == [i \in DOMAIN lines |-> IF Bar \notin Range(lines[i]) THEN lines[i]
                                        ELSE Join(Map(Strip, Split(lines[i], Bar)), <<Bar>>)]
<1>1. CleanTables(t) = FromLines(f)
  BY DEF CleanTables, EachLine, Map
<1>2. lines \in Seq(Text)
  BY LinesText
<1> HIDE DEF lines
<1>3. ASSUME NEW i \in 1 .. Len(lines) PROVE f[i] \in Text /\ WordsOf(f[i]) = WordsOf(lines[i])
  <2> DEFINE cells == Map(Strip, Split(lines[i], Bar))
  <2>1. lines[i] \in Text /\ i \in DOMAIN lines
    BY <1>2
  <2>2. f[i] = lines[i] \/ f[i] = Join(cells, <<Bar>>)
    BY <2>1
  <2>3. cells \in Seq(Text) /\ Spelled(words, cells) = WordsOf(lines[i])
    BY <2>1, WordsOfCells
  <2> HIDE DEF f, cells
  <2>4. Join(cells, <<Bar>>) \in Text /\ WordsOf(Join(cells, <<Bar>>)) = Spelled(words, cells)
    BY <2>3, BarVoid, WordsJoin
  <2> QED
    BY <2>1, <2>2, <2>3, <2>4
<1>4. f = [i \in DOMAIN Lines(t) |-> f[i]]
  BY DEF lines
<1> HIDE DEF f
<1>5. \A i \in 1 .. Len(Lines(t)) : f[i] \in Text /\ WordsOf(f[i]) = WordsOf(Lines(t)[i])
  BY <1>3 DEF lines
<1> QED
  BY ONLY <1>1, <1>4, <1>5, t \in Text, WordsEachLine

\* What stands in the lines of a block before the tables of contents are cleaned.
Listed(t) == CleanLists(CleanLines(StripPageNumbers(BreakPages(t))))

\* Between the pages and the tables of contents only words broken at line ends change.
LEMMA ListedUnits == ASSUME NEW t \in Text PROVE Listed(t) \in Text /\ \E u : Sim(u, Core(t), Core(Listed(t)))
<1> DEFINE a == BreakPages(t)
           b == StripPageNumbers(a)
           c == NormalizeSpaces(b)
           d == Dehyphenate(c)
           e == SpaceHeadings(d)
           f == NormalizeLists(e)
           g == RepairLists(f)
<1>1. Listed(t) = g
  BY DEF Listed, CleanLists, CleanLines
<1>2. a \in Text /\ Core(a) = Core(t)
  BY BreakPagesText, CoreBreakPages
<1> HIDE DEF a
<1>3. b \in Text /\ Core(b) = Core(a)
  BY <1>2, StripPageNumbersText, CoreStripPageNumbers
<1> HIDE DEF b
<1>4. c \in Text /\ Core(c) = Core(b)
  BY <1>3, NormalizeSpacesText, CoreNormalizeSpaces
<1> HIDE DEF c
<1>5. d \in Text /\ \E u : Sim(u, Core(c), Core(d))
  BY <1>4, DehyphenateText, DehyphenateUnits
<1> HIDE DEF d
<1>6. e \in Text /\ Core(e) = Core(d)
  BY <1>5, SpaceHeadingsText, CoreSpaceHeadings
<1> HIDE DEF e
<1>7. f \in Text /\ Core(f) = Core(e)
  BY <1>6, NormalizeListsText, CoreNormalizeLists
<1> HIDE DEF f
<1>8. g \in Text /\ Core(g) = Core(f)
  BY <1>7, RepairListsText, CoreRepairLists
<1> QED
  BY <1>1, <1>2, <1>3, <1>4, <1>5, <1>6, <1>7, <1>8

\* The words of a cleaned block are those its tables of contents leave.
LEMMA WordsOfProse ==
    ASSUME NEW t \in Text
    PROVE  WordsOf(CleanProse(t)) = Spelled(words, NormalizeTocLines(Lines(Listed(StripEdges(UnixLines(t))))))
<1> DEFINE s == StripEdges(UnixLines(t))
           p == Listed(s)
           q == NormalizeToc(p)
           r == CleanTables(q)
           n == NormalizeTocLines(Lines(p))
<1>1. CleanProse(t) = CollapseBlanks(r)
  BY DEF CleanProse, CleanPages, Listed
<1>2. s \in Text
  BY UnixLinesText, StripEdgesText
<1>3. p \in Text
  BY <1>2, ListedUnits
<1>4. q = FromLines(n)
  BY DEF NormalizeToc
<1>9. q \in Text
  BY <1>3, NormalizeTocText
<1>8. n \in Seq(Text)
  <2> DEFINE m == Lines(p)
  <2>1. m \in Seq(Text)
    BY <1>3, LinesText
  <2>2. ASSUME TRUE PROVE NormalizeTocLines(m) \in Seq(Text)
    <3> DEFINE low == [i \in DOMAIN m |-> <<>>]
    <3> HIDE DEF m
    <3>1. low = [i \in DOMAIN m |-> low[i]] /\ \A i \in 1 .. Len(m) : low[i] \in Text /\ low[i] = <<>>
      BY <2>1, WordsFew DEF Text
    <3> HIDE DEF low
    <3>2. low \in Seq(Text)
      <4>1. \A i \in 1 .. Len(m) : low[i] \in Text
        BY <3>1
      <4>2. low = [i \in DOMAIN m |-> low[i]]
        BY <3>1
      <4> QED
        BY ONLY <2>1, <4>1, <4>2, MappedSequence
    <3>3. Len(low) = Len(m)
      BY <2>1, <3>1, <3>2, MappedLen
    <3>4. Thins(low, m)
      BY <3>1, <3>3 DEF Thins
    <3>5. \A j \in TocHeaders(m) : low[j] = <<>>
      <4>1. \A j \in TocHeaders(m) : j \in 1 .. Len(m) - 1
        BY DEF TocHeaders, HeaderRows
      <4>2. \A j \in 1 .. Len(m) - 1 : j \in 1 .. Len(m)
        BY <2>1
      <4> QED
        BY <3>1, <4>1, <4>2
    <3> QED
      BY <2>1, <3>2, <3>4, <3>5, WordsToc
  <2> QED
    BY <2>2
<1> HIDE DEF n, p, q, s
<1>5. r \in Text /\ WordsOf(r) = WordsOf(q)
  BY <1>9, WordsTables, CleanTablesText
<1> HIDE DEF r
<1>6. WordsOf(CollapseBlanks(r)) = WordsOf(r)
  BY <1>5, WordsCollapse
<1>7. WordsOf(q) = Spelled(words, n)
  BY <1>4, <1>8, WordsOfLines
<1> QED
  BY <1>1, <1>5, <1>6, <1>7 DEF n, p, s

-----------------------------------------------------------------------------
(* Running headers and footers.                                             *)

\* The line ends around a page are noise.
LEMMA CoreTrimLines == ASSUME NEW t \in Text PROVE Core(TrimLines(t)) = Core(t)
<1> DEFINE I == {i \in DOMAIN t : t[i] # NL}
           n == Len(t)
<1>0. t \in Seq(Atoms) /\ <<>> \in Text /\ n \in Nat /\ NL \in Whitespace /\ NL \in Noise
  BY DEF Text, Whitespace, Noise
<1>1. CASE I = {}
  <2>1. TrimLines(t) = <<>>
    BY <1>1 DEF TrimLines
  <2>2. Only(t, Noise)
    BY <1>0, <1>1 DEF Only
  <2> QED
    BY <2>1, <2>2, CoreOnly, CoreNone
<1>2. CASE I # {}
  <2> DEFINE m == Min(I)
             k == Max(I)
  <2>1. TrimLines(t) = SubSeq(t, m, k)
    BY <1>2 DEF TrimLines
  <2>2. I \in SUBSET (1 .. n) /\ 1 \in Int /\ n \in Int
    BY <1>0
  <2>9. \A i \in 1 .. n : i \notin I => t[i] = NL
    BY <1>0
  <2> HIDE DEF I, n
  <2>3. m \in I /\ \A i \in I : m <= i
    BY ONLY <1>2, <2>2, MinOf
  <2>4. k \in I /\ \A i \in I : i <= k
    BY ONLY <1>2, <2>2, MaxOf
  <2> HIDE DEF m, k
  <2> DEFINE a == Slice(t, 0, m - 1)
             b == Slice(t, k, n)
             c == Slice(t, m - 1, k)
  <2>5. /\ m - 1 \in Nat /\ k \in Nat /\ 0 \in Nat /\ m - 1 <= k /\ k <= n /\ 0 <= m - 1 /\ 0 <= k
        /\ (m - 1) + 1 = m /\ m - 1 <= n /\ n <= n /\ m \in 1 .. n /\ k \in 1 .. n /\ n = Len(t)
        /\ m - 1 <= Len(t) /\ k <= Len(t) /\ n <= Len(t)
    BY <1>0, <2>2, <2>3, <2>4 DEF n
  <2>6. a \in Seq(Atoms) /\ Len(a) = m - 1 /\ \A i \in 1 .. m - 1 : a[i] = t[i]
    <3> DEFINE e == m - 1
    <3>1. e \in Nat /\ e <= Len(t) /\ 0 <= e /\ 0 \in Nat /\ e - 0 = e
      BY <2>5
    <3> HIDE DEF e
    <3>2. Slice(t, 0, e) \in Seq(Atoms) /\ Len(Slice(t, 0, e)) = e - 0 /\ \A i \in 1 .. e - 0 : Slice(t, 0, e)[i] = t[0 + i]
      BY ONLY <1>0, <3>1, SliceOf
    <3>3. \A i \in 1 .. e : 0 + i = i
      BY <3>1
    <3> QED
      BY <3>1, <3>2, <3>3 DEF e
  <2>7. b \in Seq(Atoms) /\ Len(b) = n - k /\ \A i \in 1 .. n - k : b[i] = t[k + i]
    <3>1. t \in Seq(Atoms) /\ k \in Nat /\ n \in Nat /\ k <= n /\ n <= Len(t)
      BY <1>0, <2>5
    <3> QED
      BY ONLY <3>1, SliceOf
  <2>8. c \in Seq(Atoms)
    <3> DEFINE e == m - 1
    <3>1. e \in Nat /\ k \in Nat /\ e <= k /\ k <= Len(t)
      BY <2>5
    <3> HIDE DEF e
    <3>2. Slice(t, e, k) \in Seq(Atoms)
      BY ONLY <1>0, <3>1, SliceOf
    <3> QED
      BY <3>2 DEF e
  <2>10. SubSeq(t, m, k) = c
    BY <2>5 DEF Slice
  <2>11. a \o c = Slice(t, 0, k)
    BY ONLY <1>0, <2>5, SliceConcat
  <2>12. Slice(t, 0, k) \o b = Slice(t, 0, n)
    BY ONLY <1>0, <2>5, SliceConcat
  <2>13. Slice(t, 0, n) = t
    BY <1>0, <2>5 DEF Slice
  <2> HIDE DEF a, b, c
  <2>14. t = (a \o c) \o b
    BY ONLY <2>11, <2>12, <2>13
  <2>15. \A i \in 1 .. Len(a) : a[i] \in Noise
    <3>1. ASSUME NEW i \in 1 .. m - 1 PROVE t[i] = NL
      <4>1. i \in 1 .. n /\ i \notin I
        BY <2>2, <2>3, <2>5
      <4> QED
        BY <2>9, <4>1
    <3> QED
      BY <1>0, <2>6, <3>1
  <2>16. \A i \in 1 .. Len(b) : b[i] \in Whitespace
    <3>1. ASSUME NEW i \in 1 .. n - k PROVE t[k + i] = NL
      <4>1. k + i \in 1 .. n /\ k + i \notin I
        BY <2>2, <2>4, <2>5
      <4> QED
        BY <2>9, <4>1
    <3> QED
      BY <1>0, <2>7, <3>1
  <2>17. a \in Text /\ b \in Text /\ c \in Text /\ a \o c \in Text
    BY <2>6, <2>7, <2>8, ConcatText DEF Text
  <2>18. Core((a \o c) \o b) = Core(a \o c)
    BY <2>16, <2>17, CoreTrail
  <2>19. Core(a \o c) = Core(c)
    BY <2>15, <2>17, CoreNoise
  <2> QED
    BY <2>1, <2>10, <2>14, <2>18, <2>19
<1> QED
  BY <1>1, <1>2

\* All kinds of line end as one.
Unend(t) == [i \in DOMAIN t |-> IF t[i] \in LineEnds THEN NL ELSE t[i]]

\* The lines of a block, over all its pages.
RawLines(t) == Lines(Unend(t))

linesOf == [p \in Text |-> Lines(p)]

\* The lines of texts, as a function on the texts.
LEMMA LinesAre == linesOf \in [Text -> Seq(Text)] /\ \A p \in Text : linesOf[p] = Lines(p)
<1>1. \A p \in Text : Lines(p) \in Seq(Text)
  BY LinesOf
<1> QED
  BY <1>1 DEF linesOf

\* A text with its letters renamed, one letter at a time.
LEMMA Renamed ==
    ASSUME NEW f, \A x \in Atoms : f[x] \in Atoms, NEW t \in Text
    PROVE  /\ [i \in DOMAIN t |-> f[t[i]]] \in Text
           /\ \A x \in Atoms : [i \in DOMAIN Append(t, x) |-> f[Append(t, x)[i]]] = Append([i \in DOMAIN t |-> f[t[i]]], f[x])
  BY DEF Text

\* Making the line ends newlines, one letter at a time.
LEMMA UnendAppend ==
    ASSUME NEW t \in Text, NEW x \in Atoms
    PROVE  /\ Unend(t) \in Text /\ UnixLines(t) \in Text
           /\ Unend(Append(t, x)) = Append(Unend(t), IF x \in LineEnds THEN NL ELSE x)
           /\ UnixLines(Append(t, x)) = Append(UnixLines(t), IF x = CRLF THEN NL ELSE x)
<1> DEFINE f == [y \in Atoms |-> IF y \in LineEnds THEN NL ELSE y]
           g == [y \in Atoms |-> IF y = CRLF THEN NL ELSE y]
           a == Append(t, x)
<1>1. /\ \A y \in Atoms : f[y] \in Atoms /\ f[y] = IF y \in LineEnds THEN NL ELSE y
      /\ \A y \in Atoms : g[y] \in Atoms /\ g[y] = IF y = CRLF THEN NL ELSE y
  BY SomeTexts
<1>2. t \in Seq(Atoms) /\ a \in Seq(Atoms) /\ a \in Text
  BY DEF Text
<1>3. \A i \in DOMAIN t : t[i] \in Atoms
  BY <1>2
<1>4. \A i \in DOMAIN a : a[i] \in Atoms
  BY <1>2
<1> HIDE DEF f, g
<1>5. Unend(t) = [i \in DOMAIN t |-> f[t[i]]] /\ UnixLines(t) = [i \in DOMAIN t |-> g[t[i]]]
  BY <1>1, <1>3 DEF Unend, UnixLines
<1>6. Unend(a) = [i \in DOMAIN a |-> f[a[i]]] /\ UnixLines(a) = [i \in DOMAIN a |-> g[a[i]]]
  <2> HIDE DEF a
  <2> QED
    BY <1>1, <1>4 DEF Unend, UnixLines
<1>7. Unend(t) \in Text /\ Unend(a) = Append(Unend(t), f[x])
  <2>1. \A y \in Atoms : f[y] \in Atoms
    BY <1>1
  <2> QED
    BY ONLY <1>5, <1>6, <2>1, t \in Text, x \in Atoms, Renamed
<1>8. UnixLines(t) \in Text /\ UnixLines(a) = Append(UnixLines(t), g[x])
  <2>1. \A y \in Atoms : g[y] \in Atoms
    BY <1>1
  <2> QED
    BY ONLY <1>5, <1>6, <2>1, t \in Text, x \in Atoms, Renamed
<1> QED
  BY <1>1, <1>7, <1>8

\* Replacing the last element of a sequence.
LEMMA SwapLast ==
    ASSUME NEW T, NEW q \in Seq(T), NEW l \in T, NEW w \in T
    PROVE  [Append(q, l) EXCEPT ![Len(q) + 1] = w] = Append(q, w)
<1> DEFINE a == Append(q, l)
           b == Append(q, w)
           n == Len(q)
           c == [a EXCEPT ![n + 1] = w]
<1>1. n \in Nat /\ DOMAIN a = 1 .. n + 1 /\ \A i \in 1 .. n : a[i] = q[i]
  OBVIOUS
<1>2. b \in Seq(T) /\ DOMAIN b = 1 .. n + 1 /\ b[n + 1] = w /\ \A i \in 1 .. n : b[i] = q[i]
  OBVIOUS
<1> HIDE DEF a, b, n
<1>3. c = [i \in DOMAIN a |-> IF i = n + 1 THEN w ELSE a[i]]
  OBVIOUS
<1>4. \A i \in 1 .. n + 1 : (IF i = n + 1 THEN w ELSE a[i]) = b[i]
  <2> SUFFICES ASSUME NEW i \in 1 .. n + 1 PROVE (IF i = n + 1 THEN w ELSE a[i]) = b[i]
    OBVIOUS
  <2>1. i = n + 1 \/ i \in 1 .. n
    BY <1>1
  <2> QED
    BY <1>1, <1>2, <2>1
<1> HIDE DEF c
<1>6. b = [i \in 1 .. n + 1 |-> b[i]]
  BY <1>2
<1>5. c = b
  BY <1>1, <1>3, <1>4, <1>6
<1> QED
  BY <1>5 DEF a, b, c, n

\* The lines of the pages are the lines of the block.
LEMMA PageLines == ASSUME NEW t \in Text PROVE Spelled(linesOf, Split(UnixLines(t), FF)) = RawLines(t)
<1> DEFINE P == {v \in Text : Spelled(linesOf, Split(UnixLines(v), FF)) = RawLines(v)}
<1>0. linesOf \in [Text -> Seq(Text)] /\ <<>> \in Text /\ FF \in Atoms /\ NL \in Atoms /\ FF # NL /\ FF # CRLF
      /\ LineEnds = {NL, CRLF, FF} /\ linesOf[<<>>] = << <<>> >> /\ Text = Seq(Atoms) /\ NL # CRLF
  <2>1. Lines(<<>>) = << <<>> >>
    BY SplitNone DEF Lines
  <2>2. <<>> \in Text
    BY DEF Text
  <2> QED
    BY <2>1, <2>2, LinesAre DEF Text, Atoms, Whitespace, LineEnds, NL, FF, CRLF
<1>1. <<>> \in P
  <2>1. UnixLines(<<>>) = <<>> /\ Unend(<<>>) = <<>>
    BY DEF UnixLines, Unend
  <2>2. Split(<<>>, FF) = << <<>> >>
    BY SplitNone
  <2>3. Spelled(linesOf, << <<>> >>) = linesOf[<<>>]
    BY ONLY <1>0, SpelledOne
  <2>4. RawLines(<<>>) = << <<>> >>
    BY <2>1, SplitNone DEF RawLines, Lines
  <2> QED
    BY <1>0, <2>1, <2>2, <2>3, <2>4
<1>2. ASSUME NEW v \in Text, NEW x \in Atoms, v \in P PROVE Append(v, x) \in P
  <2> DEFINE a == Append(v, x)
             s == Split(UnixLines(v), FF)
             r == RawLines(v)
             y == IF x = CRLF THEN NL ELSE x
             z == IF x \in LineEnds THEN NL ELSE x
  <2>1. /\ Unend(v) \in Seq(Atoms) /\ UnixLines(v) \in Seq(Atoms) /\ y \in Atoms /\ z \in Atoms
        /\ Unend(a) = Append(Unend(v), z) /\ UnixLines(a) = Append(UnixLines(v), y)
    BY <1>0, UnendAppend
  <2>2. a \in Text
    BY <1>0
  <2>3. Split(UnixLines(a), FF) = Grown(s, y, FF) /\ s \in Parts(Atoms)
    BY <2>1, SplitAppend
  <2>4. RawLines(a) = Grown(r, z, NL) /\ r \in Parts(Atoms)
    BY <2>1, SplitAppend DEF RawLines, Lines
  <2>5. Spelled(linesOf, s) = r
    BY ONLY v \in P
  <2>6. s \in Seq(Text) /\ s # <<>>
    BY <1>0, <2>3 DEF Parts
  <2>7. (x = FF => y = FF /\ z = NL) /\ (x # FF => y # FF /\ ((y = NL <=> z = NL) /\ y = z))
    BY <1>0
  <2> HIDE DEF s, r, y, z, a
  <2>8. CASE x = FF
    <3>1. Grown(s, y, FF) = Append(s, <<>>) /\ Grown(r, z, NL) = Append(r, <<>>)
      BY <2>7, <2>8 DEF Grown
    <3>2. Spelled(linesOf, Append(s, <<>>)) = Spelled(linesOf, s) \o linesOf[<<>>]
      <4>1. linesOf \in [Text -> Seq(Text)] /\ <<>> \in Text /\ s \in Seq(Text)
        BY <1>0, <2>6
      <4> QED
        BY ONLY <4>1, SpelledAppend
    <3>3. r \o << <<>> >> = Append(r, <<>>)
      BY <1>0, <2>4 DEF Parts
    <3>4. Spelled(linesOf, Split(UnixLines(a), FF)) = RawLines(a)
      BY <1>0, <2>3, <2>4, <2>5, <3>1, <3>2, <3>3
    <3> QED
      BY <2>2, <3>4 DEF a
  <2>9. CASE x # FF
    <3>1. PICK q \in Seq(Text), l \in Text : s = Append(q, l)
      BY <2>6, LastOf
    <3>2. Grown(s, y, FF) = Append(q, Append(l, y))
      <4>1. Grown(s, y, FF) = [s EXCEPT ![Len(s)] = Append(s[Len(s)], y)]
        BY <2>7, <2>9 DEF Grown
      <4>2. Len(s) = Len(q) + 1 /\ s[Len(s)] = l /\ Len(q) \in Nat
        BY <3>1
      <4>3. Append(l, y) \in Text
        BY <1>0, <2>1
      <4> DEFINE w == Append(l, y)
      <4>4. [Append(q, l) EXCEPT ![Len(q) + 1] = w] = Append(q, w)
        <5>1. w \in Text /\ q \in Seq(Text) /\ l \in Text
          BY <3>1, <4>3
        <5> HIDE DEF w
        <5> QED
          BY ONLY <5>1, SwapLast
      <4> QED
        BY <3>1, <4>1, <4>2, <4>4
    <3>3. Append(l, y) \in Text
      BY <1>0, <2>1
    <3>4. Spelled(linesOf, Append(q, Append(l, y))) = Spelled(linesOf, q) \o linesOf[Append(l, y)]
      BY ONLY ZenonT(40), <1>0, <3>1, <3>3, SpelledAppend
    <3>5. r = Spelled(linesOf, q) \o linesOf[l]
      <4>1. Spelled(linesOf, Append(q, l)) = Spelled(linesOf, q) \o linesOf[l]
        BY ONLY ZenonT(40), <1>0, <3>1, SpelledAppend
      <4> QED
        BY <2>5, <3>1, <4>1
    <3>6. linesOf[l] = Lines(l) /\ linesOf[Append(l, y)] = Lines(Append(l, y)) /\ Lines(l) \in Parts(Atoms)
      BY <3>1, <3>3, LinesAre, LinesOf
    <3>7. Lines(Append(l, y)) = Grown(Lines(l), y, NL)
      BY <1>0, <2>1, <3>1, SplitAppend DEF Lines
    <3> DEFINE sq == Spelled(linesOf, q)
               m == Lines(l)
    <3>8. sq \in Seq(Seq(Atoms))
      <4>1. sq \in Seq(Text)
        BY ONLY <1>0, <3>1, SpelledSeq
      <4> QED
        BY <1>0, <4>1
    <3>9. m \in Parts(Atoms)
      BY <3>6
    <3> HIDE DEF sq, m
    <3>10. Grown(sq \o m, y, NL) = sq \o Grown(m, y, NL)
      BY ONLY <2>1, <3>8, <3>9, GrownBehind
    <3>11. Spelled(linesOf, Grown(s, y, FF)) = sq \o Grown(m, y, NL)
      BY <3>2, <3>4, <3>6, <3>7 DEF sq, m
    <3>12. Grown(r, z, NL) = sq \o Grown(m, y, NL)
      BY <2>7, <2>9, <3>5, <3>6, <3>10 DEF sq, m
    <3>13. Spelled(linesOf, Split(UnixLines(a), FF)) = RawLines(a)
      BY <2>3, <2>4, <3>11, <3>12
    <3> QED
      BY <2>2, <3>13 DEF a
  <2> QED
    BY <2>8, <2>9
<1> HIDE DEF P
<1>3. t \in P
  BY ONLY <1>1, <1>2, t \in Text, TextInduction
<1> QED
  BY <1>3 DEF P

\* Making every line end a newline leaves the core as it was.
LEMMA CoreUnend == ASSUME NEW t \in Text PROVE Core(Unend(t)) = Core(t) /\ Unend(t) \in Text
<1> DEFINE u == Unend(t)
<1>1. u \in Text
  BY UnendAppend, SomeTexts
<1>2. Len(u) = Len(t) /\ \A i \in 1 .. Len(t) : u[i] = IF t[i] \in LineEnds THEN NL ELSE t[i]
  BY DEF Unend, Text
<1>3. NL \in LineEnds
  BY DEF LineEnds
<1> HIDE DEF u
<1>4. \A i \in 1 .. Len(t) : u[i] = t[i] \/ (u[i] \in LineEnds /\ t[i] \in LineEnds)
  BY <1>2, <1>3
<1>5. Core(u) = Core(t)
  BY ONLY <1>1, <1>2, <1>4, t \in Text, CoreEnds
<1> QED
  BY <1>1, <1>5 DEF u

\* ls is lines, some of them blank: only what is in E when it is stripped has gone.
Loses(ls, lines, E) ==
    /\ ls \in Seq(Text) /\ Len(ls) = Len(lines)
    /\ \A k \in 1 .. Len(lines) : ls[k] = lines[k] \/ (ls[k] = <<>> /\ Strip(lines[k]) \in E)

\* s is c and then d, place by place.
Beside(s, c, d) ==
    /\ Len(s) = Len(c) + Len(d)
    /\ \A k \in 1 .. Len(c) : s[k] = c[k]
    /\ \A k \in 1 .. Len(d) : s[Len(c) + k] = d[k]

\* The places of a concatenation.
LEMMA ConcatAt == ASSUME NEW T, NEW c \in Seq(T), NEW d \in Seq(T) PROVE c \o d \in Seq(T) /\ Beside(c \o d, c, d)
  BY DEF Beside

\* Blanking lines that say an edge, in two halves and in the whole.
LEMMA LosesConcat ==
    ASSUME NEW E, NEW a \in Seq(Text), NEW b \in Seq(Text), NEW c, NEW d, Loses(c, a, E), Loses(d, b, E)
    PROVE  Loses(c \o d, a \o b, E)
<1>1. /\ c \in Seq(Text) /\ Len(c) = Len(a)
      /\ \A k \in 1 .. Len(a) : c[k] = a[k] \/ (c[k] = <<>> /\ Strip(a[k]) \in E)
  BY DEF Loses
<1>2. /\ d \in Seq(Text) /\ Len(d) = Len(b)
      /\ \A k \in 1 .. Len(b) : d[k] = b[k] \/ (d[k] = <<>> /\ Strip(b[k]) \in E)
  BY DEF Loses
<1> DEFINE s == c \o d
           t == a \o b
           n == Len(a)
<1>3. /\ s \in Seq(Text) /\ Len(s) = Len(a) + Len(b) /\ \A k \in 1 .. n : s[k] = c[k]
      /\ \A k \in 1 .. Len(b) : s[n + k] = d[k]
  <2>1. c \in Seq(Text) /\ d \in Seq(Text) /\ Len(c) = Len(a) /\ Len(d) = Len(b)
    BY <1>1, <1>2
  <2>2. s \in Seq(Text) /\ Beside(s, c, d)
    BY ONLY <2>1, ConcatAt
  <2> HIDE DEF s
  <2> QED
    BY <2>1, <2>2 DEF Beside
<1>4. /\ Len(t) = Len(a) + Len(b) /\ \A k \in 1 .. n : t[k] = a[k]
      /\ \A k \in 1 .. Len(b) : t[n + k] = b[k]
  OBVIOUS
<1>5. n \in Nat /\ Len(b) \in Nat
  OBVIOUS
<1> HIDE DEF s, t
<1>6. ASSUME NEW k \in 1 .. Len(t) PROVE s[k] = t[k] \/ (s[k] = <<>> /\ Strip(t[k]) \in E)
  <2>1. CASE k \in 1 .. n
    BY <1>1, <1>3, <1>4, <2>1
  <2>2. CASE k \notin 1 .. n
    <3> DEFINE m == k - n
    <3>1. m \in 1 .. Len(b) /\ n + m = k
      BY <1>4, <1>5, <2>2
    <3> HIDE DEF m
    <3> QED
      BY <1>2, <1>3, <1>4, <3>1
  <2> QED
    BY <2>1, <2>2
<1> QED
  BY <1>3, <1>4, <1>6 DEF Loses, s, t

\* Lines that all stand have lost nothing.
LEMMA LosesNothing == ASSUME NEW ls \in Seq(Text), NEW E PROVE Loses(ls, ls, E)
  BY DEF Loses

\* A page without one of its edges.
LEMMA WithoutEdgeLines ==
    ASSUME NEW page \in Text, NEW edge, NEW first
    PROVE  Loses(Lines(WithoutEdge(page, edge, first)), Lines(page), {edge} \ {<<>>})
<1> DEFINE lines == Lines(page)
           at == EdgeAt(lines, first)
           bare == [lines EXCEPT ![at] = <<>>]
<1>1. lines \in Seq(Text) /\ lines # <<>> /\ \A i \in 1 .. Len(lines) : Free(lines[i], NL)
  BY LinesOf DEF Parts
<1>2. \/ WithoutEdge(page, edge, first) = page
      \/ WithoutEdge(page, edge, first) = FromLines(bare) /\ edge # <<>> /\ Strip(lines[at]) = edge
  BY DEF WithoutEdge
<1> HIDE DEF lines, at
<1>3. bare = [i \in DOMAIN lines |-> bare[i]]
  OBVIOUS
<1>4. ASSUME NEW i \in 1 .. Len(lines)
      PROVE  bare[i] \in Text /\ Free(bare[i], NL) /\ (bare[i] = lines[i] \/ (bare[i] = <<>> /\ i = at))
  <2>1. lines[i] \in Text /\ i \in DOMAIN lines /\ <<>> \in Text /\ Free(<<>>, NL) /\ Free(lines[i], NL)
    BY <1>1, SomeTexts DEF Free
  <2>2. bare[i] = IF i = at THEN <<>> ELSE lines[i]
    BY <2>1
  <2> HIDE DEF bare
  <2> QED
    BY <2>1, <2>2
<1> HIDE DEF bare
<1>5. bare \in Seq(Text) /\ Len(bare) = Len(lines)
  <2>1. \A i \in 1 .. Len(lines) : bare[i] \in Text
    BY <1>4
  <2>2. bare \in Seq(Text)
    BY ONLY <1>1, <1>3, <2>1, MappedSequence
  <2> QED
    BY ONLY <1>1, <1>3, <2>2, MappedLen
<1>6. Lines(FromLines(bare)) = bare
  <2>1. bare # <<>>
    BY <1>1, <1>5
  <2>2. \A i \in 1 .. Len(bare) : Free(bare[i], NL)
    BY <1>4, <1>5
  <2> QED
    BY <1>5, <2>1, <2>2, LinesBack
<1>7. CASE WithoutEdge(page, edge, first) = page
  BY <1>1, <1>7, LosesNothing DEF lines
<1>8. CASE WithoutEdge(page, edge, first) = FromLines(bare) /\ edge # <<>> /\ Strip(lines[at]) = edge
  <2>1. Loses(bare, lines, {edge} \ {<<>>})
    BY <1>4, <1>5, <1>8 DEF Loses
  <2> QED
    BY <1>6, <1>8, <2>1 DEF lines
<1> QED
  BY <1>2, <1>7, <1>8

\* A page without its edges.
Bare(page, header, footer) == WithoutEdge(WithoutEdge(page, header, TRUE), footer, FALSE)

\* A page without its header and footer has lines blanked that said either, and no others.
LEMMA BareLines ==
    ASSUME NEW page \in Text, NEW header, NEW footer
    PROVE  /\ Bare(page, header, footer) \in Text
           /\ Loses(Lines(Bare(page, header, footer)), Lines(page), {header, footer} \ {<<>>})
           /\ IsBlank(page) => Bare(page, header, footer) = page
<1> DEFINE a == WithoutEdge(page, header, TRUE)
           b == WithoutEdge(a, footer, FALSE)
<1>1. a \in Text /\ Loses(Lines(a), Lines(page), {header} \ {<<>>})
  BY WithoutEdgeText, WithoutEdgeLines
<1>2. IsBlank(page) => a = page
  BY DEF WithoutEdge
<1>3. IsBlank(a) => b = a
  BY DEF WithoutEdge
<1>4. Bare(page, header, footer) = b
  BY DEF Bare
<1> HIDE DEF a
<1>5. b \in Text /\ Loses(Lines(b), Lines(a), {footer} \ {<<>>})
  BY <1>1, WithoutEdgeText, WithoutEdgeLines
<1> HIDE DEF b
<1> DEFINE p == Lines(page)
           q == Lines(a)
           r == Lines(b)
<1>6. /\ Len(q) = Len(p)
      /\ \A k \in 1 .. Len(p) : q[k] = p[k] \/ (q[k] = <<>> /\ Strip(p[k]) \in {header} \ {<<>>})
  BY <1>1 DEF Loses
<1>7. /\ r \in Seq(Text) /\ Len(r) = Len(q)
      /\ \A k \in 1 .. Len(q) : r[k] = q[k] \/ (r[k] = <<>> /\ Strip(q[k]) \in {footer} \ {<<>>})
  BY <1>5 DEF Loses
<1> HIDE DEF p, q, r
<1>8. Strip(<<>>) = <<>>
  BY DEF Strip, InkAt
<1>9. ASSUME NEW k \in 1 .. Len(p)
      PROVE  r[k] = p[k] \/ (r[k] = <<>> /\ Strip(p[k]) \in {header, footer} \ {<<>>})
  BY <1>6, <1>7, <1>8
<1>10. Loses(r, p, {header, footer} \ {<<>>})
  BY <1>6, <1>7, <1>9 DEF Loses
<1> QED
  BY <1>2, <1>3, <1>4, <1>5, <1>10 DEF p, r

\* What is left of the pages.
bared(header, footer) == [p \in Text |-> Core(Bare(p, header, footer))]

\* The cores of bare pages, as a function on the pages.
LEMMA BaredAre ==
    ASSUME NEW h, NEW f
    PROVE  /\ bared(h, f) \in [Text -> Seq(Atoms)]
           /\ \A p \in Text : bared(h, f)[p] = Core(Bare(p, h, f))
<1>1. \A p \in Text : Core(Bare(p, h, f)) \in Seq(Atoms)
  BY BareLines, CoreText DEF Text
<1> QED
  BY <1>1 DEF bared

Masks(B, v, h, f) ==
    Loses(B, Spelled(linesOf, v), {h, f} \ {<<>>}) /\ Spelled(core, B) = Spelled(bared(h, f), v)

\* The lines of all pages, with headers and footers blanked, have the core of the bare pages.
LEMMA Masked == ASSUME NEW v \in Seq(Text), NEW h, NEW f PROVE \E B : Masks(B, v, h, f)
<1> DEFINE P == {w \in Seq(Text) : \E B : Masks(B, w, h, f)}
           g == bared(h, f)
           E == {h, f} \ {<<>>}
<1>0. g \in [Text -> Seq(Atoms)] /\ core \in [Text -> Seq(Atoms)] /\ linesOf \in [Text -> Seq(Text)]
  BY BaredAre, TextsAre, LinesAre
<1> HIDE DEF g, E
<1>9. ASSUME NEW B, NEW w PROVE Masks(B, w, h, f) <=> (Loses(B, Spelled(linesOf, w), E) /\ Spelled(core, B) = Spelled(g, w))
  BY DEF Masks, g, E
<1>1. <<>> \in P
  <2>1. Spelled(linesOf, <<>>) = <<>>
    BY ONLY <1>0, SpelledNone
  <2>2. Spelled(core, <<>>) = <<>>
    BY ONLY <1>0, SpelledNone
  <2>3. Spelled(g, <<>>) = <<>>
    BY ONLY <1>0, SpelledNone
  <2>4. <<>> \in Seq(Text)
    OBVIOUS
  <2>5. Loses(<<>>, <<>>, E)
    BY <2>4, LosesNothing
  <2> QED
    BY <1>9, <2>1, <2>2, <2>3, <2>4, <2>5
<1>2. ASSUME NEW w \in Seq(Text), NEW x \in Text, w \in P PROVE Append(w, x) \in P
  <2>1. PICK B : Masks(B, w, h, f)
    BY ONLY w \in P
  <2> DEFINE A == Spelled(linesOf, w)
             y == Bare(x, h, f)
             L == Lines(x)
             M == Lines(y)
  <2>2. Loses(B, A, E) /\ Spelled(core, B) = Spelled(g, w)
    BY <1>9, <2>1
  <2>3. y \in Text /\ Loses(M, L, E)
    BY BareLines DEF E
  <2>4. L \in Seq(Text) /\ M \in Seq(Text) /\ linesOf[x] = L
    BY <2>3, LinesAre, LinesOf
  <2>5. A \in Seq(Text)
    BY ONLY <1>0, w \in Seq(Text), SpelledSeq
  <2>6. Spelled(linesOf, Append(w, x)) = A \o linesOf[x]
    BY ONLY <1>0, w \in Seq(Text), x \in Text, SpelledAppend
  <2>7. Spelled(g, Append(w, x)) = Spelled(g, w) \o g[x]
    BY ONLY <1>0, w \in Seq(Text), x \in Text, SpelledAppend
  <2>8. g[x] = Core(y)
    BY BaredAre DEF g
  <2>9. Core(y) = Spelled(core, M)
    BY <2>3, CoreOfLines
  <2>10. B \in Seq(Text)
    BY <2>2 DEF Loses
  <2> HIDE DEF A, L, M, y
  <2>11. Spelled(core, B \o M) = Spelled(core, B) \o Spelled(core, M)
    <3>1. core \in [Text -> Seq(Atoms)] /\ B \in Seq(Text) /\ M \in Seq(Text)
      BY <1>0, <2>4, <2>10
    <3>2. Law(core, Text)
      BY <3>1, SpelledLaw
    <3> QED
      BY <3>1, <3>2 DEF Law
  <2>12. Loses(B \o M, A \o L, E)
    BY <2>2, <2>3, <2>4, <2>5, LosesConcat
  <2>13. Spelled(core, B \o M) = Spelled(g, Append(w, x))
    BY ONLY <2>2, <2>7, <2>8, <2>9, <2>11
  <2>14. Spelled(linesOf, Append(w, x)) = A \o L
    BY ONLY <2>4, <2>6
  <2>15. Masks(B \o M, Append(w, x), h, f)
    BY ONLY <1>9, <2>12, <2>13, <2>14
  <2>16. Append(w, x) \in Seq(Text)
    OBVIOUS
  <2> QED
    BY <2>15, <2>16
<1> HIDE DEF P
<1>3. v \in P
  BY ONLY <1>1, <1>2, v \in Seq(Text), SeqInduction
<1> QED
  BY <1>3 DEF P

\* A line that says e, in the lines A; two of them.
Once(e, A)  == \E n \in 1 .. Len(A) : Strip(A[n]) = e
Twice(e, A) == \E n, m \in 1 .. Len(A) : n # m /\ Strip(A[n]) = e /\ Strip(A[m]) = e

\* A line said in both halves is said twice in the whole.
LEMMA TwiceConcat ==
    ASSUME NEW e, NEW A \in Seq(Text), NEW L \in Seq(Text)
    PROVE  /\ Once(e, A) \/ Once(e, L) => Once(e, A \o L)
           /\ Twice(e, A) \/ (Once(e, A) /\ Once(e, L)) => Twice(e, A \o L)
<1> DEFINE s == A \o L
<1>1. s \in Seq(Text) /\ Beside(s, A, L)
  BY ConcatAt
<1> HIDE DEF s
<1>2. /\ Len(s) = Len(A) + Len(L)
      /\ \A k \in 1 .. Len(A) : s[k] = A[k]
      /\ \A k \in 1 .. Len(L) : s[Len(A) + k] = L[k]
  BY <1>1 DEF Beside
<1>3. Len(A) \in Nat /\ Len(L) \in Nat
  OBVIOUS
<1>4. \A k \in 1 .. Len(A) : k \in 1 .. Len(s)
  BY <1>2, <1>3
<1>5. \A k \in 1 .. Len(L) : Len(A) + k \in 1 .. Len(s) /\ Len(A) + k \notin 1 .. Len(A)
  BY <1>2, <1>3
<1>6. Once(e, A) => Once(e, s)
  BY <1>2, <1>4 DEF Once
<1>7. Once(e, L) => Once(e, s)
  BY <1>2, <1>5 DEF Once
<1>8. Twice(e, A) => Twice(e, s)
  BY <1>2, <1>4 DEF Twice
<1>9. Once(e, A) /\ Once(e, L) => Twice(e, s)
  <2> SUFFICES ASSUME Once(e, A), Once(e, L) PROVE Twice(e, s)
    OBVIOUS
  <2>1. PICK n \in 1 .. Len(A) : Strip(A[n]) = e
    BY DEF Once
  <2>2. PICK m \in 1 .. Len(L) : Strip(L[m]) = e
    BY DEF Once
  <2> DEFINE k == Len(A) + m
  <2>3. n \in 1 .. Len(s) /\ k \in 1 .. Len(s) /\ n # k
    BY <1>4, <1>5
  <2>4. Strip(s[n]) = e /\ Strip(s[k]) = e
    BY <1>2, <2>1, <2>2
  <2> QED
    BY <2>3, <2>4 DEF Twice
<1> QED
  BY <1>6, <1>7, <1>8, <1>9 DEF s

\* The texts that are not blank, one after the other.
LEMMA WithInkAppend ==
    ASSUME NEW v \in Seq(Text), NEW x \in Text
    PROVE  /\ WithInk(v) \in Seq(Text) /\ WithInk(<<>>) = <<>>
           /\ WithInk(Append(v, x)) = IF IsBlank(x) THEN WithInk(v) ELSE Append(WithInk(v), x)
<1> DEFINE P == {y \in Text : ~IsBlank(y)}
           a == Append(v, x)
<1>1. ASSUME NEW w \in Seq(Text) PROVE WithInk(w) = Picked(w, P)
  <2>1. \A i \in DOMAIN w : w[i] \in Text
    OBVIOUS
  <2>2. {i \in DOMAIN w : ~IsBlank(w[i])} = {i \in DOMAIN w : w[i] \in P}
    BY <2>1
  <2> QED
    BY <2>2 DEF WithInk, Picked
<1>2. a \in Seq(Text) /\ <<>> \in Seq(Text)
  OBVIOUS
<1>3. x \in P <=> ~IsBlank(x)
  OBVIOUS
<1> HIDE DEF P
<1>4. /\ Picked(v, P) \in Seq(Text) /\ Picked(<<>>, P) = <<>>
      /\ Picked(a, P) = IF x \in P THEN Append(Picked(v, P), x) ELSE Picked(v, P)
  BY ONLY v \in Seq(Text), x \in Text, PickedAppend
<1>5. WithInk(a) = Picked(a, P)
  <2> HIDE DEF a
  <2> QED
    BY <1>1, <1>2
<1>6. WithInk(v) = Picked(v, P) /\ WithInk(<<>>) = Picked(<<>>, P)
  BY <1>1, <1>2
<1> QED
  BY <1>3, <1>4, <1>5, <1>6

\* A line of page p says e.
Says(p, e) == Once(e, Lines(p))

\* What two pages say stands in two lines.
LEMMA PagesSay ==
    ASSUME NEW v \in Seq(Text), NEW e
    PROVE  /\ (\E i \in 1 .. Len(WithInk(v)) : Says(WithInk(v)[i], e)) => Once(e, Spelled(linesOf, v))
           /\ (\E i, j \in 1 .. Len(WithInk(v)) : i # j /\ Says(WithInk(v)[i], e) /\ Says(WithInk(v)[j], e))
                  => Twice(e, Spelled(linesOf, v))
           /\ \A i \in 1 .. Len(WithInk(v)) : ~ IsBlank(WithInk(v)[i])
<1> DEFINE One(w) == \E i \in 1 .. Len(w) : Says(w[i], e)
           Two(w) == \E i, j \in 1 .. Len(w) : i # j /\ Says(w[i], e) /\ Says(w[j], e)
           Ink(w) == \A i \in 1 .. Len(w) : ~ IsBlank(w[i])
           P == {u \in Seq(Text) : /\ One(WithInk(u)) => Once(e, Spelled(linesOf, u))
                                   /\ Two(WithInk(u)) => Twice(e, Spelled(linesOf, u))
                                   /\ Ink(WithInk(u))}
<1>0. linesOf \in [Text -> Seq(Text)] /\ <<>> \in Text
  BY LinesAre, SomeTexts
<1>1. <<>> \in P
  <2>1. WithInk(<<>>) = <<>>
    BY <1>0, WithInkAppend
  <2> QED
    BY <2>1
<1>2. ASSUME NEW u \in Seq(Text), NEW x \in Text, u \in P PROVE Append(u, x) \in P
  <2> DEFINE a == Append(u, x)
             w == WithInk(u)
             z == WithInk(a)
             A == Spelled(linesOf, u)
             L == Lines(x)
  <2>1. w \in Seq(Text) /\ z = IF IsBlank(x) THEN w ELSE Append(w, x)
    BY WithInkAppend
  <2>2. Spelled(linesOf, a) = A \o L
    <3>1. Spelled(linesOf, a) = A \o linesOf[x]
      BY ONLY <1>0, u \in Seq(Text), x \in Text, SpelledAppend
    <3> QED
      BY <3>1, LinesAre
  <2>3. A \in Seq(Text) /\ L \in Seq(Text)
    <3>1. A \in Seq(Text)
      BY ONLY <1>0, u \in Seq(Text), SpelledSeq
    <3> QED
      BY <3>1, LinesOf
  <2>4. (One(w) => Once(e, A)) /\ (Two(w) => Twice(e, A)) /\ Ink(w)
    BY ONLY u \in P
  <2>5. Says(x, e) <=> Once(e, L)
    BY DEF Says
  <2>13. a \in Seq(Text)
    OBVIOUS
  <2> HIDE DEF a, w, z, A, L
  <2>6. /\ Once(e, A) \/ Once(e, L) => Once(e, A \o L)
        /\ Twice(e, A) \/ (Once(e, A) /\ Once(e, L)) => Twice(e, A \o L)
    BY <2>3, TwiceConcat
  <2>7. CASE IsBlank(x)
    <3>1. (One(z) => Once(e, A \o L)) /\ (Two(z) => Twice(e, A \o L)) /\ Ink(z)
      BY <2>1, <2>4, <2>6, <2>7
    <3> QED
      BY <2>2, <2>13, <3>1 DEF a, z
  <2>8. CASE ~ IsBlank(x)
    <3> DEFINE n == Len(w)
    <3>1. z = Append(w, x)
      BY <2>1, <2>8
    <3>2. Len(z) = n + 1 /\ n \in Nat /\ z[n + 1] = x /\ \A i \in 1 .. n : z[i] = w[i]
      BY <2>1, <3>1
    <3>3. \A i \in 1 .. n + 1 : i \in 1 .. n \/ i = n + 1
      BY <3>2
    <3>4. ASSUME One(z) PROVE Once(e, A \o L)
      BY <2>4, <2>5, <2>6, <3>2, <3>3, <3>4
    <3>5. ASSUME Two(z) PROVE Twice(e, A \o L)
      <4>1. PICK i, j \in 1 .. n + 1 : i # j /\ Says(z[i], e) /\ Says(z[j], e)
        BY <3>2, <3>5
      <4>2. CASE i \in 1 .. n /\ j \in 1 .. n
        BY <2>4, <2>6, <3>2, <4>1, <4>2
      <4>3. CASE i \in 1 .. n /\ j = n + 1
        BY <2>4, <2>5, <2>6, <3>2, <4>1, <4>3
      <4>4. CASE j \in 1 .. n /\ i = n + 1
        BY <2>4, <2>5, <2>6, <3>2, <4>1, <4>4
      <4> QED
        BY <3>3, <4>1, <4>2, <4>3, <4>4
    <3>6. Ink(z)
      BY <2>4, <2>8, <3>2, <3>3
    <3> QED
      BY <2>2, <2>13, <3>4, <3>5, <3>6 DEF a, z
  <2> QED
    BY <2>7, <2>8
<1> HIDE DEF P
<1>3. v \in P
  BY ONLY <1>1, <1>2, v \in Seq(Text), SeqInduction
<1> QED
  BY <1>3 DEF P

\* A text all of whose lines are blank is blank.
LEMMA BlankLines ==
    ASSUME NEW t \in Text, \A i \in 1 .. Len(Lines(t)) : IsBlank(Lines(t)[i])
    PROVE  IsBlank(t)
<1> DEFINE All(v) == \A i \in 1 .. Len(v) : Only(v[i], Whitespace)
           P == {v \in Seq(Text) : All(v) => Join(v, <<NL>>) \in Text /\ Only(Join(v, <<NL>>), Whitespace)}
           sep == <<NL>>
<1>0. sep \in Text /\ sep \in Seq(Atoms) /\ Only(sep, Whitespace) /\ <<>> \in Text /\ Only(<<>>, Whitespace) /\ <<>> \in Seq(Atoms)
  BY SomeTexts DEF Text, Only, Whitespace
<1>5. \A s, r \in Text : Only(s, Whitespace) /\ Only(r, Whitespace) => Only(s \o r, Whitespace) /\ s \o r \in Text
  BY DEF Only, Text
<1> HIDE DEF sep
<1>6. P = {v \in Seq(Text) : All(v) => Join(v, sep) \in Text /\ Only(Join(v, sep), Whitespace)}
  BY DEF sep
<1>1. <<>> \in P
  <2>1. Join(<<>>, sep) = <<>>
    BY ONLY <1>0, JoinFew
  <2>2. <<>> \in Seq(Text)
    OBVIOUS
  <2>3. Join(<<>>, sep) \in Text /\ Only(Join(<<>>, sep), Whitespace)
    BY <1>0, <2>1
  <2> QED
    BY ONLY <1>6, <2>2, <2>3
<1>2. ASSUME NEW v \in Seq(Text), NEW x \in Text, v \in P PROVE Append(v, x) \in P
  <2> DEFINE a == Append(v, x)
  <2>1. a \in Seq(Text) /\ Len(a) = Len(v) + 1 /\ a[Len(v) + 1] = x /\ (\A i \in 1 .. Len(v) : a[i] = v[i]) /\ Len(v) \in Nat
    OBVIOUS
  <2>2. (v = <<>> => a = <<x>>)
    OBVIOUS
  <2>4. x \in Seq(Atoms)
    BY DEF Text
  <2>3. v # <<>> => Join(a, sep) = (Join(v, sep) \o sep) \o x
    <3>1. v # <<>> => v \in Parts(Atoms)
      BY DEF Parts, Text
    <3> QED
      BY <1>0, <2>4, <3>1, JoinAppend
  <2>5. v = <<>> => Join(a, sep) = x
    <3>1. Join(<<x>>, sep) = x
      BY ONLY <2>4, JoinFew
    <3> QED
      BY <2>2, <3>1
  <2> HIDE DEF a
  <2>6. ASSUME All(a) PROVE Join(a, sep) \in Text /\ Only(Join(a, sep), Whitespace)
    <3>1. Only(x, Whitespace)
      BY <2>1, <2>6
    <3>2. All(v)
      BY <2>1, <2>6
    <3>3. Join(v, sep) \in Text /\ Only(Join(v, sep), Whitespace)
      BY ONLY <1>6, <3>2, v \in P
    <3> DEFINE j == Join(v, sep)
    <3> HIDE DEF j, All, P
    <3>6. j \in Text /\ Only(j, Whitespace)
      BY <3>3 DEF j
    <3>4. Only(j \o sep, Whitespace) /\ j \o sep \in Text
      BY ONLY <1>0, <1>5, <3>6
    <3>5. Only((j \o sep) \o x, Whitespace) /\ (j \o sep) \o x \in Text
      BY ONLY <1>5, <3>1, <3>4, x \in Text
    <3> QED
      BY <2>3, <2>5, <3>1, <3>5 DEF j
  <2> QED
    BY <1>6, <2>1, <2>6 DEF a
<1> HIDE DEF P
<1>3. Lines(t) \in P
  <2>1. Lines(t) \in Seq(Text)
    BY LinesOf
  <2> QED
    BY ONLY <1>1, <1>2, <2>1, SeqInduction
<1>4. All(Lines(t)) /\ Join(Lines(t), sep) = t
  <2>1. Lines(t) \in Seq(Text) /\ FromLines(Lines(t)) = t
    BY LinesOf
  <2>2. ASSUME NEW i \in 1 .. Len(Lines(t)) PROVE Only(Lines(t)[i], Whitespace)
    <3>1. Lines(t)[i] \in Text /\ IsBlank(Lines(t)[i])
      BY <2>1
    <3> QED
      BY <3>1, OnlyRange DEF IsBlank
  <2> QED
    BY <2>1, <2>2 DEF FromLines, sep
<1>7. Only(t, Whitespace)
  <2> DEFINE l == Lines(t)
  <2>1. All(l) /\ l \in P /\ Join(l, sep) = t
    BY <1>3, <1>4
  <2> HIDE DEF l
  <2> QED
    BY ONLY <1>6, <2>1
<1> QED
  BY <1>7, OnlyRange DEF IsBlank

\* An edge is a line of its page.
LEMMA EdgeSays ==
    ASSUME NEW page \in Text, ~ IsBlank(page), NEW first, first \in BOOLEAN, EdgeLine(page, first) # <<>>
    PROVE  Says(page, EdgeLine(page, first))
<1> DEFINE lines == Lines(page)
           I == {i \in DOMAIN lines : ~IsBlank(lines[i])}
           at == EdgeAt(lines, first)
           n == Len(lines)
<1>1. lines \in Seq(Text)
  BY LinesOf
<1>2. I # {}
  <2>1. ~ \A i \in 1 .. Len(Lines(page)) : IsBlank(Lines(page)[i])
    BY BlankLines
  <2> QED
    BY <1>1, <2>1
<1>3. at = IF first THEN Min(I) ELSE Max(I)
  BY DEF EdgeAt
<1>6. EdgeLine(page, first) = Strip(lines[at]) \/ EdgeLine(page, first) = <<>>
  BY DEF EdgeLine
<1>7. Says(page, EdgeLine(page, first)) <=> \E k \in 1 .. n : Strip(lines[k]) = EdgeLine(page, first)
  BY DEF Says, Once
<1> HIDE DEF lines, at
<1>4. I \in SUBSET (1 .. n) /\ 1 \in Int /\ n \in Int
  BY <1>1
<1> HIDE DEF I, n
<1>5. at \in 1 .. n
  <2>1. Min(I) \in I
    BY ONLY <1>2, <1>4, MinOf
  <2>2. Max(I) \in I
    BY ONLY <1>2, <1>4, MaxOf
  <2> QED
    BY <1>3, <1>4, <2>1, <2>2
<1> QED
  BY <1>5, <1>6, <1>7

\* A set of two elements or more.
LEMMA TwoOf ==
    ASSUME NEW S, IsFiniteSet(S), Cardinality(S) >= 2
    PROVE  \E i, j \in S : i # j
<1> SUFFICES ASSUME \A i, j \in S : i = j PROVE FALSE
  OBVIOUS
<1>1. CASE S = {}
  <2>1. Cardinality(S) = 0
    BY <1>1, FS_EmptySet
  <2> QED
    BY <2>1
<1>2. CASE S # {}
  <2>1. PICK i : i \in S
    BY <1>2
  <2>2. S = {i}
    BY <2>1
  <2>3. Cardinality(S) = 1
    BY <2>2, FS_Singleton
  <2> QED
    BY <2>3
<1> QED
  BY <1>1, <1>2

\* A repeated edge is on two pages.
LEMMA RepeatedOnTwo ==
    ASSUME NEW pages \in Seq(Text), NEW first, RepeatedEdge(pages, first) # <<>>
    PROVE  \E i, j \in 1 .. Len(pages) :
              /\ i # j
              /\ EdgeLine(pages[i], first) = RepeatedEdge(pages, first)
              /\ EdgeLine(pages[j], first) = RepeatedEdge(pages, first)
<1> DEFINE e == RepeatedEdge(pages, first)
           most == Max({2, (Len(pages) + 1) \div 2})
           Votes(line) == {i \in DOMAIN pages : EdgeLine(pages[i], first) = line}
           elected == {i \in DOMAIN pages :
                          /\ EdgeLine(pages[i], first) # <<>>
                          /\ Cardinality(Votes(EdgeLine(pages[i], first))) >= most}
           n == Len(pages)
<1>1. e = IF elected = {} THEN <<>> ELSE EdgeLine(pages[Min(elected)], first)
  BY DEF RepeatedEdge
<1>2. elected \in SUBSET (1 .. n) /\ 1 \in Int /\ n \in Int /\ elected # {}
  <2>1. elected \subseteq 1 .. n /\ 1 \in Int /\ n \in Int
    <3> HIDE DEF Votes, most
    <3> QED
      OBVIOUS
  <2>2. e # <<>>
    OBVIOUS
  <2> HIDE DEF elected, n, e
  <2> QED
    BY <1>1, <2>1, <2>2
<1>3. \A i \in elected : Cardinality(Votes(EdgeLine(pages[i], first))) >= most
  OBVIOUS
<1>4. most >= 2 /\ most \in Int
  <2> DEFINE C == {2, (Len(pages) + 1) \div 2}
             m == 2 + Len(pages)
  <2>1. C \in SUBSET (0 .. m) /\ C # {} /\ 2 \in C /\ 0 \in Int /\ m \in Int
    OBVIOUS
  <2>4. \A k \in C : k \in Int
    OBVIOUS
  <2>2. most = Max(C)
    OBVIOUS
  <2> HIDE DEF C, m, most
  <2>3. Max(C) \in C /\ \A k \in C : k <= Max(C)
    BY ONLY <2>1, MaxOf
  <2> QED
    BY <2>1, <2>2, <2>3, <2>4
<1>5. ASSUME NEW line PROVE IsFiniteSet(Votes(line)) /\ Votes(line) \subseteq 1 .. n
  <2>1. Votes(line) \in SUBSET (1 .. n)
    OBVIOUS
  <2>2. IsFiniteSet(1 .. n)
    BY <1>2, FS_Interval
  <2> QED
    BY <2>1, <2>2, FS_Subset
<1>9. \A i : i \in Votes(e) => EdgeLine(pages[i], first) = e
  OBVIOUS
<1>10. e # <<>>
  OBVIOUS
<1> HIDE DEF elected, Votes, most, n
<1>6. Min(elected) \in elected
  BY ONLY <1>2, MinOf
<1>7. Cardinality(Votes(e)) >= 2
  <2>1. Cardinality(Votes(e)) >= most
    BY <1>1, <1>2, <1>3, <1>6
  <2>2. Cardinality(Votes(e)) \in Nat
    BY <1>5, FS_CardinalityType
  <2> QED
    BY <1>4, <2>1, <2>2
<1>8. PICK i, j \in Votes(e) : i # j
  BY <1>5, <1>7, TwoOf
<1> QED
  BY <1>5, <1>8, <1>9 DEF n

\* What the pages lose of their lines.
EdgeMask(t, B) ==
    /\ B \in Seq(Text) /\ Len(B) = Len(RawLines(t))
    /\ \A i \in 1 .. Len(B) : B[i] = RawLines(t)[i] \/ (B[i] = <<>> /\ Twin(RawLines(t), i))
    /\ Core(StripEdges(UnixLines(t))) = Spelled(core, B)

\* A line that the pages lose is there a second time.
LEMMA RepeatedTwice ==
    ASSUME NEW t \in Text, NEW first \in BOOLEAN, RepeatedEdge(Pages(UnixLines(t)), first) # <<>>
    PROVE  Twice(RepeatedEdge(Pages(UnixLines(t)), first), RawLines(t))
<1> DEFINE v == Split(UnixLines(t), FF)
           pages == Pages(UnixLines(t))
           e == RepeatedEdge(pages, first)
<1>1. v \in Seq(Text) /\ pages \in Seq(Text) /\ pages = WithInk(v)
  <2>1. UnixLines(t) \in Text
    BY UnixLinesText
  <2>2. v \in Seq(Text)
    BY <2>1, SplitSequence DEF Text
  <2> QED
    BY <2>1, <2>2, PagesText DEF Pages
<1>2. Spelled(linesOf, v) = RawLines(t)
  BY PageLines
<1>7. e # <<>>
  OBVIOUS
<1> HIDE DEF v, pages
<1>3. PICK i, j \in 1 .. Len(pages) : i # j /\ EdgeLine(pages[i], first) = e /\ EdgeLine(pages[j], first) = e
  BY <1>1, <1>7, RepeatedOnTwo
<1>4. /\ (\E k, m \in 1 .. Len(pages) : k # m /\ Says(pages[k], e) /\ Says(pages[m], e)) => Twice(e, RawLines(t))
      /\ \A k \in 1 .. Len(pages) : ~ IsBlank(pages[k])
  BY <1>1, <1>2, PagesSay
<1>5. ASSUME NEW k \in 1 .. Len(pages), EdgeLine(pages[k], first) = e PROVE Says(pages[k], e)
  <2>1. pages[k] \in Text
    BY <1>1
  <2> QED
    BY <1>4, <1>5, <1>7, <2>1, EdgeSays
<1> QED
  BY <1>3, <1>4, <1>5 DEF pages

\* The pages without the lines that go.
LEMMA CoreStripPages ==
    ASSUME NEW v \in Seq(Text), NEW h, NEW f
    PROVE  Core(Join(Map(TrimLines, PagesWithout(WithInk(v), h, f)), <<NL, NL>>)) = Spelled(bared(h, f), v)
<1> DEFINE pages == WithInk(v)
           x == [i \in DOMAIN pages |-> Bare(pages[i], h, f)]
           J == {i \in DOMAIN x : ~IsBlank(x[i])}
           y == Selected(x, J)
           z == [i \in DOMAIN y |-> TrimLines(y[i])]
           g == bared(h, f)
           I == {i \in DOMAIN v : ~IsBlank(v[i])}
<1>0. g \in [Text -> Seq(Atoms)] /\ core \in [Text -> Seq(Atoms)] /\ \A p \in Text : g[p] = Core(Bare(p, h, f)) /\ core[p] = Core(p)
  BY BaredAre, TextsAre
<1>1. PagesWithout(WithInk(v), h, f) = y
  BY DEF PagesWithout, WithInk, Map, Bare
<1>2. Map(TrimLines, PagesWithout(WithInk(v), h, f)) = z
  BY <1>1 DEF Map
<1>3. pages = Selected(v, I)
  BY DEF WithInk
<1>4. pages \in Seq(Text)
  <2>1. Selected(v, I) \in Seq(Text)
    BY ONLY v \in Seq(Text), SubSelected
  <2> QED
    BY <1>3, <2>1
<1>14. \A i \in 1 .. Len(v) : i \notin I => v[i] \in Text /\ IsBlank(v[i])
  OBVIOUS
<1> HIDE DEF pages, I, g
<1>5. x = [i \in DOMAIN pages |-> x[i]]
  OBVIOUS
<1>6. ASSUME NEW i \in 1 .. Len(pages) PROVE x[i] \in Text /\ core[x[i]] = g[pages[i]]
  <2>1. pages[i] \in Text /\ i \in DOMAIN pages
    BY <1>4
  <2>2. x[i] = Bare(pages[i], h, f)
    BY <2>1
  <2> HIDE DEF x
  <2>3. x[i] \in Text
    BY <2>1, <2>2, BareLines
  <2> QED
    BY <1>0, <2>1, <2>2, <2>3
<1> HIDE DEF x
<1>7. x \in Seq(Text) /\ Len(x) = Len(pages)
  <2>1. \A i \in 1 .. Len(pages) : x[i] \in Text
    BY <1>6
  <2>2. x \in Seq(Text)
    BY ONLY <1>4, <1>5, <2>1, MappedSequence
  <2> QED
    BY ONLY <1>4, <1>5, <2>2, MappedLen
<1>15. \A i \in 1 .. Len(x) : i \notin J => IsBlank(x[i]) /\ x[i] \in Text
  BY <1>7
<1> HIDE DEF J
<1>8. y \in Seq(Text)
  BY ONLY <1>7, SubSelected
<1>9. Spelled(core, y) = Spelled(core, x)
  <2>1. \A i \in 1 .. Len(x) : i \notin J => core[x[i]] = <<>>
    BY <1>0, <1>15, CoreBlank
  <2> QED
    BY ONLY <1>0, <1>7, <2>1, SpelledSelected
<1> HIDE DEF y
<1>10. z = [i \in DOMAIN y |-> z[i]]
  OBVIOUS
<1>11. ASSUME NEW i \in 1 .. Len(y) PROVE z[i] \in Text /\ core[z[i]] = core[y[i]]
  <2>1. y[i] \in Text /\ i \in DOMAIN y
    BY <1>8
  <2>2. z[i] = TrimLines(y[i])
    BY <2>1
  <2> HIDE DEF z
  <2>3. z[i] \in Text
    BY <2>1, <2>2, TrimLinesText
  <2> QED
    BY <1>0, <2>1, <2>2, <2>3, CoreTrimLines
<1> HIDE DEF z
<1>12. z \in Seq(Text) /\ Len(z) = Len(y)
  <2>1. \A i \in 1 .. Len(y) : z[i] \in Text
    BY <1>11
  <2>2. z \in Seq(Text)
    BY ONLY <1>8, <1>10, <2>1, MappedSequence
  <2> QED
    BY ONLY <1>8, <1>10, <2>2, MappedLen
<1>13. Spelled(core, z) = Spelled(core, y)
  <2>1. \A i \in 1 .. Len(z) : core[z[i]] = core[y[i]]
    BY <1>11, <1>12
  <2> QED
    BY ONLY <1>8, <1>12, <2>1, SpelledSame
<1>16. Core(Join(z, <<NL, NL>>)) = Spelled(core, z)
  BY <1>12, CoreJoin DEF Breaks
<1>17. Spelled(core, x) = Spelled(g, pages)
  <2>1. DOMAIN x = DOMAIN pages
    BY <1>4, <1>7
  <2>2. \A i \in DOMAIN pages : core[x[i]] = g[pages[i]]
    BY <1>4, <1>6
  <2>3. [i \in DOMAIN x |-> core[x[i]]] = [i \in DOMAIN pages |-> g[pages[i]]]
    BY <2>1, <2>2
  <2> QED
    BY <2>3 DEF Spelled
<1>18. Spelled(g, pages) = Spelled(g, v)
  <2>1. \A i \in 1 .. Len(v) : i \notin I => g[v[i]] = <<>>
    <3> SUFFICES ASSUME NEW i \in 1 .. Len(v), i \notin I PROVE g[v[i]] = <<>>
      OBVIOUS
    <3>1. v[i] \in Text /\ IsBlank(v[i])
      BY <1>14
    <3>2. Bare(v[i], h, f) = v[i]
      BY <3>1, BareLines
    <3> QED
      BY <1>0, <3>1, <3>2, CoreBlank
  <2>2. Spelled(g, Selected(v, I)) = Spelled(g, v)
    BY ONLY <1>0, <2>1, v \in Seq(Text), SpelledSelected
  <2> QED
    BY <1>3, <2>2
<1> QED
  BY <1>2, <1>9, <1>13, <1>16, <1>17, <1>18 DEF g

\* StripEdges takes away lines that are there twice, and nothing else.
LEMMA EdgesMasked == ASSUME NEW t \in Text PROVE \E B : EdgeMask(t, B)
<1> DEFINE u == UnixLines(t)
           v == Split(u, FF)
           pages == Pages(u)
           A == RawLines(t)
           h == RepeatedEdge(pages, TRUE)
           f == RepeatedEdge(pages, FALSE)
<1>1. u \in Text /\ Core(u) = Core(t)
  BY UnixLinesText, CoreUnixLines
<1>2. A \in Seq(Text) /\ Core(t) = Spelled(core, A)
  <2>1. Unend(t) \in Text /\ Core(Unend(t)) = Core(t)
    BY CoreUnend
  <2> QED
    BY <2>1, LinesOf, CoreOfLines DEF RawLines
<1>3. CASE StripEdges(u) = u
  <2>1. EdgeMask(t, A)
    BY <1>1, <1>2, <1>3 DEF EdgeMask
  <2> QED
    BY <2>1
<1>4. CASE StripEdges(u) # u
  <2>1. StripEdges(u) = StripPages(pages)
    BY <1>4 DEF StripEdges
  <2>2. StripPages(pages) = Join(Map(TrimLines, PagesWithout(WithInk(v), h, f)), <<NL, NL>>)
    BY DEF StripPages, Pages
  <2>3. v \in Seq(Text)
    BY <1>1, SplitSequence DEF Text
  <2>4. Spelled(linesOf, v) = A
    BY PageLines
  <2>5. (h # <<>> => Twice(h, A)) /\ (f # <<>> => Twice(f, A))
    BY RepeatedTwice
  <2> HIDE DEF v, A, h, f, pages
  <2>6. Core(StripPages(pages)) = Spelled(bared(h, f), v)
    BY <2>2, <2>3, CoreStripPages
  <2>7. PICK B : Masks(B, v, h, f)
    BY <2>3, Masked
  <2>8. Loses(B, A, {h, f} \ {<<>>}) /\ Spelled(core, B) = Spelled(bared(h, f), v)
    BY <2>4, <2>7 DEF Masks
  <2>9. ASSUME NEW i \in 1 .. Len(A), Strip(A[i]) \in {h, f} \ {<<>>} PROVE Twin(A, i)
    <3>1. Twice(Strip(A[i]), A)
      BY <2>5, <2>9
    <3>2. PICK n, m \in 1 .. Len(A) : n # m /\ Strip(A[n]) = Strip(A[i]) /\ Strip(A[m]) = Strip(A[i])
      BY <3>1 DEF Twice
    <3>3. DOMAIN A = 1 .. Len(A)
      BY <1>2
    <3> QED
      BY <3>2, <3>3 DEF Twin
  <2>10. EdgeMask(t, B)
    <3>1. B \in Seq(Text) /\ Len(B) = Len(A) /\ \A i \in 1 .. Len(A) : B[i] = A[i] \/ (B[i] = <<>> /\ Twin(A, i))
      BY <2>8, <2>9 DEF Loses
    <3> QED
      BY <2>1, <2>6, <2>8, <3>1 DEF EdgeMask, A
  <2> QED
    BY <2>10
<1> QED
  BY <1>3, <1>4

\* The words of texts put together.
LEMMA WordsFlatten ==
    ASSUME NEW ts \in Seq(Text)
    PROVE  FlattenSeq(ts) \in Text /\ WordsOf(FlattenSeq(ts)) = Spelled(words, ts)
<1> DEFINE P == {v \in Seq(Text) : FlattenSeq(v) \in Text /\ WordsOf(FlattenSeq(v)) = Spelled(words, v)}
<1>0. words \in [Text -> Seq(Atoms)] /\ \A t \in Text : words[t] = WordsOf(t)
  BY TextsAre
<1>1. <<>> \in P
  <2>1. <<>> \in Text /\ <<>> \in Seq(Atoms) /\ <<>> \in Seq(Text)
    BY SomeTexts DEF Text
  <2>2. FlattenSeq(<<>>) = <<>>
    BY ONLY <2>1, FlattenFew
  <2>3. Spelled(words, <<>>) = <<>>
    BY ONLY <1>0, SpelledNone
  <2> QED
    BY <2>1, <2>2, <2>3, WordsFew
<1>2. ASSUME NEW v \in Seq(Text), NEW x \in Text, v \in P PROVE Append(v, x) \in P
  <2>1. FlattenSeq(v) \in Text /\ WordsOf(FlattenSeq(v)) = Spelled(words, v)
    BY <1>2
  <2>2. v \in Seq(Seq(Atoms)) /\ x \in Seq(Atoms)
    BY DEF Text
  <2>3. FlattenSeq(Append(v, x)) = FlattenSeq(v) \o x
    BY ONLY <2>2, FlattenAppend
  <2>4. Spelled(words, Append(v, x)) = Spelled(words, v) \o words[x]
    BY ONLY <1>0, v \in Seq(Text), x \in Text, SpelledAppend
  <2> DEFINE t == FlattenSeq(v)
  <2>5. t \in Text /\ WordsOf(t \o x) = WordsOf(t) \o WordsOf(x)
    BY <2>1, WordsConcat
  <2>6. t \o x \in Text
    BY <2>5 DEF Text
  <2>7. Append(v, x) \in Seq(Text)
    OBVIOUS
  <2> HIDE DEF t
  <2> QED
    BY <1>0, <2>1, <2>3, <2>4, <2>5, <2>6, <2>7 DEF t
<1> HIDE DEF P
<1>3. ts \in P
  BY ONLY <1>1, <1>2, ts \in Seq(Text), SeqInduction
<1> QED
  BY <1>3 DEF P

\* Lines without a word, as many as there are in s.
LEMMA Blanked ==
    ASSUME NEW s \in Seq(Text)
    PROVE  \E low \in Seq(Text) : Thins(low, s) /\ (\A i \in 1 .. Len(s) : low[i] = <<>>) /\ Spelled(words, low) = <<>>
<1> DEFINE low == [i \in DOMAIN s |-> <<>>]
<1>0. words \in [Text -> Seq(Atoms)] /\ words[<<>>] = <<>>
  BY TextsAre, WordsFew
<1>1. low = [i \in DOMAIN s |-> low[i]] /\ \A i \in 1 .. Len(s) : low[i] \in Text /\ low[i] = <<>>
  BY WordsFew DEF Text
<1> HIDE DEF low
<1>2. low \in Seq(Text)
  <2>1. \A i \in 1 .. Len(s) : low[i] \in Text
    BY <1>1
  <2>2. low = [i \in DOMAIN s |-> low[i]]
    BY <1>1
  <2> QED
    BY ONLY s \in Seq(Text), <2>1, <2>2, MappedSequence
<1>3. Len(low) = Len(s)
  BY <1>1, <1>2, MappedLen
<1>4. Thins(low, s)
  BY <1>1, <1>3 DEF Thins
<1>5. Spelled(words, low) = <<>>
  <2>1. \A i \in 1 .. Len(low) : words[low[i]] = <<>>
    BY <1>0, <1>1, <1>3
  <2> QED
    BY ONLY <1>0, <1>2, <2>1, SpelledVoid
<1> QED
  BY <1>1, <1>2, <1>3, <1>4, <1>5

\* The words of prose as its lines have them once the edges of the pages are gone.
LEMMA WordsOfMask ==
    ASSUME NEW t \in Text, NEW B, EdgeMask(t, B)
    PROVE  LET M == Lines(Listed(StripEdges(UnixLines(t))))
           IN  M \in Seq(Text) /\ Spelled(words, M) = Spelled(words, B)
<1> DEFINE s == StripEdges(UnixLines(t))
           p == Listed(s)
           M == Lines(p)
<1>1. s \in Text
  BY UnixLinesText, StripEdgesText
<1>2. p \in Text /\ \E u : Sim(u, Core(s), Core(p))
  BY <1>1, ListedUnits
<1>3. Core(s) = Spelled(core, B) /\ B \in Seq(Text)
  BY DEF EdgeMask
<1> HIDE DEF s, p
<1>4. WordsOf(Core(s)) = WordsOf(Core(p))
  BY <1>2, WordsSim
<1>5. WordsOf(Core(p)) = WordsOf(p)
  BY <1>2, CoreWords
<1>6. M \in Seq(Text) /\ FromLines(M) = p
  BY <1>2, LinesOf
<1> HIDE DEF M
<1>7. WordsOf(p) = Spelled(words, M)
  BY <1>6, WordsOfLines
<1>8. WordsOf(Core(s)) = Spelled(words, B)
  BY <1>3, WordsOfCores
<1> QED
  BY <1>4, <1>5, <1>6, <1>7, <1>8 DEF M, p, s

\* The cleaning of prose invents no word.
LEMMA ProseInventsNothing == ASSUME NEW t \in Text PROVE Sub(WordsOf(CleanProse(t)), WordsOf(t))
<1> DEFINE M == Lines(Listed(StripEdges(UnixLines(t))))
           A == RawLines(t)
<1>1. PICK B : EdgeMask(t, B)
  BY EdgesMasked
<1>2. M \in Seq(Text) /\ Spelled(words, M) = Spelled(words, B)
  BY <1>1, WordsOfMask
<1>3. WordsOf(CleanProse(t)) = Spelled(words, NormalizeTocLines(M))
  BY WordsOfProse
<1>5. A \in Seq(Text) /\ B \in Seq(Text) /\ Thins(B, A)
  <2>1. Unend(t) \in Text
    BY CoreUnend
  <2>2. A \in Seq(Text)
    BY <2>1, LinesOf DEF RawLines
  <2>3. \A i \in 1 .. Len(A) : i \in 1 .. Len(B)
    BY <1>1 DEF EdgeMask
  <2> QED
    BY <1>1, <2>2, <2>3 DEF EdgeMask, Thins
<1> HIDE DEF M
<1>4. Sub(Spelled(words, NormalizeTocLines(M)), Spelled(words, M)) /\ NormalizeTocLines(M) \in Seq(Text)
  <2>1. PICK low \in Seq(Text) : Thins(low, M) /\ \A i \in 1 .. Len(M) : low[i] = <<>>
    BY <1>2, Blanked
  <2>2. \A j \in TocHeaders(M) : low[j] = <<>>
    <3>1. \A j \in TocHeaders(M) : j \in 1 .. Len(M) - 1
      BY DEF TocHeaders, HeaderRows
    <3>2. \A j \in 1 .. Len(M) - 1 : j \in 1 .. Len(M)
      BY <1>2
    <3> QED
      BY <2>1, <3>1, <3>2
  <2> QED
    BY <1>2, <2>1, <2>2, WordsToc DEF Amid
<1>6. Sub(Spelled(words, B), Spelled(words, A))
  BY <1>5, ThinsSub
<1>7. Spelled(words, A) = WordsOf(t)
  <2>1. Unend(t) \in Text /\ Core(Unend(t)) = Core(t)
    BY CoreUnend
  <2>2. FromLines(A) = Unend(t)
    BY <2>1, LinesOf DEF RawLines
  <2>3. WordsOf(Unend(t)) = Spelled(words, A)
    BY <1>5, <2>2, WordsOfLines
  <2>4. WordsOf(Core(t)) = WordsOf(t) /\ WordsOf(Core(Unend(t))) = WordsOf(Unend(t))
    BY <2>1, CoreWords
  <2> QED
    BY <2>1, <2>3, <2>4
<1> DEFINE n == Spelled(words, NormalizeTocLines(M))
           b == Spelled(words, B)
           a == Spelled(words, A)
<1>8. n \in Seq(Atoms) /\ b \in Seq(Atoms) /\ a \in Seq(Atoms)
  BY <1>4, <1>5, WordsOfSeq
<1>9. Sub(n, b) /\ Sub(b, a)
  BY <1>2, <1>4, <1>6
<1> HIDE DEF n, b, a
<1>10. Sub(n, a)
  BY ONLY <1>8, <1>9, SubTrans
<1> QED
  BY <1>3, <1>7, <1>10 DEF n, a

\* What the cleaning does to each run of prose lines, it does to the document.
LEMMA BlocksAmid ==
    ASSUME NEW text \in Text, NEW low \in Seq(Text), Thins(low, KeptLines(text)),
           \A i \in 1 .. Len(KeptLines(text)) : \A e \in i .. Len(KeptLines(text)) :
              (\A k \in i .. e : ~OpensFence(KeptLines(text)[k])) =>
                 Amid(Slice(low, i - 1, e), WordsOf(CleanProse(FlattenSeq(Slice(KeptLines(text), i - 1, e)))),
                      Slice(KeptLines(text), i - 1, e))
    PROVE  Amid(low, WordsOf(CleanMarkdown(text)), KeptLines(text))
<1> DEFINE lines == KeptLines(text)
           n == Len(lines)
           cb == [x \in Blocks |-> CleanBlock(x)]
           cw == [x \in Blocks |-> WordsOf(CleanBlock(x))]
<1>1. lines \in Seq(Text) /\ n \in Nat
  <2>1. lines \in Seq(Text)
    BY LinesTile DEF Text
  <2> HIDE DEF lines
  <2> QED
    BY <2>1
<1>2. PICK f, end : FenceScan(f, end, lines, n) /\ FencedBlocks(text) = f[1]
  BY FencedSteps
<1>3. \A x \in Blocks : CleanBlock(x) \in Text
  <2>1. ASSUME NEW x \in Blocks PROVE CleanBlock(x) \in Text
    <3>1. x.text \in Text
      BY DEF Blocks
    <3> QED
      BY <3>1, CleanProseText DEF CleanBlock
  <2> QED
    BY <2>1
<1>4. /\ cb \in [Blocks -> Text] /\ cw \in [Blocks -> Seq(Atoms)]
      /\ \A x \in Blocks : cb[x] = CleanBlock(x) /\ cw[x] = WordsOf(CleanBlock(x)) /\ cw[x] = words[cb[x]]
  <2>1. \A t \in Text : WordsOf(t) \in Text /\ words[t] = WordsOf(t)
    BY WordsConcat, TextsAre
  <2> QED
    BY <1>3, <2>1 DEF Text
<1>5. f[1] \in Seq(Blocks)
  BY <1>1, <1>2 DEF FenceScan
<1>6. WordsOf(CleanMarkdown(text)) = Spelled(cw, f[1])
  <2> DEFINE g == [i \in DOMAIN f[1] |-> cb[f[1][i]]]
             t == FlattenSeq(g)
  <2>1. \A i \in 1 .. Len(f[1]) : f[1][i] \in Blocks
    BY <1>5
  <2>2. FlatMap(CleanBlock, FencedBlocks(text)) = t
    <3>1. \A i \in DOMAIN f[1] : cb[f[1][i]] = CleanBlock(f[1][i])
      BY <1>4, <1>5, <2>1
    <3> HIDE DEF cb
    <3> QED
      BY <1>2, <3>1 DEF FlatMap, Map
  <2>3. g \in Seq(Text) /\ Len(g) = Len(f[1])
    <3>1. \A i \in 1 .. Len(f[1]) : g[i] \in Text
      BY <1>4, <1>5, <2>1
    <3>2. g = [i \in DOMAIN f[1] |-> g[i]]
      OBVIOUS
    <3> HIDE DEF g
    <3>3. g \in Seq(Text)
      BY ONLY <1>5, <3>1, <3>2, MappedSequence
    <3> QED
      BY ONLY <1>5, <3>2, <3>3, MappedLen
  <2>4. Spelled(words, g) = Spelled(cw, f[1])
    <3>1. DOMAIN g = DOMAIN f[1] /\ \A i \in DOMAIN f[1] : words[g[i]] = cw[f[1][i]]
      BY <1>4, <1>5, <2>1
    <3> HIDE DEF g, cb, cw
    <3>2. [i \in DOMAIN g |-> words[g[i]]] = [i \in DOMAIN f[1] |-> cw[f[1][i]]]
      BY <3>1
    <3> QED
      BY <3>2 DEF Spelled
  <2> HIDE DEF g, cb, cw
  <2>5. t \in Text /\ WordsOf(t) = Spelled(words, g)
    BY <2>3, WordsFlatten
  <2>6. CleanMarkdown(text) = Strip(t) \o <<NL>>
    BY <2>2 DEF CleanMarkdown
  <2> HIDE DEF t
  <2>7. WordsOf(Strip(t)) = WordsOf(t) /\ Strip(t) \in Text
    BY <2>5, WordsStrip
  <2>8. <<NL>> \in Text /\ WordsOf(<<NL>>) = <<>>
    <3>1. NL \in Atoms
      BY UnitsAre
    <3> QED
      <4>1. <<NL>> \in Text
        BY <3>1 DEF Text
      <4>2. WordsOf(<<NL>>) = word[NL] /\ word[NL] = <<>>
        BY <3>1, WordsFew, NoWords
      <4> QED
        BY <4>1, <4>2
  <2> DEFINE w == WordsOf(Strip(t))
  <2>9. WordsOf(Strip(t) \o <<NL>>) = w \o <<>> /\ w \in Text
    BY <2>7, <2>8, WordsConcat
  <2> HIDE DEF w
  <2>10. w \o <<>> = w
    BY <2>9 DEF Text
  <2> QED
    BY <2>4, <2>5, <2>6, <2>7, <2>9, <2>10 DEF w
<1>7. /\ \A i \in 1 .. n : \A e \in i .. n : (\A k \in i .. e : ~OpensFence(lines[k])) =>
                 Amid(Slice(low, i - 1, e), WordsOf(CleanProse(FlattenSeq(Slice(lines, i - 1, e)))),
                      Slice(lines, i - 1, e))
      /\ Thins(low, lines)
  OBVIOUS
<1> HIDE DEF lines, n, cb, cw
<1>8. Len(low) = n /\ Len(lines) = n
  BY <1>7 DEF Thins, n
<1> DEFINE S == {i \in Int : Amid(Slice(low, i - 1, n), Spelled(cw, f[i]), Slice(lines, i - 1, n))}
           m == n + 1
<1>9. ASSUME NEW i \in 1 .. m, \A k \in i + 1 .. m : k \in S PROVE i \in S
  <2>1. CASE i = m
    <3>1. Slice(low, i - 1, n) = <<>> /\ Slice(lines, i - 1, n) = <<>>
      BY <1>1, <2>1 DEF Slice
    <3>2. f[i] = <<>>
      BY <1>2, <2>1 DEF FenceScan
    <3>3. Thins(<<>>, <<>>) /\ <<>> \in Seq(Text)
      BY DEF Thins
    <3>4. Amid(<<>>, Spelled(words, <<>>), <<>>)
      BY ONLY <3>3, AmidSame
    <3>5. Spelled(words, <<>>) = Spelled(cw, <<>>)
      BY DEF Spelled
    <3> QED
      BY <3>1, <3>2, <3>4, <3>5
  <2>2. CASE i # m
    <3> DEFINE e == end[i]
               k == e + 1
               x == [fenced |-> OpensFence(lines[i]), text |-> FlattenSeq(Slice(lines, i - 1, e))]
               a == Slice(low, i - 1, e)
               b == Slice(low, e, n)
               c == Slice(lines, i - 1, e)
               d == Slice(lines, e, n)
               p == cw[x]
               q == Spelled(cw, f[k])
    <3>1. i \in 1 .. n /\ i - 1 \in Nat /\ (i - 1) + 1 = i
      BY <1>1, <2>2
    <3>2. /\ e \in i .. n /\ f[i] = <<x>> \o f[k]
          /\ ~OpensFence(lines[i]) => \A j \in i .. e : ~OpensFence(lines[j])
      BY <1>2, <3>1 DEF FenceScan, Slice
    <3> HIDE DEF e
    <3>3. i - 1 \in Nat /\ e \in Nat /\ i - 1 <= e /\ e <= n /\ n \in Nat /\ i <= e
      BY <1>1, <3>1, <3>2
    <3>4. k \in i + 1 .. m /\ k \in 1 .. n + 1 /\ k - 1 = e
      BY <3>1, <3>3
    <3>5. a \in Seq(Text) /\ c \in Seq(Text) /\ Thins(a, c)
      BY <1>1, <1>7, <1>8, <3>3, ThinsSlice
    <3>6. b \in Seq(Text) /\ d \in Seq(Text)
      <4>1. n <= Len(lines) /\ e \in Nat /\ n \in Nat /\ e <= n
        BY <1>8, <3>3
      <4> QED
        BY ONLY <1>1, <1>7, <4>1, low \in Seq(Text), ThinsSlice
    <3>7. a \o b = Slice(low, i - 1, n)
      BY <1>8, <3>3, SliceConcat
    <3>8. c \o d = Slice(lines, i - 1, n)
      BY <1>1, <1>8, <3>3, SliceConcat
    <3>9. Amid(b, q, d)
      <4>1. k \in S
        BY <1>9, <3>4
      <4> QED
        BY <3>4, <4>1
    <3>10. f[k] \in Seq(Blocks)
      BY <1>2, <3>4 DEF FenceScan
    <3>11. FlattenSeq(c) \in Text /\ WordsOf(FlattenSeq(c)) = Spelled(words, c)
      <4> HIDE DEF c
      <4> QED
        BY <3>5, WordsFlatten
    <3>12. x \in Blocks
      <4>1. OpensFence(lines[i]) \in BOOLEAN
        BY DEF OpensFence, StartsWith
      <4> QED
        BY <3>11, <4>1 DEF Blocks
    <3>17. x.text = FlattenSeq(c) /\ x.fenced = OpensFence(lines[i])
      OBVIOUS
    <3>18. Amid(a, WordsOf(CleanProse(FlattenSeq(c))), c) \/ x.fenced
      BY <1>7, <3>1, <3>2, <3>3
    <3> HIDE DEF k, x, a, b, c, d, S
    <3>13. Amid(a, p, c)
      <4>1. p = WordsOf(CleanBlock(x))
        BY <1>4, <3>12
      <4>2. CASE x.fenced
        <5>1. p = Spelled(words, c)
          BY <3>11, <3>17, <4>1, <4>2 DEF CleanBlock
        <5> QED
          BY <3>5, <5>1, AmidSame
      <4>3. CASE ~ x.fenced
        BY <3>17, <3>18, <4>1, <4>3 DEF CleanBlock
      <4> QED
        BY <4>2, <4>3
    <3>14. p \in Seq(Atoms) /\ q \in Seq(Atoms)
      <4>1. q \in Seq(Atoms)
        BY ONLY <1>4, <3>10, SpelledSeq
      <4> QED
        BY <1>4, <3>12, <4>1
    <3>15. Spelled(cw, f[i]) = p \o q
      <4>1. <<x>> \in Seq(Blocks)
        BY <3>12
      <4>4. cw \in [Blocks -> Seq(Atoms)]
        BY <1>4
      <4>5. Law(cw, Blocks)
        BY ONLY <4>4, SpelledLaw
      <4>2. Spelled(cw, <<x>> \o f[k]) = Spelled(cw, <<x>>) \o Spelled(cw, f[k])
        BY ONLY <3>10, <4>1, <4>5 DEF Law
      <4>3. Spelled(cw, <<x>>) = cw[x]
        BY ONLY <1>4, <3>12, SpelledOne
      <4> QED
        BY <3>2, <4>2, <4>3
    <3> HIDE DEF p, q
    <3>16. Amid(a \o b, p \o q, c \o d)
      BY <3>5, <3>6, <3>9, <3>13, <3>14, AmidConcat
    <3>19. Amid(Slice(low, i - 1, n), Spelled(cw, f[i]), Slice(lines, i - 1, n)) /\ i \in Int
      BY ONLY <3>1, <3>7, <3>8, <3>15, <3>16
    <3> QED
      BY ONLY <3>19 DEF S
  <2> QED
    BY <2>1, <2>2
<1> HIDE DEF S
<1>10. 1 \in S
  <2>1. 1 \in Int /\ m \in Int /\ 1 \in 1 .. m
    BY <1>1
  <2> HIDE DEF m
  <2>2. \A i \in 1 .. m : i \in S
    BY ONLY <1>9, <2>1, Backwards
  <2> QED
    BY <2>1, <2>2
<1>11. Slice(low, 1 - 1, n) = low /\ Slice(lines, 1 - 1, n) = lines
  BY <1>1, <1>8 DEF Slice
<1> QED
  BY <1>6, <1>10, <1>11 DEF S, lines

\* The letters once the line ends of other systems are gone, and once the page breaks are.
Unix  == Atoms \ {CRLF}
Plain == Atoms \ {CRLF, FF}

\* The letters left once the line ends are newlines, and once the pages are broken.
LEMMA PlainLetters ==
    /\ Letters(Unix) /\ Letters(Plain) /\ Plain = Unix \ {FF} /\ FF \in Unix /\ Unix \subseteq Atoms /\ Plain \subseteq Atoms
    /\ Plain \cap LineEnds = {NL} /\ CRLF # NL
<1>1. /\ NL \in Atoms /\ SP \in Atoms /\ "-" \in Atoms /\ JoinedWord \in Atoms /\ FF \in Atoms /\ CRLF \in Atoms
      /\ LineEnds = {NL, CRLF, FF}
  BY DEF NL, CRLF, FF, SP, JoinedWord, Atoms, Whitespace, Words, ItemMarkers, Bullets, LineEnds
<1>2. CRLF \notin {NL, SP, "-", JoinedWord, FF} /\ FF \notin {NL, SP, "-", JoinedWord}
  BY DEF NL, CRLF, FF, SP, JoinedWord
<1> QED
  BY <1>1, <1>2 DEF Unix, Plain, Letters

\* Prose has no line end but NL behind the list passes.
LEMMA ListedPlain ==
    ASSUME NEW t \in Text
    PROVE  Listed(StripEdges(UnixLines(t))) \in TextIn(Plain)
<1> DEFINE r == UnixLines(t)
           s == StripEdges(r)
           v == Split(s, FF)
           b == BreakPages(s)
<1>1. r \in TextIn(Unix)
  <2>1. t \in Seq(Atoms) /\ Len(t) \in Nat /\ DOMAIN t = 1 .. Len(t)
    BY DEF Text
  <2>2. NL \in Unix
    BY PlainLetters DEF Letters
  <2>3. ASSUME NEW i \in 1 .. Len(t) PROVE (IF t[i] = CRLF THEN NL ELSE t[i]) \in Unix
    BY <2>1, <2>2 DEF Unix
  <2>4. r \in [1 .. Len(t) -> Unix]
    BY <2>1, <2>3 DEF UnixLines
  <2> HIDE DEF r
  <2> QED
    BY <2>1, <2>4 DEF TextIn
<1> HIDE DEF r
<1>2. s \in TextIn(Unix)
  BY <1>1, PlainLetters, StripEdgesIn
<1> HIDE DEF s
<1>3. b \in TextIn(Plain)
  <2>1. v \in Seq(Seq(Unix)) /\ \A i \in 1 .. Len(v) : Free(v[i], FF)
    <3>1. s \in Seq(Unix)
      BY <1>2 DEF TextIn
    <3> QED
      BY <3>1, SplitSequence, SplitFree
  <2>2. b = Join(v, <<NL, NL>>)
    BY DEF BreakPages
  <2> HIDE DEF v
  <2>3. v \in Seq(Seq(Plain))
    <3>1. ASSUME NEW i \in 1 .. Len(v) PROVE v[i] \in Seq(Plain)
      <4> DEFINE x == v[i]
      <4>1. x \in Seq(Unix) /\ \A k \in 1 .. Len(x) : x[k] # FF
        BY <2>1 DEF Free
      <4> HIDE DEF x
      <4>2. \A k \in 1 .. Len(x) : x[k] \in Plain
        BY <4>1, PlainLetters
      <4>3. x \in Seq(Plain)
        BY <4>1, <4>2
      <4> QED
        BY <4>3 DEF x
    <3> QED
      BY <2>1, <3>1
  <2>4. <<NL, NL>> \in Seq(Plain)
    BY PlainLetters, SomeIn DEF TextIn
  <2>5. Join(v, <<NL, NL>>) \in Seq(Plain)
    BY ONLY <2>3, <2>4, JoinSequence
  <2> QED
    BY <2>2, <2>5 DEF TextIn
<1> HIDE DEF b
<1>4. Letters(Plain)
  BY PlainLetters
<1>5. StripPageNumbers(b) \in TextIn(Plain)
  BY <1>3, <1>4, StripPageNumbersIn
<1>6. CleanLines(StripPageNumbers(b)) \in TextIn(Plain)
  <2>1. NormalizeSpaces(StripPageNumbers(b)) \in TextIn(Plain)
    BY <1>4, <1>5, NormalizeSpacesIn
  <2>2. Dehyphenate(NormalizeSpaces(StripPageNumbers(b))) \in TextIn(Plain)
    BY <1>4, <2>1, DehyphenateIn
  <2>3. SpaceHeadings(Dehyphenate(NormalizeSpaces(StripPageNumbers(b)))) \in TextIn(Plain)
    BY <1>4, <2>2, SpaceHeadingsIn
  <2> QED
    BY <2>3 DEF CleanLines
<1> DEFINE c == CleanLines(StripPageNumbers(b))
<1>7. c \in TextIn(Plain)
  BY <1>6
<1> HIDE DEF c
<1>8. CleanLists(c) \in TextIn(Plain)
  <2>1. NormalizeLists(c) \in TextIn(Plain)
    BY <1>4, <1>7, NormalizeListsIn
  <2>2. RepairLists(NormalizeLists(c)) \in TextIn(Plain)
    BY <1>4, <2>1, RepairListsIn
  <2> QED
    BY <2>2 DEF CleanLists
<1> QED
  BY <1>8 DEF c, b, s, r, Listed

\* A line without a line end in it.
Flat(line) == \A i \in 1 .. Len(line) : line[i] \notin LineEnds
FlatLines(ls) == ls \in Seq(Text) /\ \A i \in 1 .. Len(ls) : Flat(ls[i])

\* The lines of a plain text have none.
LEMMA PlainLines == ASSUME NEW t \in TextIn(Plain) PROVE FlatLines(Lines(t))
<1>1. t \in Seq(Plain) /\ t \in Text
  <2>1. t \in Seq(Plain)
    BY DEF TextIn
  <2>2. t \in Seq(Atoms)
    BY <2>1, PlainLetters
  <2> QED
    BY <2>1, <2>2 DEF Text
<1> DEFINE v == Lines(t)
<1>2. v \in Seq(Text) /\ \A i \in 1 .. Len(v) : Free(v[i], NL)
  BY <1>1, LinesOf
<1>3. v \in Seq(Seq(Plain))
  BY <1>1, SplitSequence DEF Lines
<1> HIDE DEF v
<1>4. ASSUME NEW i \in 1 .. Len(v) PROVE Flat(v[i])
  <2> DEFINE x == v[i]
  <2>1. x \in Seq(Plain) /\ \A k \in 1 .. Len(x) : x[k] # NL
    BY <1>2, <1>3 DEF Free
  <2> HIDE DEF x
  <2>2. \A k \in 1 .. Len(x) : x[k] \in Plain
    BY <2>1
  <2>3. \A k \in 1 .. Len(x) : x[k] \notin LineEnds
    BY <2>1, <2>2, PlainLetters
  <2> QED
    BY <2>3 DEF Flat, x
<1> QED
  BY <1>2, <1>4 DEF FlatLines, v

\* The lines a text is split into at any line end hold none.
LEMMA RawFlat == ASSUME NEW t \in Text PROVE FlatLines(RawLines(t))
<1>1. Unend(t) \in TextIn(Plain)
  <2>1. t \in Seq(Atoms) /\ Len(t) \in Nat /\ DOMAIN t = 1 .. Len(t)
    BY DEF Text
  <2>2. NL \in Plain /\ \A x \in Atoms \ LineEnds : x \in Plain
    BY PlainLetters DEF Letters, Plain, LineEnds
  <2>3. ASSUME NEW i \in 1 .. Len(t) PROVE (IF t[i] \in LineEnds THEN NL ELSE t[i]) \in Plain
    BY <2>1, <2>2
  <2> DEFINE r == Unend(t)
  <2>4. r \in [1 .. Len(t) -> Plain]
    BY <2>1, <2>3 DEF Unend
  <2> HIDE DEF r
  <2>5. r \in TextIn(Plain)
    BY <2>1, <2>4 DEF TextIn
  <2> QED
    BY <2>5 DEF r
<1> QED
  BY <1>1, PlainLines DEF RawLines

\* What a flat line comes to: nothing, or what it says and a line end.
LEMMA CoreFlat ==
    ASSUME NEW line \in Text, Flat(line)
    PROVE  /\ Gist(line) \in Text /\ (\A i \in 1 .. Len(Gist(line)) : Gist(line)[i] \notin Noise)
           /\ Core(line) = IF Gist(line) = <<>> THEN <<>> ELSE Append(Gist(line), NL)
<1> DEFINE g == Gist(line)
<1>1. From(<<>>, line) = g /\ g \in Text
  BY FromLine DEF Flat
<1>2. Core(line) = Close(g)
  BY <1>1 DEF Core
<1>3. \A i \in 1 .. Len(g) : g[i] \notin Noise
  <2> DEFINE P == {s \in Text : \A i \in 1 .. Len(Spelled(ink, s)) : Spelled(ink, s)[i] \notin Noise}
  <2>0. ink \in [Atoms -> Seq(Atoms)] /\ \A x \in Atoms : ink[x] = IF x \in Noise THEN <<>> ELSE <<x>>
    BY LettersAre DEF ink
  <2>1. <<>> \in P
    <3>1. Spelled(ink, <<>>) = <<>>
      BY ONLY <2>0, SpelledNone
    <3> QED
      BY <3>1, SomeTexts
  <2>2. ASSUME NEW s \in Text, NEW x \in Atoms, s \in P PROVE Append(s, x) \in P
    <3> DEFINE w == Spelled(ink, s)
    <3>1. Spelled(ink, Append(s, x)) = w \o ink[x] /\ w \in Seq(Atoms)
      BY <2>0, SpelledAppend, SpelledSeq DEF Text
    <3>2. \A i \in 1 .. Len(w) : w[i] \notin Noise
      BY <2>2
    <3>3. Append(s, x) \in Text
      BY DEF Text
    <3> HIDE DEF w
    <3>4. CASE x \in Noise
      <4>1. w \o ink[x] = w
        BY <2>0, <3>1, <3>4
      <4> QED
        BY <3>1, <3>2, <3>3, <4>1
    <3>5. CASE x \notin Noise
      <4>1. ink[x] = <<x>>
        BY <2>0, <3>5
      <4> DEFINE z == w \o <<x>>
      <4>2. Len(z) = Len(w) + 1 /\ z[Len(w) + 1] = x /\ (\A i \in 1 .. Len(w) : z[i] = w[i]) /\ Len(w) \in Nat
        BY <3>1
      <4>3. Spelled(ink, Append(s, x)) = z
        BY <3>1, <4>1
      <4> HIDE DEF z
      <4>4. \A i \in 1 .. Len(z) : i \in 1 .. Len(w) \/ i = Len(w) + 1
        BY <4>2
      <4>5. \A i \in 1 .. Len(z) : z[i] \notin Noise
        BY <3>2, <3>5, <4>2, <4>4
      <4> QED
        BY <3>3, <4>3, <4>5
    <3> QED
      BY <3>4, <3>5
  <2> HIDE DEF P
  <2>3. line \in P
    BY ONLY <2>1, <2>2, line \in Text, TextInduction
  <2> QED
    BY <2>3, GistIs DEF P
<1>4. g # <<>> => g[Len(g)] # NL
  <2>1. g # <<>> => Len(g) \in 1 .. Len(g)
    BY <1>1 DEF Text
  <2>2. NL \in Noise
    BY LettersAre
  <2> QED
    BY <1>3, <2>1, <2>2
<1> HIDE DEF g
<1> QED
  BY <1>1, <1>2, <1>3, <1>4 DEF Close, g

-----------------------------------------------------------------------------
(* The lines of prose, and the lines they become.                           *)

\* Two ways to put a text together from two parts.
Put(a, b, c, d)      == a \o b = c \o d
Ahead(a, b, c, d, T) == \E e \in Seq(T) : c = a \o e /\ b = e \o d
Meets(a, b, c, d, T) == Ahead(a, b, c, d, T) \/ Ahead(c, d, a, b, T)

\* A sequence cut in two is its halves side by side.
LEMMA Halves ==
    ASSUME NEW T, NEW s \in Seq(T), NEW n \in 0 .. Len(s)
    PROVE  /\ Slice(s, 0, n) \in Seq(T) /\ Slice(s, n, Len(s)) \in Seq(T)
           /\ Len(Slice(s, 0, n)) = n
           /\ s = Slice(s, 0, n) \o Slice(s, n, Len(s))
<1> DEFINE N == Len(s)
<1>1. n \in Nat /\ n <= N /\ N \in Nat /\ 0 \in Nat /\ 0 <= n /\ N <= N /\ n - 0 = n
  OBVIOUS
<1>2. Slice(s, 0, n) \in Seq(T) /\ Len(Slice(s, 0, n)) = n - 0
  BY ONLY <1>1, s \in Seq(T), SliceOf DEF N
<1>3. Slice(s, n, N) \in Seq(T)
  BY ONLY <1>1, s \in Seq(T), SliceOf DEF N
<1>4. Slice(s, 0, n) \o Slice(s, n, N) = Slice(s, 0, N)
  BY ONLY <1>1, s \in Seq(T), SliceConcat DEF N
<1>5. Slice(s, 0, N) = s
  BY DEF Slice
<1> QED
  BY <1>1, <1>2, <1>3, <1>4, <1>5

\* Two equal concatenations whose first parts are as long have equal parts; else one first part is
\* ahead of the other.
LEMMA Cancel ==
    ASSUME NEW T, NEW a \in Seq(T), NEW b \in Seq(T), NEW c \in Seq(T), NEW d \in Seq(T), Put(a, b, c, d)
    PROVE  /\ Len(a) = Len(c) => a = c /\ b = d
           /\ Len(a) <= Len(c) => Ahead(a, b, c, d, T)
<1>0. a \o b = c \o d
  BY DEF Put
<1>1. ASSUME Len(a) <= Len(c) PROVE \E e \in Seq(T) : c = a \o e /\ b = e \o d
  <2> DEFINE n == Len(a)
             x == Slice(c, 0, n)
             e == Slice(c, n, Len(c))
  <2>1. x \in Seq(T) /\ e \in Seq(T) /\ Len(x) = n /\ c = x \o e
    <3>1. n \in 0 .. Len(c)
      BY <1>1
    <3> HIDE DEF n
    <3> QED
      BY <3>1, Halves
  <2> HIDE DEF x, e
  <2>6. x \in Seq(T) /\ e \in Seq(T)
    BY <2>1
  <2>5. (x \o e) \o d = x \o (e \o d)
    BY ONLY SMTT(40), <2>6, d \in Seq(T), Assoc
  <2>2. c \o d = x \o (e \o d)
    BY ONLY <2>1, <2>5
  <2> DEFINE f == e \o d
  <2>3. f \in Seq(T) /\ a \o b = x \o f /\ Len(x) = Len(a)
    BY <1>0, <2>1, <2>2
  <2> HIDE DEF f
  <2>4. a = x /\ b = f
    <3>1. Len(a \o b) = Len(a) + Len(b) /\ Len(x \o f) = Len(x) + Len(f)
      BY <2>1, <2>3
    <3>2. Len(b) = Len(f)
      BY <2>1, <2>3, <3>1
    <3>3. Beside(a \o b, a, b) /\ Beside(x \o f, x, f)
      <4>1. f \in Seq(T) /\ x \in Seq(T)
        BY ONLY <2>1, <2>3
      <4> QED
        BY ONLY <4>1, a \in Seq(T), b \in Seq(T), ConcatAt
    <3>5. \A i \in 1 .. Len(a) : a[i] = x[i]
      <4> DEFINE y == a \o b
      <4>1. Beside(y, a, b) /\ Beside(y, x, f) /\ Len(x) = Len(a)
        BY ONLY <2>3, <3>3
      <4> HIDE DEF y
      <4> QED
        BY ONLY <4>1 DEF Beside
    <3>6. \A i \in 1 .. Len(b) : b[i] = f[i]
      <4> DEFINE y == a \o b
      <4>1. Beside(y, a, b) /\ Beside(y, x, f) /\ Len(x) = Len(a)
        BY ONLY <2>3, <3>3
      <4> HIDE DEF y
      <4> QED
        BY ONLY <3>2, <4>1 DEF Beside
    <3>7. a = x
      BY ONLY <2>1, <2>3, <3>5, a \in Seq(T), SameSequence
    <3>8. b = f
      BY ONLY <2>3, <3>2, <3>6, b \in Seq(T), SameSequence
    <3> QED
      BY <3>7, <3>8
  <2> QED
    BY <2>1, <2>4 DEF f
<1>2. ASSUME Len(a) = Len(c) PROVE a = c /\ b = d
  <2>0. Len(a) <= Len(c)
    BY <1>2
  <2>1. PICK e \in Seq(T) : c = a \o e /\ b = e \o d
    BY <1>1, <2>0
  <2>2. Len(e) = 0
    BY <1>2, <2>1
  <2>3. e = <<>>
    BY <2>2
  <2> QED
    BY <2>1, <2>3
<1> QED
  BY ONLY <1>1, <1>2 DEF Ahead

\* Of two equal concatenations one's first part begins the other's.
LEMMA Meeting ==
    ASSUME NEW T, NEW a \in Seq(T), NEW b \in Seq(T), NEW c \in Seq(T), NEW d \in Seq(T), Put(a, b, c, d)
    PROVE  Meets(a, b, c, d, T)
<1>0. Put(c, d, a, b)
  BY DEF Put
<1>1. CASE Len(a) <= Len(c)
  <2>1. Ahead(a, b, c, d, T)
    BY <1>1, Cancel
  <2> QED
    BY ONLY <2>1 DEF Meets
<1>2. CASE Len(c) <= Len(a)
  <2>1. Ahead(c, d, a, b, T)
    BY <1>0, <1>2, Cancel
  <2> QED
    BY ONLY <2>1 DEF Meets
<1>3. Len(a) \in Nat /\ Len(c) \in Nat
  OBVIOUS
<1> QED
  BY <1>1, <1>2, <1>3

\* A text of units has as many elements as units on its right.
LEMMA RightUnits ==
    ASSUME NEW u \in Seq(Units)
    PROVE  /\ Spelled(right, u) \in Seq(Atoms) /\ Spelled(left, u) \in Seq(Atoms)
           /\ Len(Spelled(right, u)) = Len(u)
<1> DEFINE P == {v \in Seq(Units) : Len(Spelled(right, v)) = Len(v)}
<1>0. right \in [Units -> Seq(Atoms)] /\ left \in [Units -> Seq(Atoms)] /\ \A e \in Units : Len(right[e]) = 1
  <2>1. ASSUME NEW e \in Units PROVE Len(right[e]) = 1
    BY DEF right
  <2> QED
    BY <2>1, UnitsAre
<1>1. <<>> \in P
  <2>1. Spelled(right, <<>>) = <<>>
    BY ONLY <1>0, SpelledNone
  <2> QED
    BY <2>1
<1>2. ASSUME NEW v \in Seq(Units), NEW e \in Units, v \in P PROVE Append(v, e) \in P
  <2> DEFINE w == Spelled(right, v)
  <2>1. Spelled(right, Append(v, e)) = w \o right[e]
    BY UnitsAppend
  <2>2. w \in Seq(Atoms) /\ right[e] \in Seq(Atoms) /\ Len(w) = Len(v)
    BY <1>0, <1>2, SpelledSeq
  <2> DEFINE r == right[e]
  <2>5. r \in Seq(Atoms) /\ Len(r) = 1
    BY <1>0, <2>2
  <2> HIDE DEF w, r
  <2>7. w \in Seq(Atoms)
    BY <2>2
  <2>6. Len(w \o r) = Len(w) + Len(r)
    <3>1. r \in Seq(Atoms)
      BY <2>5
    <3>2. Beside(w \o r, w, r)
      BY ONLY <2>7, <3>1, ConcatAt
    <3> QED
      BY ONLY <3>2 DEF Beside
  <2>3. Len(w \o right[e]) = Len(v) + 1
    BY <2>2, <2>5, <2>6 DEF r
  <2>4. Append(v, e) \in Seq(Units) /\ Len(Append(v, e)) = Len(v) + 1
    OBVIOUS
  <2> QED
    BY <2>1, <2>3, <2>4
<1> HIDE DEF P
<1>3. u \in P
  BY ONLY <1>1, <1>2, u \in Seq(Units), SeqInduction
<1>4. Spelled(right, u) \in Seq(Atoms) /\ Spelled(left, u) \in Seq(Atoms)
  BY <1>0, SpelledSeq
<1> QED
  BY <1>3, <1>4 DEF P

\* Units whose right side ends a line end a line on their left.
LEMMA ClosedUnits ==
    ASSUME NEW u \in Seq(Units), Closed(Spelled(right, u))
    PROVE  Closed(Spelled(left, u))
<1>1. CASE u = <<>>
  <2>1. Spelled(left, <<>>) = <<>>
    BY UnitsAre, SpelledNone
  <2> QED
    BY <1>1, <2>1 DEF Closed
<1>2. CASE u # <<>>
  <2>1. PICK q \in Seq(Units), e \in Units : u = Append(q, e)
    BY <1>2, LastOf
  <2> DEFINE k == Spelled(left, q)
             j == Spelled(right, q)
  <2>2. Spelled(left, u) = k \o left[e] /\ Spelled(right, u) = j \o right[e]
    BY <2>1, UnitsAppend
  <2>3. k \in Seq(Atoms) /\ j \in Seq(Atoms)
    BY RightUnits
  <2> HIDE DEF k, j
  <2>4. \E x \in Atoms : right[e] = <<x>>
    BY UnitsAre DEF right, Units
  <2>5. PICK x \in Atoms : right[e] = <<x>>
    BY <2>4
  <2>6. (j \o <<x>>)[Len(j) + 1] = x /\ Len(j \o <<x>>) = Len(j) + 1 /\ j \o <<x>> # <<>>
    BY <2>3
  <2>7. x = NL
    BY <2>2, <2>5, <2>6 DEF Closed
  <2>8. e = NL
    <3>1. e = "torn" \/ e = "joined" => right[e] = <<JoinedWord>>
      BY UnitsAre
    <3>2. e # "torn" /\ e # "joined" => right[e] = <<e>>
      BY DEF right
    <3>3. <<JoinedWord>> # <<NL>>
      BY UnitsAre
    <3> QED
      BY <2>5, <2>7, <3>1, <3>2, <3>3
  <2>9. left[e] = <<NL>>
    BY <2>8, UnitsAre, UnitOf
  <2>10. (k \o <<NL>>)[Len(k \o <<NL>>)] = NL
    BY <2>3
  <2> QED
    BY <2>2, <2>9, <2>10 DEF Closed
<1> QED
  BY <1>1, <1>2

\* Units cut where their right side ends a line.
CutSim(u1, u2, k1, k2, u, k, j1, j2) ==
    /\ Sim(u1, k1, j1) /\ Sim(u2, k2, j2) /\ u = u1 \o u2 /\ k = k1 \o k2 /\ Closed(k1)
    /\ k1 \in Text /\ k2 \in Text

\* Two texts of the same units, cut where one side is closed, are so on both sides of the cut.
LEMMA CutUnits ==
    ASSUME NEW u, NEW k, NEW j1 \in Text, NEW j2 \in Text, Sim(u, k, j1 \o j2), Closed(j1)
    PROVE  \E u1, u2, k1, k2 : CutSim(u1, u2, k1, k2, u, k, j1, j2)
<1>1. u \in Seq(Units) /\ k = Spelled(left, u) /\ j1 \o j2 = Spelled(right, u)
  BY DEF Sim
<1>2. j1 \in Seq(Atoms) /\ j2 \in Seq(Atoms)
  BY DEF Text
<1> DEFINE n == Len(j1)
           u1 == Slice(u, 0, n)
           u2 == Slice(u, n, Len(u))
           k1 == Spelled(left, u1)
           k2 == Spelled(left, u2)
           r1 == Spelled(right, u1)
           r2 == Spelled(right, u2)
<1>3. n \in 0 .. Len(u)
  <2>1. Len(j1 \o j2) = Len(u)
    BY <1>1, RightUnits
  <2>2. Len(j1 \o j2) = Len(j1) + Len(j2) /\ Len(j1) \in Nat /\ Len(j2) \in Nat
    BY <1>2
  <2> QED
    BY <2>1, <2>2
<1>4. u1 \in Seq(Units) /\ u2 \in Seq(Units) /\ Len(u1) = n /\ u = u1 \o u2
  <2> HIDE DEF n
  <2> QED
    BY ONLY <1>1, <1>3, Halves
<1> HIDE DEF u1, u2
<1>5. Spelled(left, u) = k1 \o k2 /\ Spelled(right, u) = r1 \o r2
  <2>3. left \in [Units -> Seq(Atoms)] /\ right \in [Units -> Seq(Atoms)]
    BY UnitsAre
  <2>4. u1 \in Seq(Units) /\ u2 \in Seq(Units)
    BY <1>4
  <2>5. Law(left, Units) /\ Law(right, Units)
    BY ONLY <2>3, SpelledLaw
  <2>1. Spelled(left, u1 \o u2) = k1 \o k2
    BY ONLY <2>4, <2>5 DEF Law
  <2>2. Spelled(right, u1 \o u2) = r1 \o r2
    BY ONLY <2>4, <2>5 DEF Law
  <2> QED
    BY <1>4, <2>1, <2>2
<1>6. r1 \in Seq(Atoms) /\ r2 \in Seq(Atoms) /\ k1 \in Seq(Atoms) /\ k2 \in Seq(Atoms) /\ Len(r1) = n
  BY <1>4, RightUnits
<1>7. Closed(r1) => Closed(k1)
  BY <1>4, ClosedUnits
<1>8. r1 = j1 /\ r2 = j2
  <2>1. Put(r1, r2, j1, j2)
    BY <1>1, <1>5 DEF Put
  <2>2. Len(r1) = Len(j1)
    BY <1>6
  <2> HIDE DEF r1, r2
  <2> QED
    BY ONLY <1>2, <1>6, <2>1, <2>2, Cancel
<1>9. Sim(u1, k1, j1) /\ Sim(u2, k2, j2)
  BY <1>4, <1>8 DEF Sim
<1>10. CutSim(u1, u2, k1, k2, u, k, j1, j2)
  BY <1>1, <1>4, <1>5, <1>6, <1>7, <1>8, <1>9 DEF CutSim, Text
<1> QED
  BY <1>10

\* Lines cut where they end one.
CutAfter(p, q, ls, k1, k2) ==
    p \in Seq(Text) /\ q \in Seq(Text) /\ ls = p \o q /\ Spelled(core, p) = k1 /\ Spelled(core, q) = k2

\* Lines whose cores are cut behind a line end are cut there too.
LEMMA CutLines ==
    ASSUME NEW ls, FlatLines(ls), NEW k1 \in Text, NEW k2 \in Text, Closed(k1), Spelled(core, ls) = k1 \o k2
    PROVE  \E p, q : CutAfter(p, q, ls, k1, k2)
<1> DEFINE Cuts1(v) == \A x1, x2 \in Text : Closed(x1) /\ Spelled(core, v) = x1 \o x2 => \E p, q : CutAfter(p, q, v, x1, x2)
           All(v) == \A i \in 1 .. Len(v) : Flat(v[i])
           P == {v \in Seq(Text) : All(v) => Cuts1(v)}
<1>0. core \in [Text -> Seq(Atoms)] /\ \A t \in Text : core[t] = Core(t)
  BY TextsAre
<1>1. <<>> \in P
  <2>5. ASSUME NEW x1 \in Text, NEW x2 \in Text, Closed(x1), Spelled(core, <<>>) = x1 \o x2
        PROVE  \E p, q : CutAfter(p, q, <<>>, x1, x2)
    <3>1. Spelled(core, <<>>) = <<>>
      BY ONLY <1>0, SpelledNone
    <3>2. x1 = <<>> /\ x2 = <<>>
      <4>1. x1 \in Seq(Atoms) /\ x2 \in Seq(Atoms) /\ x1 \o x2 = <<>>
        BY <2>5, <3>1 DEF Text
      <4>2. Len(x1 \o x2) = Len(x1) + Len(x2) /\ Len(x1) \in Nat /\ Len(x2) \in Nat
        BY <4>1
      <4>3. Len(x1) = 0 /\ Len(x2) = 0
        BY <4>1, <4>2
      <4> QED
        BY <4>1, <4>3
    <3>3. <<>> \o <<>> = <<>> /\ <<>> \in Seq(Text)
      OBVIOUS
    <3>4. CutAfter(<<>>, <<>>, <<>>, x1, x2)
      BY <3>1, <3>2, <3>3 DEF CutAfter
    <3> QED
      BY <3>4
  <2>6. Cuts1(<<>>)
    BY <2>5
  <2>7. <<>> \in Seq(Text)
    OBVIOUS
  <2> HIDE DEF Cuts1
  <2> QED
    BY <2>6, <2>7
<1>2. ASSUME NEW v \in Seq(Text), NEW x \in Text, v \in P PROVE Append(v, x) \in P
  <2>20. v \in P
    BY <1>2
  <2>30. ASSUME All(Append(v, x)), NEW x1 \in Text, NEW x2 \in Text, Closed(x1),
                Spelled(core, Append(v, x)) = x1 \o x2
         PROVE  \E p, q : CutAfter(p, q, Append(v, x), x1, x2)
    <3> DEFINE k == Spelled(core, v)
               l == Core(x)
    <3>1. Spelled(core, Append(v, x)) = k \o l /\ k \in Seq(Atoms) /\ l \in Seq(Atoms)
      <4>1. core \in [Text -> Seq(Atoms)] /\ core[x] = l
        BY <1>0
      <4>2. Spelled(core, Append(v, x)) = k \o core[x]
        BY ONLY <4>1, v \in Seq(Text), x \in Text, SpelledAppend
      <4>3. k \in Seq(Atoms)
        BY ONLY <4>1, v \in Seq(Text), SpelledSeq
      <4>4. l \in Seq(Atoms)
        BY CoreText DEF Text
      <4> QED
        BY ONLY <4>1, <4>2, <4>3, <4>4
    <3>2. All(v) /\ Flat(x)
      <4> DEFINE a == Append(v, x)
      <4>1. Len(a) = Len(v) + 1 /\ a[Len(v) + 1] = x /\ (\A i \in 1 .. Len(v) : a[i] = v[i]) /\ Len(v) \in Nat
        OBVIOUS
      <4>2. \A i \in 1 .. Len(a) : Flat(a[i])
        BY <2>30
      <4> HIDE DEF a
      <4> QED
        BY <4>1, <4>2
    <3>3. x1 \in Seq(Atoms) /\ x2 \in Seq(Atoms)
      BY DEF Text
    <3>4. Cuts1(v)
      BY <3>2, <2>20
    <3> HIDE DEF k, l
    <3>21. Put(k, l, x1, x2)
      BY <2>30, <3>1 DEF Put, k, l
    <3>22. k \in Seq(Atoms) /\ l \in Seq(Atoms)
      BY <3>1
    <3>5. Meets(k, l, x1, x2, Atoms)
      BY ONLY <3>3, <3>21, <3>22, Meeting
    <3>6. ASSUME NEW e \in Seq(Atoms), k = x1 \o e, x2 = e \o l PROVE \E p, q : CutAfter(p, q, Append(v, x), x1, x2)
      <4>1. PICK p, q : CutAfter(p, q, v, x1, e)
        BY <2>30, <3>4, <3>6 DEF Cuts1, k, Text
      <4>2. p \in Seq(Text) /\ q \in Seq(Text) /\ v = p \o q /\ Spelled(core, p) = x1 /\ Spelled(core, q) = e
        BY <4>1 DEF CutAfter
      <4>3. Append(v, x) = p \o Append(q, x) /\ Append(q, x) \in Seq(Text)
        <5>1. p \in Seq(Text) /\ q \in Seq(Text)
          BY <4>2
        <5>2. p \o Append(q, x) = Append(p \o q, x)
          BY ONLY <5>1, x \in Text, ConcatAppend
        <5>3. Append(q, x) \in Seq(Text)
          BY <5>1
        <5> QED
          BY <4>2, <5>2, <5>3
      <4>4. Spelled(core, Append(q, x)) = e \o l
        <5>1. core \in [Text -> Seq(Atoms)] /\ core[x] = l
          BY <1>0 DEF l
        <5>2. Spelled(core, Append(q, x)) = Spelled(core, q) \o core[x]
          BY ONLY <4>2, <5>1, x \in Text, SpelledAppend
        <5> QED
          BY <4>2, <5>1, <5>2
      <4>5. CutAfter(p, Append(q, x), Append(v, x), x1, x2)
        BY <3>6, <4>2, <4>3, <4>4 DEF CutAfter
      <4> QED
        BY <4>5
    <3>7. ASSUME NEW e \in Seq(Atoms), x1 = k \o e, l = e \o x2, e # <<>> PROVE \E p, q : CutAfter(p, q, Append(v, x), x1, x2)
      <4>1. x2 = <<>>
        <5> SUFFICES ASSUME x2 # <<>> PROVE FALSE
          OBVIOUS
        <5> DEFINE m == Len(e)
                   g == Gist(x)
        <5>1. m \in Nat /\ m >= 1 /\ Len(l) = m + Len(x2) /\ Len(x2) \in Nat /\ Len(x2) >= 1 /\ l[m] = e[m]
          BY <3>3, <3>7
        <5>2. x1[Len(x1)] = e[m]
          <6>1. Len(k \o e) = Len(k) + Len(e) /\ \A i \in 1 .. Len(e) : (k \o e)[Len(k) + i] = e[i]
            BY <3>1, <3>7
          <6>2. Len(x1) = Len(k) + m /\ m \in 1 .. Len(e)
            BY <3>7, <5>1, <6>1
          <6> QED
            BY <3>7, <6>1, <6>2
        <5>3. x1 # <<>>
          BY <3>1, <3>7
        <5>4. l[m] = NL
          BY <2>30, <5>1, <5>2, <5>3 DEF Closed
        <5>5. /\ g \in Text /\ (\A i \in 1 .. Len(g) : g[i] \notin Noise)
              /\ l = IF g = <<>> THEN <<>> ELSE Append(g, NL)
          BY <3>2, CoreFlat DEF l
        <5> HIDE DEF g
        <5>6. l = Append(g, NL) /\ Len(l) = Len(g) + 1 /\ (\A i \in 1 .. Len(g) : l[i] = g[i]) /\ Len(g) \in Nat
          <6>1. l # <<>>
            BY <3>1, <5>1
          <6> QED
            BY <5>5, <6>1 DEF Text
        <5>7. m \in 1 .. Len(g)
          <6> HIDE DEF m
          <6> QED
            BY ONLY <5>1, <5>6
        <5>8. g[m] = NL /\ g[m] \notin Noise
          <6> HIDE DEF m
          <6> QED
            BY <5>4, <5>5, <5>6, <5>7
        <5> QED
          BY <5>8, LettersAre
      <4>2. e = l
        BY <3>1, <3>7, <4>1
      <4>3. Append(v, x) \in Seq(Text) /\ Append(v, x) \o <<>> = Append(v, x) /\ <<>> \in Seq(Text)
        <5> DEFINE z == Append(v, x)
        <5>1. z \in Seq(Text)
          OBVIOUS
        <5> HIDE DEF z
        <5>2. z \o <<>> = z
          BY <5>1, ConcatEmpty
        <5> QED
          BY <5>1, <5>2 DEF z
      <4>4. Spelled(core, <<>>) = <<>>
        BY ONLY <1>0, SpelledNone
      <4>5. CutAfter(Append(v, x), <<>>, Append(v, x), x1, x2)
        BY <3>1, <3>7, <4>1, <4>2, <4>3, <4>4 DEF CutAfter
      <4> QED
        BY <4>5
    <3>8. ASSUME x1 = k, l = x2 PROVE \E p, q : CutAfter(p, q, Append(v, x), x1, x2)
      <4>1. k = x1 \o <<>> /\ x2 = <<>> \o l /\ <<>> \in Seq(Atoms)
        BY <3>1, <3>8
      <4> QED
        BY <3>6, <4>1
    <3>9. CASE \E e \in Seq(Atoms) : x1 = k \o e /\ l = e \o x2
      <4>1. PICK e \in Seq(Atoms) : x1 = k \o e /\ l = e \o x2
        BY <3>9
      <4>2. CASE e = <<>>
        <5>1. x1 = k /\ l = x2
          BY <3>1, <3>3, <4>1, <4>2
        <5> QED
          BY <3>8, <5>1
      <4>3. CASE e # <<>>
        BY <3>7, <4>1, <4>3
      <4> QED
        BY <4>2, <4>3
    <3>10. CASE \E e \in Seq(Atoms) : k = x1 \o e /\ x2 = e \o l
      BY <3>6, <3>10
    <3> QED
      BY ONLY <3>5, <3>9, <3>10 DEF Meets, Ahead
  <2>31. All(Append(v, x)) => Cuts1(Append(v, x))
    BY <2>30
  <2>32. Append(v, x) \in Seq(Text)
    OBVIOUS
  <2> HIDE DEF Cuts1, All
  <2> QED
    BY <2>31, <2>32
<1> HIDE DEF P
<1>3. ls \in P
  <2>1. ls \in Seq(Text)
    BY DEF FlatLines
  <2> QED
    BY ONLY <1>1, <1>2, <2>1, SeqInduction
<1> QED
  BY <1>3 DEF P, FlatLines, Cuts1

\* The parts of two lists of lines put together.
LEMMA SliceBeside ==
    ASSUME NEW T, NEW p \in Seq(T), NEW q \in Seq(T)
    PROVE  /\ \A a, b \in Nat : a <= b /\ b <= Len(p) => Slice(p \o q, a, b) = Slice(p, a, b)
           /\ Slice(p \o q, Len(p), Len(p \o q)) = q
           /\ p \o q \in Seq(T) /\ Len(p \o q) = Len(p) + Len(q)
<1> DEFINE s == p \o q
<1>1. s \in Seq(T) /\ Beside(s, p, q)
  BY ONLY p \in Seq(T), q \in Seq(T), ConcatAt
<1> HIDE DEF s
<1>2. /\ Len(s) = Len(p) + Len(q) /\ (\A k \in 1 .. Len(p) : s[k] = p[k])
      /\ (\A k \in 1 .. Len(q) : s[Len(p) + k] = q[k]) /\ Len(p) \in Nat /\ Len(q) \in Nat
  BY <1>1 DEF Beside
<1>3. ASSUME NEW a \in Nat, NEW b \in Nat, a <= b, b <= Len(p) PROVE Slice(s, a, b) = Slice(p, a, b)
  <2> DEFINE x == Slice(s, a, b)
             y == Slice(p, a, b)
  <2>0. b <= Len(s)
    BY <1>2, <1>3
  <2>1. x \in Seq(T) /\ Len(x) = b - a /\ \A i \in 1 .. b - a : x[i] = s[a + i]
    BY ONLY <1>1, <1>3, <2>0, a \in Nat, b \in Nat, SliceOf
  <2>2. y \in Seq(T) /\ Len(y) = b - a /\ \A i \in 1 .. b - a : y[i] = p[a + i]
    BY ONLY <1>3, p \in Seq(T), a \in Nat, b \in Nat, SliceOf
  <2>3. \A i \in 1 .. b - a : s[a + i] = p[a + i]
    <3>1. \A i \in 1 .. b - a : a + i \in 1 .. Len(p)
      BY <1>2, <1>3
    <3> QED
      BY <1>2, <3>1
  <2> HIDE DEF x, y
  <2>4. Len(x) = Len(y) /\ \A i \in 1 .. Len(x) : x[i] = y[i]
    BY <2>1, <2>2, <2>3
  <2>5. x = y
    BY ONLY <2>1, <2>2, <2>4, SameSequence
  <2> QED
    BY <2>5 DEF x, y
<1>4. Slice(s, Len(p), Len(s)) = q
  <2> DEFINE a == Len(p)
             b == Len(s)
             x == Slice(s, a, b)
  <2>0. a \in Nat /\ b \in Nat /\ a <= b /\ b <= Len(s) /\ b - a = Len(q)
    BY <1>1, <1>2
  <2>1. x \in Seq(T) /\ Len(x) = b - a /\ \A i \in 1 .. b - a : x[i] = s[a + i]
    <3> HIDE DEF a, b
    <3> QED
      BY ONLY <1>1, <2>0, SliceOf
  <2> HIDE DEF x
  <2>2. Len(x) = Len(q) /\ \A i \in 1 .. Len(x) : x[i] = q[i]
    BY <1>2, <2>0, <2>1
  <2>3. x = q
    BY ONLY <2>1, <2>2, q \in Seq(T), SameSequence
  <2> QED
    BY <2>3 DEF x
<1> QED
  BY <1>1, <1>2, <1>3, <1>4 DEF s

\* The halves of flat lines are flat.
LEMMA FlatParts ==
    ASSUME NEW p \in Seq(Text), NEW q \in Seq(Text), FlatLines(p \o q)
    PROVE  FlatLines(p) /\ FlatLines(q)
<1> DEFINE s == p \o q
<1>1. s \in Seq(Text) /\ Beside(s, p, q)
  BY ONLY p \in Seq(Text), q \in Seq(Text), ConcatAt
<1>2. \A i \in 1 .. Len(s) : Flat(s[i])
  BY DEF FlatLines
<1> HIDE DEF s
<1>3. /\ Len(s) = Len(p) + Len(q) /\ (\A k \in 1 .. Len(p) : s[k] = p[k])
      /\ (\A k \in 1 .. Len(q) : s[Len(p) + k] = q[k]) /\ Len(p) \in Nat /\ Len(q) \in Nat
  BY <1>1 DEF Beside
<1>4. \A k \in 1 .. Len(p) : Flat(p[k])
  BY <1>2, <1>3
<1>5. \A k \in 1 .. Len(q) : Flat(q[k])
  <2>1. \A k \in 1 .. Len(q) : Len(p) + k \in 1 .. Len(s)
    BY <1>3
  <2> QED
    BY <1>2, <1>3, <2>1
<1> QED
  BY <1>4, <1>5 DEF FlatLines

\* A part of the lines B for each of the lines M, which has its ink.
Alike(G, k)  == \E u : Sim(u, Spelled(core, G), k)
Groups(g, B, M) ==
    /\ g \in [0 .. Len(M) -> 0 .. Len(B)] /\ g[Len(M)] = Len(B)
    /\ \A j \in 1 .. Len(M) : g[j - 1] <= g[j] /\ Alike(Slice(B, g[j - 1], g[j]), Core(M[j]))
    /\ Spelled(core, Slice(B, 0, g[0])) = <<>>

\* Lines whose joined core is of the units of other lines' cores fall into groups, one for each of
\* those lines.
LEMMA Grouped ==
    ASSUME NEW B, FlatLines(B), NEW M \in Seq(Text), Alike(B, Spelled(core, M))
    PROVE  \E g : Groups(g, B, M)
<1> DEFINE P == {v \in Seq(Text) : \A C : FlatLines(C) /\ Alike(C, Spelled(core, v)) => \E g : Groups(g, C, v)}
<1>0. core \in [Text -> Seq(Atoms)] /\ \A t \in Text : core[t] = Core(t)
  BY TextsAre
<1>1. <<>> \in P
  <2>1. ASSUME NEW C, FlatLines(C), Alike(C, Spelled(core, <<>>)) PROVE \E g : Groups(g, C, <<>>)
    <3>1. Spelled(core, <<>>) = <<>>
      BY ONLY <1>0, SpelledNone
    <3>2. PICK u : Sim(u, Spelled(core, C), <<>>)
      BY <2>1, <3>1 DEF Alike
    <3>3. u \in Seq(Units) /\ Len(u) = 0
      <4>1. u \in Seq(Units) /\ Spelled(right, u) = <<>>
        BY <3>2 DEF Sim
      <4>2. Len(Spelled(right, u)) = Len(u)
        BY <4>1, RightUnits
      <4> QED
        BY <4>1, <4>2
    <3>4. u = <<>>
      BY <3>3
    <3>5. Spelled(core, C) = <<>>
      <4>1. Spelled(left, <<>>) = <<>>
        BY UnitsAre, SpelledNone
      <4> QED
        BY <3>2, <3>4, <4>1 DEF Sim
    <3>6. C \in Seq(Text) /\ Len(C) \in Nat
      BY <2>1 DEF FlatLines
    <3> DEFINE g == [i \in 0 .. 0 |-> Len(C)]
    <3>7. Slice(C, 0, g[0]) = C
      BY <3>6 DEF Slice
    <3>8. Groups(g, C, <<>>)
      BY <3>5, <3>6, <3>7 DEF Groups
    <3> QED
      BY <3>8
  <2> QED
    BY <2>1
<1>2. ASSUME NEW v \in Seq(Text), NEW x \in Text, v \in P PROVE Append(v, x) \in P
  <2>1. ASSUME NEW C, FlatLines(C), Alike(C, Spelled(core, Append(v, x))) PROVE \E g : Groups(g, C, Append(v, x))
    <3> DEFINE j1 == Spelled(core, v)
               j2 == Core(x)
    <3>1. Spelled(core, Append(v, x)) = j1 \o j2
      <4>1. core \in [Text -> Seq(Atoms)] /\ core[x] = j2
        BY <1>0
      <4>2. Spelled(core, Append(v, x)) = j1 \o core[x]
        BY ONLY <4>1, v \in Seq(Text), x \in Text, SpelledAppend
      <4> QED
        BY <4>1, <4>2
    <3>2. j1 \in Text /\ j2 \in Text /\ Closed(j1)
      <4>1. Core(FromLines(v)) = j1 /\ FromLines(v) \in Text
        BY CoreLines
      <4> QED
        BY <4>1, CoreText
    <3> HIDE DEF j1, j2
    <3>3. PICK u : Sim(u, Spelled(core, C), j1 \o j2)
      BY <2>1, <3>1 DEF Alike
    <3>4. PICK u1, u2, k1, k2 : CutSim(u1, u2, k1, k2, u, Spelled(core, C), j1, j2)
      BY ONLY <3>2, <3>3, CutUnits
    <3>5. /\ Sim(u1, k1, j1) /\ Sim(u2, k2, j2) /\ Spelled(core, C) = k1 \o k2 /\ Closed(k1)
          /\ k1 \in Text /\ k2 \in Text
      BY <3>4 DEF CutSim
    <3>6. PICK p, q : CutAfter(p, q, C, k1, k2)
      BY ONLY <2>1, <3>5, CutLines
    <3>7. p \in Seq(Text) /\ q \in Seq(Text) /\ C = p \o q /\ Spelled(core, p) = k1 /\ Spelled(core, q) = k2
      BY <3>6 DEF CutAfter
    <3>8. FlatLines(p)
      <4>1. FlatLines(p \o q) /\ p \in Seq(Text) /\ q \in Seq(Text)
        BY <2>1, <3>7
      <4> QED
        BY ONLY <4>1, FlatParts
    <3>9. PICK f : Groups(f, p, v)
      BY <1>2, <3>5, <3>7, <3>8 DEF Alike, j1
    <3> DEFINE a == Append(v, x)
               n == Len(v)
               m == Len(p)
               g == [i \in 0 .. n + 1 |-> IF i <= n THEN f[i] ELSE Len(C)]
    <3>10. /\ a \in Seq(Text) /\ Len(a) = n + 1 /\ n \in Nat /\ a[n + 1] = x /\ \A i \in 1 .. n : a[i] = v[i]
      OBVIOUS
    <3>11. /\ (\A b, c \in Nat : b <= c /\ c <= m => Slice(C, b, c) = Slice(p, b, c))
           /\ Slice(C, m, Len(C)) = q /\ Len(C) = m + Len(q) /\ m \in Nat /\ Len(q) \in Nat
      <4>1. p \in Seq(Text) /\ q \in Seq(Text)
        BY <3>7
      <4>2. /\ (\A b, c \in Nat : b <= c /\ c <= Len(p) => Slice(p \o q, b, c) = Slice(p, b, c))
            /\ Slice(p \o q, Len(p), Len(p \o q)) = q
            /\ p \o q \in Seq(Text) /\ Len(p \o q) = Len(p) + Len(q)
        BY ONLY <4>1, SliceBeside
      <4>3. C = p \o q
        BY <3>7
      <4>4. Len(p) \in Nat /\ Len(q) \in Nat
        BY <4>1
      <4> HIDE DEF m
      <4> QED
        BY ONLY <4>2, <4>3, <4>4 DEF m
    <3>12. /\ f \in [0 .. n -> 0 .. m] /\ f[n] = m
           /\ \A j \in 1 .. n : f[j - 1] <= f[j] /\ Alike(Slice(p, f[j - 1], f[j]), Core(v[j]))
           /\ Spelled(core, Slice(p, 0, f[0])) = <<>>
      BY <3>9 DEF Groups
    <3> HIDE DEF a, n, m
    <3>13. g \in [0 .. n + 1 -> 0 .. Len(C)] /\ g[n + 1] = Len(C) /\ \A i \in 0 .. n : g[i] = f[i] /\ f[i] \in 0 .. m
      BY <3>10, <3>11, <3>12
    <3> HIDE DEF g
    <3>14. ASSUME NEW j \in 1 .. n + 1
           PROVE  g[j - 1] <= g[j] /\ Alike(Slice(C, g[j - 1], g[j]), Core(a[j]))
      <4>1. CASE j \in 1 .. n
        <5>1. j - 1 \in 0 .. n /\ j \in 0 .. n
          BY <3>10, <4>1
        <5>2. g[j - 1] = f[j - 1] /\ g[j] = f[j] /\ f[j - 1] \in Nat /\ f[j] \in Nat /\ f[j] <= m
          BY <3>11, <3>13, <5>1
        <5>3. f[j - 1] <= f[j] /\ Alike(Slice(p, f[j - 1], f[j]), Core(v[j]))
          BY <3>12, <4>1
        <5>4. Slice(C, f[j - 1], f[j]) = Slice(p, f[j - 1], f[j])
          BY ONLY <3>11, <5>2, <5>3
        <5> QED
          BY <3>10, <4>1, <5>2, <5>3, <5>4
      <4>2. CASE j = n + 1
        <5>1. g[j - 1] = m /\ g[j] = Len(C) /\ m <= Len(C)
          BY <3>10, <3>11, <3>12, <3>13, <4>2
        <5>2. Alike(q, j2)
          BY <3>5, <3>7 DEF Alike
        <5> QED
          BY <3>10, <3>11, <4>2, <5>1, <5>2 DEF j2
      <4> QED
        BY <3>10, <4>1, <4>2
    <3>15. Spelled(core, Slice(C, 0, g[0])) = <<>>
      <4>1. 0 \in 0 .. n
        BY <3>10
      <4>2. g[0] = f[0] /\ f[0] \in 0 .. m
        BY <3>13, <4>1
      <4>3. Slice(C, 0, g[0]) = Slice(p, 0, f[0])
        BY <3>11, <4>2
      <4> QED
        BY <3>12, <4>3
    <3>16. Groups(g, C, a)
      BY <3>10, <3>13, <3>14, <3>15 DEF Groups
    <3> QED
      BY <3>16 DEF a
  <2>2. Append(v, x) \in Seq(Text)
    OBVIOUS
  <2> QED
    BY <2>1, <2>2
<1> HIDE DEF P
<1>3. M \in P
  BY ONLY <1>1, <1>2, M \in Seq(Text), SeqInduction
<1> QED
  BY <1>3 DEF P

\* What is spelled before, at and behind a place.
Around3(g, s, i) ==
    Spelled(g, s) = (Spelled(g, Slice(s, 0, i - 1)) \o g[s[i]]) \o Spelled(g, Slice(s, i, Len(s)))

\* A sequence spells what stands before an element, the element's piece, and what stands behind
\* it.
LEMMA SpelledAround ==
    ASSUME NEW S, NEW T, NEW g \in [S -> Seq(T)], NEW s \in Seq(S), NEW i \in 1 .. Len(s)
    PROVE  /\ Around3(g, s, i)
           /\ Spelled(g, Slice(s, 0, i - 1)) \in Seq(T) /\ Spelled(g, Slice(s, i, Len(s))) \in Seq(T)
           /\ g[s[i]] \in Seq(T)
<1> DEFINE a == Slice(s, 0, i - 1)
           b == <<s[i]>>
           c == Slice(s, i, Len(s))
           e == Slice(s, 0, i)
<1>1. i \in 0 .. Len(s) /\ i - 1 \in 0 .. Len(s) /\ i \in Nat /\ i - 1 \in Nat /\ 0 \in Nat /\ Len(s) \in Nat
      /\ i <= Len(s) /\ i - 1 <= i /\ 0 <= i - 1 /\ s[i] \in S
  OBVIOUS
<1>2. e \in Seq(S) /\ c \in Seq(S) /\ s = e \o c
  BY ONLY <1>1, s \in Seq(S), Halves
<1>3. a \in Seq(S)
  <2> DEFINE d == i - 1
  <2>1. d \in 0 .. Len(s)
    BY <1>1
  <2> HIDE DEF d
  <2>2. Slice(s, 0, d) \in Seq(S)
    BY ONLY <2>1, s \in Seq(S), Halves
  <2> QED
    BY <2>2 DEF d
<1>4. e = a \o b
  <2> DEFINE d == i - 1
  <2>1. d \in Nat /\ d <= i /\ 0 <= d
    BY <1>1
  <2> HIDE DEF d
  <2>2. Slice(s, 0, d) \o Slice(s, d, i) = Slice(s, 0, i)
    BY ONLY <1>1, <2>1, s \in Seq(S), SliceConcat
  <2>3. Slice(s, d, i) = b
    <3> DEFINE x == Slice(s, d, i)
    <3>1. x \in Seq(S) /\ Len(x) = i - d /\ \A m \in 1 .. i - d : x[m] = s[d + m]
      BY ONLY <1>1, <2>1, s \in Seq(S), SliceOf
    <3>2. i - d = 1 /\ d + 1 = i
      BY <1>1 DEF d
    <3> HIDE DEF x
    <3>3. Len(x) = 1 /\ x[1] = s[i] /\ x \in Seq(S)
      BY <3>1, <3>2
    <3>4. b \in Seq(S) /\ Len(b) = 1 /\ b[1] = s[i]
      BY <1>1
    <3> HIDE DEF b
    <3>5. x = b
      BY ONLY <3>3, <3>4, SameSequence
    <3> QED
      BY <3>5 DEF x
  <2> QED
    BY <2>2, <2>3 DEF d
<1>5. b \in Seq(S)
  BY <1>1
<1>6. Law(g, S)
  BY SpelledLaw
<1> HIDE DEF a, b, c, e
<1>7. Spelled(g, e \o c) = Spelled(g, e) \o Spelled(g, c)
  BY ONLY <1>2, <1>6 DEF Law
<1>8. Spelled(g, a \o b) = Spelled(g, a) \o Spelled(g, b)
  BY ONLY <1>3, <1>5, <1>6 DEF Law
<1>9. Spelled(g, b) = g[s[i]]
  <2>1. Spelled(g, <<s[i]>>) = g[s[i]]
    BY ONLY <1>1, g \in [S -> Seq(T)], SpelledOne
  <2> QED
    BY <2>1 DEF b
<1>10. Spelled(g, s) = (Spelled(g, a) \o g[s[i]]) \o Spelled(g, c)
  BY <1>2, <1>4, <1>7, <1>8, <1>9
<1>11. Spelled(g, a) \in Seq(T) /\ Spelled(g, c) \in Seq(T)
  BY ONLY <1>2, <1>3, g \in [S -> Seq(T)], SpelledSeq
<1>12. g[s[i]] \in Seq(T)
  BY <1>1
<1> QED
  BY ONLY <1>10, <1>11, <1>12 DEF a, c, Around3

\* A sequence that spells nothing has elements that spell nothing.
LEMMA SpelledEmpty ==
    ASSUME NEW S, NEW T, NEW g \in [S -> Seq(T)], NEW s \in Seq(S), Spelled(g, s) = <<>>
    PROVE  \A i \in 1 .. Len(s) : g[s[i]] = <<>>
<1> SUFFICES ASSUME NEW i \in 1 .. Len(s) PROVE g[s[i]] = <<>>
  OBVIOUS
<1> DEFINE x == Spelled(g, Slice(s, 0, i - 1))
           y == g[s[i]]
           z == Spelled(g, Slice(s, i, Len(s)))
           w == x \o y
<1>1. (x \o y) \o z = <<>> /\ x \in Seq(T) /\ y \in Seq(T) /\ z \in Seq(T)
  <2>1. Around3(g, s, i) /\ x \in Seq(T) /\ z \in Seq(T) /\ y \in Seq(T)
    BY SpelledAround
  <2> QED
    BY ONLY <2>1, Spelled(g, s) = <<>> DEF Around3
<1> HIDE DEF x, y, z
<1>2. w \in Seq(T) /\ Len(w) = Len(x) + Len(y) /\ Len(x) \in Nat /\ Len(y) \in Nat /\ Len(z) \in Nat
  BY <1>1
<1>3. w \o z = <<>> /\ z \in Seq(T)
  BY <1>1
<1> HIDE DEF w
<1>4. Len(w \o z) = Len(w) + Len(z)
  <2>1. w \in Seq(T)
    BY ONLY <1>2
  <2>2. Beside(w \o z, w, z)
    BY ONLY <1>3, <2>1, ConcatAt
  <2> QED
    BY ONLY <2>2 DEF Beside
<1>7. Len(w \o z) = 0 /\ Len(w) \in Nat
  <2>1. Len(<<>>) = 0
    OBVIOUS
  <2> QED
    BY <1>2, <1>3, <2>1
<1>5. Len(y) = 0
  BY ONLY <1>2, <1>4, <1>7
<1>6. y = <<>>
  BY <1>1, <1>5
<1> QED
  BY <1>6 DEF y

\* Units of a line: where the left side has line ends, and what it has of the right side.
Breaking(k, j) ==
    /\ \A p \in 1 .. Len(k) : k[p] = NL => p > 1 /\ k[p - 1] = HyphenWord
    /\ (\A i \in 1 .. Len(j) : j[i] # JoinedWord) => k = j
    /\ \A i \in 1 .. Len(j) : j[i] # JoinedWord => \E p \in 1 .. Len(k) : k[p] = j[i]

\* Units without a newline on the right have one on the left only behind a broken word.
LEMMA UnitBreaks ==
    ASSUME NEW u \in Seq(Units), \A i \in 1 .. Len(Spelled(right, u)) : Spelled(right, u)[i] # NL
    PROVE  Breaking(Spelled(left, u), Spelled(right, u))
<1> DEFINE P == {v \in Seq(Units) : (\A i \in 1 .. Len(Spelled(right, v)) : Spelled(right, v)[i] # NL)
                                        => Breaking(Spelled(left, v), Spelled(right, v))}
<1>1. <<>> \in P
  <2>1. Spelled(right, <<>>) = <<>> /\ Spelled(left, <<>>) = <<>>
    BY UnitsAre, SpelledNone
  <2>2. Breaking(<<>>, <<>>)
    BY DEF Breaking
  <2>3. <<>> \in Seq(Units)
    OBVIOUS
  <2> QED
    BY <2>1, <2>2, <2>3
<1>2. ASSUME NEW v \in Seq(Units), NEW e \in Units, v \in P PROVE Append(v, e) \in P
  <2> DEFINE k == Spelled(left, v)
             j == Spelled(right, v)
             k2 == Spelled(left, Append(v, e))
             j2 == Spelled(right, Append(v, e))
  <2>1. k2 = k \o left[e] /\ j2 = j \o right[e] /\ k \in Seq(Atoms) /\ j \in Seq(Atoms)
    BY UnitsAppend, RightUnits
  <2>2. ASSUME \A i \in 1 .. Len(j2) : j2[i] # NL PROVE Breaking(k2, j2)
    <3>1. (\A i \in 1 .. Len(j) : j[i] # NL) => Breaking(k, j)
      BY <1>2
    <3> HIDE DEF k, j, k2, j2
    <3>2. ASSUME NEW x \in Atoms, j2 = j \o <<x>>
          PROVE  /\ Len(j2) = Len(j) + 1 /\ j2[Len(j) + 1] = x /\ (\A i \in 1 .. Len(j) : j2[i] = j[i])
                 /\ Breaking(k, j) /\ x # NL /\ Len(j) \in Nat
      <4>1. Len(j2) = Len(j) + 1 /\ j2[Len(j) + 1] = x /\ (\A i \in 1 .. Len(j) : j2[i] = j[i]) /\ Len(j) \in Nat
        BY <2>1, <3>2
      <4>2. \A i \in 1 .. Len(j) : j[i] # NL
        BY <2>2, <4>1
      <4>3. x # NL
        BY <2>2, <4>1
      <4> QED
        BY <3>1, <4>1, <4>2, <4>3
    <3>3. CASE e \in Atoms
      <4>1. k2 = k \o <<e>> /\ j2 = j \o <<e>>
        BY <2>1, <3>3, UnitOf
      <4>2. Len(k2) = Len(k) + 1 /\ k2[Len(k) + 1] = e /\ (\A i \in 1 .. Len(k) : k2[i] = k[i]) /\ Len(k) \in Nat
        BY <2>1, <3>3, <4>1
      <4>3. /\ Len(j2) = Len(j) + 1 /\ j2[Len(j) + 1] = e /\ (\A i \in 1 .. Len(j) : j2[i] = j[i])
            /\ Breaking(k, j) /\ e # NL /\ Len(j) \in Nat
        BY <3>2, <3>3, <4>1
      <4>4. (\A i \in 1 .. Len(j2) : j2[i] # JoinedWord) => k2 = j2
        <5>1. (\A i \in 1 .. Len(j2) : j2[i] # JoinedWord) => k = j
          BY <4>3 DEF Breaking
        <5> QED
          BY <4>1, <5>1
      <4>5. /\ \A p \in 1 .. Len(k) : k[p] = NL => p > 1 /\ k[p - 1] = HyphenWord
            /\ \A i \in 1 .. Len(j) : j[i] # JoinedWord => \E p \in 1 .. Len(k) : k[p] = j[i]
        BY <4>3 DEF Breaking
      <4>6. \A p \in 1 .. Len(k2) : k2[p] = NL => p > 1 /\ k2[p - 1] = HyphenWord
        <5> SUFFICES ASSUME NEW p \in 1 .. Len(k2), k2[p] = NL PROVE p > 1 /\ k2[p - 1] = HyphenWord
          OBVIOUS
        <5>1. p \in 1 .. Len(k)
          BY <4>2, <4>3
        <5>2. k[p] = NL
          BY <4>2, <5>1
        <5>3. p > 1 /\ k[p - 1] = HyphenWord
          BY ONLY <4>5, <5>1, <5>2
        <5>4. p - 1 \in 1 .. Len(k)
          BY ONLY <4>2, <5>1, <5>3
        <5> QED
          BY ONLY <4>2, <5>3, <5>4
      <4>7. ASSUME NEW i \in 1 .. Len(j2), j2[i] # JoinedWord PROVE \E p \in 1 .. Len(k2) : k2[p] = j2[i]
        <5>1. CASE i \in 1 .. Len(j)
          <6>1. PICK p \in 1 .. Len(k) : k[p] = j[i]
            BY <4>3, <4>5, <4>7, <5>1
          <6>2. p \in 1 .. Len(k2) /\ k2[p] = j2[i]
            BY <4>2, <4>3, <5>1, <6>1
          <6> QED
            BY <6>2
        <5>2. CASE i = Len(j) + 1
          <6>1. Len(k) + 1 \in 1 .. Len(k2) /\ k2[Len(k) + 1] = j2[i]
            BY <4>2, <4>3, <5>2
          <6> QED
            BY <6>1
        <5> QED
          BY <4>3, <5>1, <5>2
      <4> QED
        BY ONLY <4>4, <4>6, <4>7 DEF Breaking
    <3>4. ASSUME NEW w \in Seq(Atoms), Len(w) >= 1, w[1] = HyphenWord, \A i \in 2 .. Len(w) : i = 2,
                 k2 = k \o w, j2 = j \o <<JoinedWord>>
          PROVE  Breaking(k2, j2)
      <4>2. /\ Len(k2) = Len(k) + Len(w) /\ (\A i \in 1 .. Len(w) : k2[Len(k) + i] = w[i])
            /\ (\A i \in 1 .. Len(k) : k2[i] = k[i]) /\ Len(k) \in Nat /\ Len(w) \in Nat
        <5>1. k \in Seq(Atoms)
          BY <2>1
        <5>2. Beside(k \o w, k, w)
          BY ONLY <5>1, w \in Seq(Atoms), ConcatAt
        <5>3. Len(k) \in Nat /\ Len(w) \in Nat
          BY <5>1
        <5> QED
          BY ONLY <3>4, <5>2, <5>3 DEF Beside
      <4>3. /\ Len(j2) = Len(j) + 1 /\ j2[Len(j) + 1] = JoinedWord /\ (\A i \in 1 .. Len(j) : j2[i] = j[i])
            /\ Breaking(k, j) /\ Len(j) \in Nat
        BY <3>2, <3>4, UnitsAre
      <4>4. ~ \A i \in 1 .. Len(j2) : j2[i] # JoinedWord
        BY <4>3
      <4>5. /\ \A p \in 1 .. Len(k) : k[p] = NL => p > 1 /\ k[p - 1] = HyphenWord
            /\ \A i \in 1 .. Len(j) : j[i] # JoinedWord => \E p \in 1 .. Len(k) : k[p] = j[i]
        BY <4>3 DEF Breaking
      <4>6. ASSUME NEW p \in 1 .. Len(k2), k2[p] = NL PROVE p > 1 /\ k2[p - 1] = HyphenWord
        <5>1. CASE p \in 1 .. Len(k)
          <6>1. k[p] = NL /\ k2[p] = k[p]
            BY ONLY <4>2, <4>6, <5>1
          <6>2. p > 1 /\ k[p - 1] = HyphenWord
            BY ONLY <4>5, <5>1, <6>1
          <6>3. p - 1 \in 1 .. Len(k)
            BY ONLY <4>2, <5>1, <6>2
          <6> QED
            BY ONLY <4>2, <6>2, <6>3
        <5>2. CASE p \notin 1 .. Len(k)
          <6>1. p - Len(k) \in 1 .. Len(w) /\ p = Len(k) + (p - Len(k))
            BY <4>2, <5>2
          <6>2. w[p - Len(k)] = NL
            BY <4>2, <4>6, <6>1
          <6>3. p - Len(k) # 1
            BY <3>4, <6>2, UnitsAre
          <6>4. p - Len(k) \in 2 .. Len(w)
            BY SMTT(40), <6>1, <6>3
          <6>5. p - Len(k) = 2
            BY <3>4, <6>4
          <6>6. p - 1 = Len(k) + 1 /\ 1 \in 1 .. Len(w)
            BY <4>2, <6>5, <3>4
          <6> QED
            BY <3>4, <4>2, <6>6
        <5> QED
          BY <5>1, <5>2
      <4>7. ASSUME NEW i \in 1 .. Len(j2), j2[i] # JoinedWord PROVE \E p \in 1 .. Len(k2) : k2[p] = j2[i]
        <5>1. i \in 1 .. Len(j)
          BY <4>3, <4>7
        <5>2. PICK p \in 1 .. Len(k) : k[p] = j[i]
          BY <4>3, <4>5, <4>7, <5>1
        <5>3. p \in 1 .. Len(k2) /\ k2[p] = j2[i]
          BY <4>2, <4>3, <5>1, <5>2
        <5> QED
          BY <5>3
      <4> QED
        BY ONLY <4>4, <4>6, <4>7 DEF Breaking
    <3>5. CASE e = "torn"
      <4>1. k2 = k \o <<HyphenWord>> /\ j2 = j \o <<JoinedWord>>
        BY <2>1, <3>5, UnitsAre
      <4>2. <<HyphenWord>> \in Seq(Atoms) /\ Len(<<HyphenWord>>) >= 1 /\ <<HyphenWord>>[1] = HyphenWord
            /\ \A i \in 2 .. Len(<<HyphenWord>>) : i = 2
        BY UnitsAre
      <4> QED
        BY ONLY <3>4, <4>1, <4>2
    <3>6. CASE e = "joined"
      <4> DEFINE w == <<HyphenWord, NL>>
      <4>1. k2 = k \o w /\ j2 = j \o <<JoinedWord>>
        BY <2>1, <3>6, UnitsAre
      <4>2. w \in Seq(Atoms) /\ Len(w) >= 1 /\ w[1] = HyphenWord /\ \A i \in 2 .. Len(w) : i = 2
        BY UnitsAre
      <4> HIDE DEF w
      <4> QED
        BY ONLY <3>4, <4>1, <4>2
    <3> QED
      BY <3>3, <3>5, <3>6 DEF Units
  <2>3. Append(v, e) \in Seq(Units)
    OBVIOUS
  <2> QED
    BY <2>2, <2>3
<1> HIDE DEF P
<1>3. u \in P
  BY ONLY <1>1, <1>2, u \in Seq(Units), SeqInduction
<1> QED
  BY <1>3 DEF P

\* The same with the line end behind it.
LEMMA LineUnits ==
    ASSUME NEW g \in Text, \A i \in 1 .. Len(g) : g[i] # NL, NEW k,
           NEW u, Sim(u, k, Append(g, NL))
    PROVE  \E h \in Text : k = Append(h, NL) /\ Breaking(h, g)
<1>1. u \in Seq(Units) /\ k = Spelled(left, u) /\ Append(g, NL) = Spelled(right, u)
  BY DEF Sim
<1>2. u # <<>>
  <2>1. Spelled(right, <<>>) = <<>>
    BY UnitsAre, SpelledNone
  <2>2. Append(g, NL) # <<>>
    <3>1. NL \in Atoms /\ g \in Seq(Atoms)
      BY UnitsAre DEF Text
    <3>2. Len(Append(g, NL)) = Len(g) + 1 /\ Len(g) \in Nat /\ Len(<<>>) = 0
      BY <3>1
    <3> DEFINE z == Append(g, NL)
    <3>3. Len(z) # Len(<<>>)
      BY <3>2
    <3> HIDE DEF z
    <3>4. z # <<>>
      BY ONLY <3>3
    <3> QED
      BY <3>4 DEF z
  <2> QED
    BY <1>1, <2>1, <2>2
<1>3. PICK q \in Seq(Units), e \in Units : u = Append(q, e)
  BY <1>1, <1>2, LastOf
<1> DEFINE h == Spelled(left, q)
           j == Spelled(right, q)
<1>4. k = h \o left[e] /\ Append(g, NL) = j \o right[e] /\ h \in Seq(Atoms) /\ j \in Seq(Atoms)
  BY <1>1, <1>3, UnitsAppend, RightUnits
<1> HIDE DEF h, j
<1>5. PICK x \in Atoms : right[e] = <<x>>
  BY UnitsAre DEF right, Units
<1>6. Len(j) = Len(g) /\ x = NL /\ j = g
  <2> DEFINE a == Append(g, NL)
  <2>1. Len(a) = Len(g) + 1 /\ a[Len(g) + 1] = NL /\ (\A i \in 1 .. Len(g) : a[i] = g[i]) /\ Len(g) \in Nat /\ g \in Seq(Atoms)
    BY DEF Text
  <2>2. a = j \o <<x>>
    BY <1>4, <1>5
  <2>3. Len(j \o <<x>>) = Len(j) + 1 /\ (j \o <<x>>)[Len(j) + 1] = x /\ (\A i \in 1 .. Len(j) : (j \o <<x>>)[i] = j[i])
        /\ Len(j) \in Nat
    BY <1>4
  <2>6. Len(a) = Len(j) + 1 /\ a[Len(j) + 1] = x /\ (\A i \in 1 .. Len(j) : a[i] = j[i])
    BY <2>2, <2>3
  <2> HIDE DEF a
  <2>4. Len(j) = Len(g) /\ x = NL /\ \A i \in 1 .. Len(j) : j[i] = g[i]
    BY <2>1, <2>3, <2>6
  <2>5. j \in Seq(Atoms)
    BY <1>4
  <2> QED
    BY ONLY <2>1, <2>4, <2>5, SameSequence
<1>7. e = NL
  <2>1. e = "torn" \/ e = "joined" => right[e] = <<JoinedWord>>
    BY UnitsAre
  <2>2. e # "torn" /\ e # "joined" => right[e] = <<e>>
    BY DEF right
  <2>3. <<JoinedWord>> # <<NL>>
    BY UnitsAre
  <2> QED
    BY <1>5, <1>6, <2>1, <2>2, <2>3
<1>8. k = Append(h, NL)
  <2>1. left[e] = <<NL>>
    BY <1>7, UnitsAre, UnitOf
  <2>2. NL \in Atoms /\ h \in Seq(Atoms)
    BY <1>4, UnitsAre
  <2>3. Append(h, NL) = h \o <<NL>>
    BY <2>2, AppendIs
  <2> QED
    BY <1>4, <2>1, <2>3
<1>9. Breaking(h, g)
  <2>1. \A i \in 1 .. Len(Spelled(right, q)) : Spelled(right, q)[i] # NL
    BY <1>6 DEF j
  <2> QED
    BY <1>6, <2>1, UnitBreaks DEF h, j
<1> QED
  BY <1>4, <1>8, <1>9 DEF Text

\* What is spelled is spelled by something.
Spells(g, s) ==
    \A p \in 1 .. Len(Spelled(g, s)) :
        \E i \in 1 .. Len(s) : \E k \in 1 .. Len(g[s[i]]) : g[s[i]][k] = Spelled(g, s)[p]

\* Every letter that is spelled comes from some element.
LEMMA SpelledHas == ASSUME NEW S, NEW T, NEW g \in [S -> Seq(T)], NEW s \in Seq(S) PROVE Spells(g, s)
<1> DEFINE Has(v, y) == \E i \in 1 .. Len(v) : \E k \in 1 .. Len(g[v[i]]) : g[v[i]][k] = y
           P == {v \in Seq(S) : \A m \in 1 .. Len(Spelled(g, v)) : Has(v, Spelled(g, v)[m])}
<1>1. <<>> \in P
  <2>1. Spelled(g, <<>>) = <<>>
    BY SpelledNone
  <2> QED
    BY <2>1
<1>2. ASSUME NEW v \in Seq(S), NEW x \in S, v \in P PROVE Append(v, x) \in P
  <2> DEFINE a == Append(v, x)
             w == Spelled(g, v)
             l == g[x]
             z == Spelled(g, a)
  <2>1. z = w \o l
    BY ONLY g \in [S -> Seq(T)], v \in Seq(S), x \in S, SpelledAppend
  <2>2. w \in Seq(T) /\ l \in Seq(T)
    BY ONLY g \in [S -> Seq(T)], v \in Seq(S), x \in S, SpelledSeq
  <2>3. a \in Seq(S) /\ Len(a) = Len(v) + 1 /\ a[Len(v) + 1] = x /\ (\A i \in 1 .. Len(v) : a[i] = v[i]) /\ Len(v) \in Nat
    OBVIOUS
  <2>4. \A m \in 1 .. Len(w) : Has(v, w[m])
    BY <1>2
  <2>8. \A y : Has(v, y) <=> \E i \in 1 .. Len(v) : \E k \in 1 .. Len(g[v[i]]) : g[v[i]][k] = y
    OBVIOUS
  <2>9. \A y : Has(a, y) <=> \E i \in 1 .. Len(a) : \E k \in 1 .. Len(g[a[i]]) : g[a[i]][k] = y
    OBVIOUS
  <2> HIDE DEF a, w, z, Has
  <2>5. Beside(w \o l, w, l)
    BY ONLY <2>2, ConcatAt
  <2>6. /\ Len(z) = Len(w) + Len(l) /\ (\A m \in 1 .. Len(w) : z[m] = w[m])
        /\ (\A m \in 1 .. Len(l) : z[Len(w) + m] = l[m]) /\ Len(w) \in Nat /\ Len(l) \in Nat
    <3>1. Len(w) \in Nat /\ Len(l) \in Nat
      BY <2>2
    <3> HIDE DEF l
    <3> QED
      BY ONLY <2>1, <2>5, <3>1 DEF Beside
  <2>7. ASSUME NEW m \in 1 .. Len(z) PROVE Has(a, z[m])
    <3>1. CASE m \in 1 .. Len(w)
      <4>1. Has(v, z[m])
        BY <2>4, <2>6, <3>1
      <4>2. PICK i \in 1 .. Len(v) : \E k \in 1 .. Len(g[v[i]]) : g[v[i]][k] = z[m]
        BY ONLY <2>8, <4>1
      <4>3. i \in 1 .. Len(a) /\ a[i] = v[i]
        BY ONLY <2>3, i \in 1 .. Len(v)
      <4> QED
        BY <2>9, <4>2, <4>3
    <3>2. CASE m \notin 1 .. Len(w)
      <4> DEFINE k == m - Len(w)
      <4>1. k \in 1 .. Len(l) /\ m = Len(w) + k
        BY <2>6, <3>2
      <4> HIDE DEF k
      <4>2. l[k] = z[m]
        BY ONLY <2>6, <4>1
      <4>3. Len(v) + 1 \in 1 .. Len(a) /\ g[a[Len(v) + 1]] = l
        BY <2>3
      <4> QED
        BY <2>9, <4>1, <4>2, <4>3
    <3> QED
      BY <3>1, <3>2
  <2> QED
    BY ONLY <2>3, <2>7 DEF a, z
<1> HIDE DEF P
<1>3. s \in P
  BY ONLY <1>1, <1>2, s \in Seq(S), SeqInduction
<1> QED
  BY <1>3 DEF P, Spells

\* The end of a line with ink among lines that end in one line end.
EndAt(K, gist, p) ==
    /\ gist # <<>> /\ gist \in Text /\ p \in 2 .. Len(K) /\ K[p] = NL /\ K[p - 1] = gist[Len(gist)]

\* A line with a gist ends somewhere in the core of its lines, and before the end when another
\* follows.
LEMMA LineAt ==
    ASSUME NEW G, FlatLines(G), NEW i \in 1 .. Len(G), Core(G[i]) # <<>>
    PROVE  \E p : /\ EndAt(Spelled(core, G), Gist(G[i]), p)
                  /\ (\E k \in i + 1 .. Len(G) : Core(G[k]) # <<>>) => p < Len(Spelled(core, G))
<1>0. core \in [Text -> Seq(Atoms)] /\ \A t \in Text : core[t] = Core(t)
  BY TextsAre
<1>1. G \in Seq(Text) /\ Flat(G[i]) /\ G[i] \in Text
  BY DEF FlatLines
<1> DEFINE x == Spelled(core, Slice(G, 0, i - 1))
           g == Gist(G[i])
           l == Core(G[i])
           y == Spelled(core, Slice(G, i, Len(G)))
           K == Spelled(core, G)
           w == x \o l
<1>2. K = w \o y /\ x \in Seq(Atoms) /\ l \in Seq(Atoms) /\ y \in Seq(Atoms)
  <2>1. Around3(core, G, i) /\ x \in Seq(Atoms) /\ y \in Seq(Atoms) /\ core[G[i]] \in Seq(Atoms)
    BY ONLY <1>0, <1>1, i \in 1 .. Len(G), SpelledAround
  <2>2. core[G[i]] = l
    BY <1>0, <1>1
  <2> QED
    BY ONLY <2>1, <2>2 DEF Around3
<1>3. g \in Text /\ g # <<>> /\ l = Append(g, NL)
  <2>1. g \in Text /\ l = IF g = <<>> THEN <<>> ELSE Append(g, NL)
    BY ONLY <1>1, CoreFlat
  <2> QED
    BY <2>1
<1>4. Len(g) \in Nat /\ Len(g) >= 1 /\ Len(l) = Len(g) + 1 /\ l[Len(g) + 1] = NL /\ l[Len(g)] = g[Len(g)]
  <2> HIDE DEF g, l
  <2>1. g \in Seq(Atoms)
    BY <1>3 DEF Text
  <2> QED
    BY ONLY <1>3, <2>1
<1>7. (\E k \in i + 1 .. Len(G) : Core(G[k]) # <<>>) => Len(y) > 0
  <2> SUFFICES ASSUME NEW k \in i + 1 .. Len(G), Core(G[k]) # <<>> PROVE Len(y) > 0
    OBVIOUS
  <2> DEFINE c == Slice(G, i, Len(G))
             n == Len(G)
  <2>1. i \in Nat /\ n \in Nat /\ i <= n /\ n <= Len(G)
    BY <1>1
  <2>2. c \in Seq(Text) /\ Len(c) = n - i /\ \A m \in 1 .. n - i : c[m] = G[i + m]
    <3> HIDE DEF n
    <3> QED
      BY ONLY <1>1, <2>1, SliceOf DEF n
  <2>3. k - i \in 1 .. n - i /\ i + (k - i) = k
    BY <2>1
  <2>4. c[k - i] = G[k] /\ k - i \in 1 .. Len(c)
    BY ONLY <2>2, <2>3
  <2>5. G[k] \in Text
    BY <1>1
  <2>6. core[c[k - i]] # <<>>
    BY <1>0, <2>4, <2>5
  <2> HIDE DEF c
  <2>7. Spelled(core, c) # <<>>
    <3>1. c \in Seq(Text) /\ core \in [Text -> Seq(Atoms)]
      BY <1>0, <2>2
    <3>2. Spelled(core, c) = <<>> => \A m \in 1 .. Len(c) : core[c[m]] = <<>>
      BY ONLY <3>1, SpelledEmpty
    <3> QED
      BY ONLY <2>4, <2>6, <3>2
  <2>8. y # <<>> /\ y \in Seq(Atoms)
    BY <1>2, <2>7 DEF c
  <2> HIDE DEF y
  <2> QED
    BY ONLY <2>8
<1> HIDE DEF x, g, l, y, K, w
<1>5. Beside(w, x, l) /\ w \in Seq(Atoms)
  BY ONLY <1>2, ConcatAt DEF w
<1>6. Beside(K, w, y) /\ Len(x) \in Nat /\ Len(y) \in Nat
  <2>1. Beside(w \o y, w, y)
    BY ONLY <1>2, <1>5, ConcatAt
  <2>2. Len(x) \in Nat /\ Len(y) \in Nat
    BY <1>2
  <2> QED
    BY ONLY <1>2, <2>1, <2>2
<1> DEFINE p == Len(x) + Len(g) + 1
<1>8. Len(w) = p /\ w[p] = NL /\ w[p - 1] = g[Len(g)] /\ p >= 2 /\ p \in Nat
  <2>1. Len(w) = Len(x) + Len(l) /\ \A k \in 1 .. Len(l) : w[Len(x) + k] = l[k]
    BY ONLY <1>5 DEF Beside
  <2>2. w[Len(x) + (Len(g) + 1)] = NL /\ w[Len(x) + Len(g)] = g[Len(g)]
    BY ONLY <1>4, <2>1
  <2> QED
    BY ONLY <1>4, <1>6, <2>1, <2>2
<1> HIDE DEF p
<1>9. Len(K) = p + Len(y) /\ K[p] = NL /\ K[p - 1] = g[Len(g)]
  BY ONLY <1>6, <1>8 DEF Beside
<1>10. EndAt(K, g, p)
  BY ONLY <1>3, <1>6, <1>8, <1>9 DEF EndAt
<1>11. Len(y) > 0 => p < Len(K)
  BY ONLY <1>6, <1>8, <1>9
<1> QED
  BY <1>7, <1>10, <1>11 DEF K, g, y

\* What the lines that make one line m have to do with it.
Row(G, gist) ==
    /\ \A i \in 1 .. Len(G) : \A k \in i + 1 .. Len(G) :
          Core(G[i]) # <<>> /\ Core(G[k]) # <<>> => Last(Gist(G[i])) = HyphenWord
    /\ \A x : x \in Range(gist) /\ x # JoinedWord => \E i \in 1 .. Len(G) : x \in Range(Gist(G[i]))
    /\ JoinedWord \notin Range(gist) =>
          \E i \in 1 .. Len(G) : Gist(G[i]) = gist /\ \A k \in 1 .. Len(G) : k # i => Core(G[k]) = <<>>

\* The lines that became one line: all but the last end in a broken word, and what the line shows,
\* one of them showed.
LEMMA RowLines ==
    ASSUME NEW G, FlatLines(G), NEW m \in Text, Flat(m), Gist(m) # <<>>, Alike(G, Core(m))
    PROVE  Row(G, Gist(m))
<1> DEFINE gm == Gist(m)
           K == Spelled(core, G)
<1>0. core \in [Text -> Seq(Atoms)] /\ \A t \in Text : core[t] = Core(t)
  BY TextsAre
<1>1. G \in Seq(Text) /\ \A i \in 1 .. Len(G) : G[i] \in Text /\ Flat(G[i])
  BY DEF FlatLines
<1>2. gm \in Text /\ (\A i \in 1 .. Len(gm) : gm[i] \notin Noise) /\ gm # <<>> /\ Core(m) = Append(gm, NL)
  <2>1. /\ gm \in Text /\ (\A i \in 1 .. Len(gm) : gm[i] \notin Noise)
        /\ Core(m) = IF gm = <<>> THEN <<>> ELSE Append(gm, NL)
    BY CoreFlat
  <2> QED
    BY <2>1
<1>3. PICK u : Sim(u, K, Append(gm, NL))
  BY <1>2 DEF Alike
<1> HIDE DEF gm, K
<1>4. \A i \in 1 .. Len(gm) : gm[i] # NL
  BY <1>2, LettersAre
<1>5. PICK h \in Text : K = Append(h, NL) /\ Breaking(h, gm)
  BY ONLY <1>2, <1>3, <1>4, LineUnits
<1>6. Len(K) = Len(h) + 1 /\ (\A p \in 1 .. Len(h) : K[p] = h[p]) /\ Len(h) \in Nat /\ K[Len(h) + 1] = NL
  <2>1. h \in Seq(Atoms)
    BY DEF Text
  <2> QED
    BY ONLY <1>5, <2>1
<1>7. ASSUME NEW i \in 1 .. Len(G), NEW k \in i + 1 .. Len(G), Core(G[i]) # <<>>, Core(G[k]) # <<>>
      PROVE  /\ Last(Gist(G[i])) = HyphenWord
             /\ \E p \in 1 .. Len(h) : h[p] = NL
  <2>1. PICK p : EndAt(K, Gist(G[i]), p) /\ p < Len(K)
    BY ONLY <1>7, FlatLines(G), LineAt DEF K
  <2>2. p \in 2 .. Len(K) /\ K[p] = NL /\ K[p - 1] = Gist(G[i])[Len(Gist(G[i]))]
    BY <2>1 DEF EndAt
  <2>3. p \in 1 .. Len(h) /\ p - 1 \in 1 .. Len(h)
    BY <1>6, <2>1, <2>2
  <2>4. h[p] = NL /\ h[p - 1] = K[p - 1]
    BY <1>6, <2>2, <2>3
  <2>5. h[p - 1] = HyphenWord
    BY <1>5, <2>3, <2>4 DEF Breaking
  <2> QED
    BY <2>2, <2>3, <2>4, <2>5 DEF Last
<1>8. ASSUME NEW x, x \in Range(gm), x # JoinedWord PROVE \E i \in 1 .. Len(G) : x \in Range(Gist(G[i]))
  <2>1. PICK n \in 1 .. Len(gm) : gm[n] = x
    BY <1>2, <1>8 DEF Range, Text
  <2>2. x \notin Noise
    BY <1>2, <2>1
  <2>3. PICK p \in 1 .. Len(h) : h[p] = x
    BY <1>5, <1>8, <2>1 DEF Breaking
  <2>4. p \in 1 .. Len(K) /\ K[p] = x
    BY <1>6, <2>3
  <2>5. PICK i \in 1 .. Len(G) : \E k \in 1 .. Len(core[G[i]]) : core[G[i]][k] = x
    <3>1. \E i \in 1 .. Len(G) : \E k \in 1 .. Len(core[G[i]]) : core[G[i]][k] = Spelled(core, G)[p]
      <4>1. p \in 1 .. Len(Spelled(core, G)) /\ G \in Seq(Text) /\ core \in [Text -> Seq(Atoms)]
        BY <1>0, <1>1, <2>4 DEF K
      <4>2. Spells(core, G)
        BY ONLY <4>1, SpelledHas
      <4> QED
        BY ONLY <4>1, <4>2 DEF Spells
    <3> QED
      BY <2>4, <3>1 DEF K
  <2>6. core[G[i]] = Core(G[i]) /\ G[i] \in Text /\ Flat(G[i])
    BY <1>0, <1>1
  <2>7. PICK k \in 1 .. Len(Core(G[i])) : Core(G[i])[k] = x
    BY <2>5, <2>6
  <2> DEFINE g == Gist(G[i])
  <2>8. g \in Text /\ Core(G[i]) = IF g = <<>> THEN <<>> ELSE Append(g, NL)
    BY ONLY <2>6, CoreFlat
  <2> HIDE DEF g
  <2>9. g \in Seq(Atoms) /\ Core(G[i]) = Append(g, NL)
    <3>1. Core(G[i]) # <<>>
      BY <2>7
    <3> QED
      BY <2>8, <3>1 DEF Text
  <2>10. x # NL
    BY <2>2, LettersAre
  <2>11. k \in 1 .. Len(g) /\ g[k] = x
    BY <2>7, <2>9, <2>10
  <2>12. x \in Range(g)
    BY <2>9, <2>11 DEF Range
  <2> QED
    BY <2>12 DEF g
<1>9. ASSUME JoinedWord \notin Range(gm)
      PROVE  \E i \in 1 .. Len(G) : Gist(G[i]) = gm /\ \A k \in 1 .. Len(G) : k # i => Core(G[k]) = <<>>
  <2>1. h = gm
    <3>1. \A i \in 1 .. Len(gm) : gm[i] # JoinedWord
      BY <1>2, <1>9 DEF Range, Text
    <3> QED
      BY <1>5, <3>1 DEF Breaking
  <2>2. \E i \in 1 .. Len(G) : Core(G[i]) # <<>>
    <3> SUFFICES ASSUME \A i \in 1 .. Len(G) : Core(G[i]) = <<>> PROVE FALSE
      OBVIOUS
    <3>1. \A i \in 1 .. Len(G) : core[G[i]] = <<>>
      BY <1>0, <1>1
    <3>2. Spelled(core, G) = <<>>
      BY ONLY <1>0, <1>1, <3>1, SpelledVoid
    <3>3. Len(K) = 0
      BY <3>2 DEF K
    <3> QED
      BY <1>6, <3>3
  <2>3. PICK i \in 1 .. Len(G) : Core(G[i]) # <<>>
    BY <2>2
  <2>4. \A k \in 1 .. Len(G) : k # i => Core(G[k]) = <<>>
    <3> SUFFICES ASSUME NEW k \in 1 .. Len(G), k # i, Core(G[k]) # <<>> PROVE FALSE
      OBVIOUS
    <3>1. ~ \E p \in 1 .. Len(h) : h[p] = NL
      BY <1>4, <2>1
    <3>2. CASE k > i
      <4>1. k \in i + 1 .. Len(G)
        BY <3>2
      <4> QED
        BY <1>7, <2>3, <3>1, <4>1
    <3>3. CASE i > k
      <4>1. i \in k + 1 .. Len(G)
        BY <3>3
      <4> QED
        BY <1>7, <2>3, <3>1, <4>1
    <3> QED
      BY <3>2, <3>3
  <2>5. K = Core(G[i])
    <3> DEFINE x == Spelled(core, Slice(G, 0, i - 1))
               y == Spelled(core, Slice(G, i, Len(G)))
               l == Core(G[i])
    <3>1. K = (x \o l) \o y /\ l \in Seq(Atoms)
      <4>1. Around3(core, G, i) /\ core[G[i]] \in Seq(Atoms)
        BY ONLY <1>0, <1>1, i \in 1 .. Len(G), SpelledAround
      <4>2. core[G[i]] = l
        BY <1>0, <1>1
      <4> QED
        BY ONLY <4>1, <4>2 DEF Around3, K
    <3>2. x = <<>>
      <4> DEFINE d == i - 1
                 c == Slice(G, 0, d)
      <4>1. d \in Nat /\ 0 \in Nat /\ 0 <= d /\ d <= Len(G) /\ d - 0 = d
        BY <1>1
      <4> HIDE DEF d
      <4>2. c \in Seq(Text) /\ Len(c) = d - 0 /\ \A k \in 1 .. d - 0 : c[k] = G[0 + k]
        BY ONLY <1>1, <4>1, SliceOf
      <4> HIDE DEF c
      <4>3. ASSUME NEW k \in 1 .. Len(c) PROVE core[c[k]] = <<>>
        <5>1. k \in 1 .. Len(G) /\ k # i /\ c[k] = G[k]
          BY <4>1, <4>2 DEF d
        <5> QED
          BY <1>0, <1>1, <2>4, <5>1
      <4>4. Spelled(core, c) = <<>>
        BY ONLY ZenonT(40), <1>0, <4>2, <4>3, SpelledVoid
      <4> QED
        BY <4>4 DEF c, d
    <3>3. y = <<>>
      <4> DEFINE n == Len(G)
                 c == Slice(G, i, n)
      <4>1. i \in Nat /\ n \in Nat /\ i <= n /\ n <= Len(G)
        BY <1>1
      <4> HIDE DEF n
      <4>2. c \in Seq(Text) /\ Len(c) = n - i /\ \A k \in 1 .. n - i : c[k] = G[i + k]
        BY ONLY <1>1, <4>1, SliceOf
      <4> HIDE DEF c
      <4>3. ASSUME NEW k \in 1 .. Len(c) PROVE core[c[k]] = <<>>
        <5>1. i + k \in 1 .. Len(G) /\ i + k # i /\ c[k] = G[i + k]
          BY <4>1, <4>2
        <5> QED
          BY <1>0, <1>1, <2>4, <5>1
      <4>4. Spelled(core, c) = <<>>
        BY ONLY ZenonT(40), <1>0, <4>2, <4>3, SpelledVoid
      <4> QED
        BY <4>4 DEF c, n
    <3> HIDE DEF x, y, l
    <3>4. <<>> \o l = l /\ l \o <<>> = l
      BY <3>1, ConcatEmpty
    <3> QED
      BY <3>1, <3>2, <3>3, <3>4 DEF l
  <2> DEFINE g == Gist(G[i])
  <2>6. g \in Text /\ Core(G[i]) = IF g = <<>> THEN <<>> ELSE Append(g, NL)
    <3>1. G[i] \in Text /\ Flat(G[i])
      BY <1>1
    <3> QED
      BY ONLY <3>1, CoreFlat
  <2> HIDE DEF g
  <2>7. Append(g, NL) = Append(gm, NL)
    BY <1>5, <2>1, <2>3, <2>5, <2>6
  <2>8. g = gm
    <3>1. g \in Seq(Atoms) /\ gm \in Seq(Atoms)
      BY <1>2, <2>6 DEF Text
    <3> DEFINE a == Append(g, NL)
               b == Append(gm, NL)
    <3>2. Len(a) = Len(g) + 1 /\ (\A k \in 1 .. Len(g) : a[k] = g[k]) /\ Len(g) \in Nat
      BY <3>1
    <3>3. Len(b) = Len(gm) + 1 /\ (\A k \in 1 .. Len(gm) : b[k] = gm[k]) /\ Len(gm) \in Nat
      BY <3>1
    <3>4. a = b
      BY <2>7
    <3> HIDE DEF a, b
    <3>5. Len(g) = Len(gm) /\ \A k \in 1 .. Len(g) : g[k] = gm[k]
      BY ONLY <3>2, <3>3, <3>4
    <3> QED
      BY ONLY <3>1, <3>5, SameSequence
  <2> QED
    BY <2>4, <2>8 DEF g
<1> QED
  BY <1>7, <1>8, <1>9 DEF Row, gm

\* The gist of a text is that of the text stripped.
LEMMA GistStrip == ASSUME NEW t \in Text PROVE Gist(Strip(t)) = Gist(t) /\ Gist(t) \in Text
<1>1. PICK a \in Text, b \in Text : Only(a, Whitespace) /\ Only(b, Whitespace) /\ t = (a \o Strip(t)) \o b
  BY Around
<1>2. Strip(t) \in Text
  BY StripText
<1> DEFINE s == Strip(t)
<1>3. s \in Text
  BY <1>2
<1> HIDE DEF s
<1>4. ink \in [Atoms -> Seq(Atoms)] /\ Whitespace \subseteq Noise /\ Noise \subseteq Atoms
  BY LettersAre
<1>5. ASSUME NEW w \in Text, Only(w, Whitespace) PROVE Spelled(ink, w) = <<>>
  <2>1. \A i \in 1 .. Len(w) : ink[w[i]] = <<>>
    <3>1. \A i \in 1 .. Len(w) : w[i] \in Noise /\ w[i] \in Atoms
      BY <1>4, <1>5 DEF Only
    <3> QED
      BY <3>1 DEF ink
  <2>2. w \in Seq(Atoms)
    BY DEF Text
  <2>3. ink \in [Atoms -> Seq(Atoms)]
    BY <1>4
  <2> QED
    BY ONLY <2>1, <2>2, <2>3, SpelledVoid
<1>6. a \in Seq(Atoms) /\ b \in Seq(Atoms) /\ s \in Seq(Atoms) /\ a \o s \in Seq(Atoms)
  BY <1>3 DEF Text
<1>7. Law(ink, Atoms)
  BY ONLY <1>4, SpelledLaw
<1>8. Spelled(ink, (a \o s) \o b) = (Spelled(ink, a) \o Spelled(ink, s)) \o Spelled(ink, b)
  <2>1. a \in Seq(Atoms) /\ s \in Seq(Atoms) /\ b \in Seq(Atoms)
    BY <1>6
  <2>2. InThree(ink, a, s, b)
    BY ONLY <1>7, <2>1, SpelledThree
  <2> QED
    BY ONLY <2>2 DEF InThree
<1> DEFINE z == Spelled(ink, s)
<1>9. z \in Seq(Atoms)
  BY ONLY <1>4, <1>6, SpelledSeq
<1>10. Spelled(ink, a) = <<>> /\ Spelled(ink, b) = <<>>
  BY <1>1, <1>5
<1> HIDE DEF z
<1>11. (<<>> \o z) \o <<>> = z
  BY <1>9, ConcatEmpty
<1>12. Spelled(ink, t) = z
  <2>1. t = (a \o s) \o b
    BY <1>1 DEF s
  <2>2. Spelled(ink, (a \o s) \o b) = (<<>> \o z) \o <<>>
    BY <1>8, <1>10 DEF z
  <2> QED
    BY ONLY <1>11, <2>1, <2>2
<1> QED
  BY <1>2, <1>3, <1>9, <1>12, GistIs DEF s, z, Text

\* A text without whitespace is stripped.
LEMMA StripInk ==
    ASSUME NEW s \in Text, s # <<>>, \A i \in 1 .. Len(s) : s[i] \notin Whitespace
    PROVE  Strip(s) = s
<1> DEFINE I == InkAt(s)
           n == Len(s)
<1>1. I = 1 .. n /\ n \in Nat /\ n >= 1
  BY DEF InkAt, Text
<1>2. 1 \in I /\ n \in I /\ I # {} /\ I \in SUBSET (1 .. n)
  BY <1>1
<1>3. Strip(s) = SubSeq(s, Min(I), Max(I))
  BY <1>2 DEF Strip
<1>4. Min(I) = 1 /\ Max(I) = n
  <2> HIDE DEF I, n
  <2>1. 1 \in Int /\ n \in Int
    BY <1>1
  <2>2. Min(I) \in I /\ \A k \in I : Min(I) <= k
    BY ONLY <1>2, <2>1, MinOf
  <2>3. Max(I) \in I /\ \A k \in I : k <= Max(I)
    BY ONLY <1>2, <2>1, MaxOf
  <2> QED
    BY ONLY <1>1, <1>2, <2>2, <2>3
<1>5. SubSeq(s, 1, n) = s
  BY DEF Text
<1> QED
  BY <1>3, <1>4, <1>5

Heading(gist) == IsTocHeading(gist) /\ JoinedWord \notin Range(gist) /\ gist # <<>>

\* The gist of a contents heading is a contents heading, with no joined word in it.
LEMMA HeadingGist == ASSUME NEW line \in Text, IsTocHeading(line) PROVE Heading(Gist(line))
<1> DEFINE s == Strip(line)
<1>1. s \in {<<"Contents">>} \cup {<<m, "Contents">> : m \in HeadingMark} /\ s \in Text
  BY StripText DEF IsTocHeading
<1> HIDE DEF s
<1>2. "Contents" \in Atoms \ Noise /\ HeadingMark \subseteq Atoms \ Noise
  BY DEF HeadingMark, Noise, Whitespace, Bullets, Dots, Circle, Section, PageNumber, Atoms, Words, NL, CRLF, FF, SP
<1>3. s # <<>> /\ \A i \in 1 .. Len(s) : s[i] \notin Noise /\ s[i] # JoinedWord /\ s[i] \in Atoms
  <2>1. CASE s = <<"Contents">>
    <3>1. "Contents" # JoinedWord
      BY DEF JoinedWord
    <3> QED
      BY <1>2, <2>1, <3>1
  <2>2. CASE s \in {<<m, "Contents">> : m \in HeadingMark}
    <3>1. PICK m \in HeadingMark : s = <<m, "Contents">>
      BY <2>2
    <3>2. "Contents" # JoinedWord /\ m # JoinedWord
      BY DEF JoinedWord, HeadingMark
    <3>3. Len(s) = 2 /\ s[1] = m /\ s[2] = "Contents"
      BY <3>1
    <3>4. \A i \in 1 .. Len(s) : i = 1 \/ i = 2
      BY <3>3
    <3>5. s # <<>>
      BY <3>3
    <3>6. m \in Atoms \ Noise
      BY <1>2
    <3> QED
      BY <1>2, <3>2, <3>3, <3>4, <3>5, <3>6
  <2> QED
    BY <1>1, <2>1, <2>2
<1>4. Gist(s) = s
  <2> DEFINE D == {i \in DOMAIN s : s[i] \notin Noise}
  <2>1. D = DOMAIN s
    <3>1. DOMAIN s = 1 .. Len(s)
      BY <1>1 DEF Text
    <3> QED
      BY <1>3, <3>1
  <2>2. Selected(s, DOMAIN s) = s
    <3>1. s \in Seq(Atoms)
      BY <1>1 DEF Text
    <3>2. PICK f : Selects(f, Atoms, s, DOMAIN s)
      BY ONLY <3>1, SelectedRun
    <3>3. PICK pre : Beginnings(pre, Atoms, s)
      BY ONLY <3>1, PrefixesOf
    <3> DEFINE S == {k \in Nat : f[k] = pre[k]}
               n == Len(s)
    <3>4. /\ f[0] = <<>> /\ Selected(s, DOMAIN s) = f[n] /\ \A k \in 1 .. n : f[k] = Append(f[k - 1], s[k])
      <4>1. DOMAIN s = 1 .. Len(s)
        BY <3>1
      <4> QED
        BY <3>2, <4>1 DEF Selects
    <3>5. pre[0] = <<>> /\ pre[n] = s /\ \A k \in 1 .. n : pre[k] = Append(pre[k - 1], s[k])
      BY <3>3 DEF Beginnings
    <3>6. n \in Nat
      BY <3>1
    <3>7. \A k \in 0 .. n : f[k] = pre[k]
      <4> HIDE DEF n
      <4>1. 0 \in S
        BY <3>4, <3>5
      <4>2. ASSUME NEW k \in 1 .. n, k - 1 \in S PROVE k \in S
        <5>1. f[k - 1] = pre[k - 1] /\ k \in Nat
          BY <4>2
        <5>2. f[k] = Append(f[k - 1], s[k]) /\ pre[k] = Append(pre[k - 1], s[k])
          BY <3>4, <3>5 DEF n
        <5> QED
          BY ONLY <5>1, <5>2 DEF S
      <4> HIDE DEF S
      <4>3. \A k \in 0 .. n : k \in S
        BY ONLY <3>6, <4>1, <4>2, Forwards
      <4> QED
        BY <4>3 DEF S
    <3>8. n \in 0 .. n
      BY <3>6
    <3> QED
      BY <3>4, <3>5, <3>7, <3>8
  <2> QED
    BY <2>1, <2>2 DEF Gist
<1>5. Gist(line) = s
  BY <1>4, GistStrip DEF s
<1>6. Strip(s) = s
  <2>1. \A i \in 1 .. Len(s) : s[i] \notin Whitespace
    BY <1>3 DEF Noise
  <2> QED
    BY <1>1, <1>3, <2>1, StripInk
<1>7. IsTocHeading(s)
  BY <1>1, <1>6 DEF IsTocHeading
<1>8. JoinedWord \notin Range(s)
  BY <1>1, <1>3 DEF Range, Text
<1> QED
  BY <1>3, <1>5, <1>7, <1>8 DEF Heading

\* The elements of a gist are those of the text that are no noise.
LEMMA GistRange == ASSUME NEW t \in Text PROVE \A x : x \in Range(Gist(t)) <=> x \in Range(t) /\ x \notin Noise
<1>1. ink \in [Atoms -> Seq(Atoms)] /\ t \in Seq(Atoms) /\ Gist(t) = Spelled(ink, t)
  BY LettersAre, GistIs DEF Text
<1>2. \A i \in 1 .. Len(t) : t[i] \in Atoms /\ ink[t[i]] = IF t[i] \in Noise THEN <<>> ELSE <<t[i]>>
  BY <1>1 DEF ink
<1> DEFINE K == Spelled(ink, t)
<1>3. K \in Seq(Atoms)
  BY ONLY <1>1, SpelledSeq
<1>4. \A x : x \in Range(K) <=> \E p \in 1 .. Len(K) : K[p] = x
  <2> HIDE DEF K
  <2> QED
    BY <1>3 DEF Range
<1>5. \A x : x \in Range(t) <=> \E i \in 1 .. Len(t) : t[i] = x
  BY <1>1 DEF Range
<1>6. ASSUME NEW p \in 1 .. Len(K) PROVE \E i \in 1 .. Len(t) : t[i] = K[p] /\ t[i] \notin Noise
  <2>1. Spells(ink, t)
    BY ONLY <1>1, SpelledHas
  <2>2. PICK i \in 1 .. Len(t) : \E k \in 1 .. Len(ink[t[i]]) : ink[t[i]][k] = K[p]
    BY ONLY <2>1, p \in 1 .. Len(K) DEF Spells
  <2>3. PICK k \in 1 .. Len(ink[t[i]]) : ink[t[i]][k] = K[p]
    BY <2>2
  <2>4. t[i] \notin Noise
    <3> SUFFICES ASSUME t[i] \in Noise PROVE FALSE
      OBVIOUS
    <3>1. ink[t[i]] = <<>>
      BY <1>2
    <3>2. Len(ink[t[i]]) = 0
      BY <3>1
    <3> QED
      BY <2>3, <3>2
  <2>5. ink[t[i]] = <<t[i]>>
    BY <1>2, <2>4
  <2>6. k = 1 /\ ink[t[i]][1] = t[i]
    BY <2>3, <2>5
  <2> QED
    BY <2>3, <2>4, <2>6
<1>7. ASSUME NEW i \in 1 .. Len(t), t[i] \notin Noise PROVE \E p \in 1 .. Len(K) : K[p] = t[i]
  <2> DEFINE x == Spelled(ink, Slice(t, 0, i - 1))
             l == <<t[i]>>
             y == Spelled(ink, Slice(t, i, Len(t)))
             w == x \o l
  <2>1. K = w \o y /\ x \in Seq(Atoms) /\ l \in Seq(Atoms) /\ y \in Seq(Atoms)
    <3>1. Around3(ink, t, i) /\ x \in Seq(Atoms) /\ y \in Seq(Atoms) /\ ink[t[i]] \in Seq(Atoms)
      BY ONLY <1>1, i \in 1 .. Len(t), SpelledAround
    <3>2. ink[t[i]] = l
      BY <1>2, <1>7
    <3> QED
      BY ONLY <3>1, <3>2 DEF Around3
  <2>2. Len(l) = 1 /\ l[1] = t[i]
    OBVIOUS
  <2> HIDE DEF x, l, y, K, w
  <2>3. Beside(w, x, l) /\ w \in Seq(Atoms)
    BY ONLY <2>1, ConcatAt DEF w
  <2>4. Beside(K, w, y) /\ Len(x) \in Nat /\ Len(y) \in Nat
    <3>1. Beside(w \o y, w, y)
      BY ONLY <2>1, <2>3, ConcatAt
    <3>2. Len(x) \in Nat /\ Len(y) \in Nat
      BY <2>1
    <3> QED
      BY ONLY <2>1, <3>1, <3>2
  <2>5. Len(w) = Len(x) + 1 /\ w[Len(x) + 1] = t[i]
    BY <2>2, <2>3 DEF Beside
  <2>6. Len(x) + 1 \in 1 .. Len(K) /\ K[Len(x) + 1] = t[i]
    BY <2>4, <2>5 DEF Beside
  <2> QED
    BY <2>6
<1> HIDE DEF K
<1>8. ASSUME NEW x PROVE x \in Range(K) <=> x \in Range(t) /\ x \notin Noise
  <2>1. ASSUME x \in Range(K) PROVE x \in Range(t) /\ x \notin Noise
    <3>1. PICK p \in 1 .. Len(K) : K[p] = x
      BY <1>4, <2>1
    <3>2. PICK i \in 1 .. Len(t) : t[i] = K[p] /\ t[i] \notin Noise
      BY <1>6
    <3> QED
      BY ONLY <1>5, <3>1, <3>2
  <2>2. ASSUME x \in Range(t), x \notin Noise PROVE x \in Range(K)
    <3>1. PICK i \in 1 .. Len(t) : t[i] = x
      BY <1>5, <2>2
    <3>2. \E p \in 1 .. Len(K) : K[p] = t[i]
      BY <1>7, <2>2, <3>1
    <3> QED
      BY <1>4, <3>1, <3>2
  <2> QED
    BY <2>1, <2>2
<1>9. Gist(t) = K
  BY <1>1 DEF K
<1> QED
  BY ONLY <1>8, <1>9

RuleGist(gist) == Bar \in Range(gist) /\ Range(gist) \subseteq {Bar, Rule, Leader}

\* The gist of a separator row is bars and rules, with no joined word in it.
LEMMA SeparatorGist ==
    ASSUME NEW line \in Text, SeparatorLine(line), Bar \in Range(line)
    PROVE  RuleGist(Gist(line)) /\ JoinedWord \notin Range(Gist(line)) /\ Gist(line) # <<>>
<1> DEFINE W == Whitespace \cup {Bar, Rule, Leader}
           parts == Split(line, Bar)
           cells == Map(Strip, Split(line, Bar))
           lo == IF Head(cells) = <<>> THEN 2 ELSE 1
           hi == IF Len(cells) > 1 /\ Last(cells) = <<>> THEN Len(cells) - 1 ELSE Len(cells)
<1>1. parts \in Seq(Text) /\ parts # <<>> /\ Join(parts, <<Bar>>) = line
  <2>1. line \in Seq(Atoms) /\ Bar \in Atoms
    BY NoWords DEF Text
  <2>2. parts \in Parts(Atoms)
    BY ONLY <2>1, SplitAppend
  <2>3. Join(parts, <<Bar>>) = line
    BY ONLY <2>1, JoinSplit
  <2> QED
    BY <2>2, <2>3 DEF Parts, Text
<1>2. DOMAIN cells = DOMAIN parts /\ \A i \in DOMAIN parts : cells[i] = Strip(parts[i])
  BY DEF Map
<1>3. cells \in Seq(Text)
  BY WordsOfCells
<1>4. Cells(line) = SubSeq(cells, lo, hi)
  BY DEF Cells, WithoutEmptyEnds
<1> HIDE DEF parts, cells
<1>5. Len(cells) = Len(parts) /\ Len(cells) > 0 /\ Len(cells) \in Nat
  BY <1>1, <1>2, <1>3
<1>6. cells[1] = Head(cells) /\ Last(cells) = cells[Len(cells)]
  BY <1>3, <1>5 DEF Last
<1>7. lo \in 1 .. Len(cells) + 1 /\ hi \in lo - 1 .. Len(cells)
  BY <1>5, <1>6
<1>8. \A i \in 1 .. Len(cells) : i < lo \/ hi < i => cells[i] = <<>>
  BY <1>5, <1>6
<1> HIDE DEF lo, hi
<1>9. ASSUME NEW i \in 1 .. Len(cells) PROVE Range(cells[i]) \subseteq {Rule, Leader, SP}
  <2>1. CASE i < lo \/ hi < i
    BY <1>8, <2>1 DEF Range
  <2>2. CASE lo <= i /\ i <= hi
    <3> DEFINE c == Cells(line)
               k == i - lo + 1
    <3>1. k \in 1 .. hi - lo + 1
      BY <1>5, <1>7, <2>2
    <3>2. Len(c) = hi - lo + 1 /\ c[k] = cells[i] /\ DOMAIN c = 1 .. hi - lo + 1
      BY <1>3, <1>4, <1>7, <3>1
    <3> HIDE DEF c, k
    <3>3. \A m \in DOMAIN c : Range(c[m]) \subseteq {Rule, Leader, SP}
      BY DEF SeparatorLine, IsSeparatorRow, c
    <3> QED
      BY <3>1, <3>2, <3>3
  <2> QED
    BY <1>5, <1>7, <2>1, <2>2
<1>10. ASSUME NEW i \in 1 .. Len(parts) PROVE parts[i] \in Seq(W)
  <2> DEFINE s == Strip(parts[i])
  <2>1. parts[i] \in Text
    BY <1>1
  <2>2. PICK a \in Text, b \in Text : Only(a, Whitespace) /\ Only(b, Whitespace) /\ parts[i] = (a \o s) \o b
    BY <2>1, Around
  <2>3. s \in Text /\ Range(s) \subseteq {Rule, Leader, SP}
    <3>1. cells[i] = s
      BY <1>1, <1>2
    <3> QED
      BY <1>5, <1>9, <2>1, <3>1, StripText
  <2> HIDE DEF s, W
  <2>4. Only(s, {Rule, Leader, SP})
    BY <2>3, OnlyRange
  <2>5. Whitespace \subseteq W /\ {Rule, Leader, SP} \subseteq W
    BY DEF W, Whitespace
  <2>6. a \in Seq(W) /\ s \in Seq(W) /\ b \in Seq(W)
    <3>1. ASSUME NEW t \in Text, NEW N, Only(t, N), N \subseteq W PROVE t \in Seq(W)
      <4>1. \A k \in 1 .. Len(t) : t[k] \in W
        BY <3>1 DEF Only
      <4>2. t = [k \in 1 .. Len(t) |-> t[k]] /\ Len(t) \in Nat
        BY DEF Text
      <4>3. t \in [1 .. Len(t) -> W]
        BY ONLY <4>1, <4>2
      <4> QED
        BY ONLY <4>2, <4>3, IsSeq
    <3> QED
      BY <2>2, <2>3, <2>4, <2>5, <3>1
  <2>7. (a \o s) \o b \in Seq(W)
    BY ONLY <2>6, ConcatAt
  <2> QED
    BY ONLY <2>2, <2>7
<1>11. line \in Seq(W)
  <2>1. parts \in Seq(Seq(W))
    <3>1. parts = [k \in 1 .. Len(parts) |-> parts[k]] /\ Len(parts) \in Nat
      BY <1>1
    <3> DEFINE U == Seq(W)
    <3>2. \A k \in 1 .. Len(parts) : parts[k] \in U
      BY <1>10
    <3> HIDE DEF U
    <3>3. parts \in [1 .. Len(parts) -> U]
      BY ONLY <3>1, <3>2
    <3>4. parts \in Seq(U)
      BY ONLY <3>1, <3>3, IsSeq
    <3> QED
      BY <3>4 DEF U
  <2>2. <<Bar>> \in Seq(W)
    OBVIOUS
  <2> HIDE DEF W
  <2>3. Join(parts, <<Bar>>) \in Seq(W)
    BY ONLY <2>1, <2>2, JoinSequence
  <2> QED
    BY <1>1, <2>3
<1>12. \A x : x \in Range(Gist(line)) <=> x \in Range(line) /\ x \notin Noise
  BY GistRange
<1>13. Range(line) \subseteq W
  BY <1>11 DEF Range
<1>14. Bar \in Range(Gist(line))
  BY <1>12, LettersAre
<1>15. Range(Gist(line)) \subseteq {Bar, Rule, Leader}
  BY <1>12, <1>13 DEF Noise
<1>16. JoinedWord \notin {Bar, Rule, Leader}
  BY DEF JoinedWord, Bar, Rule, Leader
<1>17. Gist(line) # <<>>
  BY <1>14 DEF Range
<1> QED
  BY <1>14, <1>15, <1>16, <1>17 DEF RuleGist

\* Row, for the lines behind lo up to hi.
RowAt(B, lo, hi, gist) ==
    /\ \A i \in lo + 1 .. hi : \A k \in i + 1 .. hi :
          Gist(B[i]) # <<>> /\ Gist(B[k]) # <<>> => Last(Gist(B[i])) = HyphenWord
    /\ \A x : x \in Range(gist) /\ x # JoinedWord => \E i \in lo + 1 .. hi : x \in Range(Gist(B[i]))
    /\ JoinedWord \notin Range(gist) =>
          \E i \in lo + 1 .. hi : Gist(B[i]) = gist /\ \A k \in lo + 1 .. hi : k # i => Gist(B[k]) = <<>>

\* The lines of a group and the gist of the line they became.
LEMMA GroupRow ==
    ASSUME NEW B, FlatLines(B), NEW M, FlatLines(M), NEW g, Groups(g, B, M), NEW j \in 1 .. Len(M), Gist(M[j]) # <<>>
    PROVE  RowAt(B, g[j - 1], g[j], Gist(M[j])) /\ g[j - 1] \in Nat /\ g[j] \in Nat /\ g[j - 1] <= g[j] /\ g[j] <= Len(B)
<1> DEFINE lo == g[j - 1]
           hi == g[j]
           G == Slice(B, lo, hi)
           gist == Gist(M[j])
<1>1. /\ B \in Seq(Text) /\ (\A i \in 1 .. Len(B) : B[i] \in Text /\ Flat(B[i])) /\ Len(B) \in Nat
      /\ M[j] \in Text /\ Flat(M[j])
  <2>1. B \in Seq(Text) /\ M \in Seq(Text)
    BY DEF FlatLines
  <2> QED
    BY <2>1 DEF FlatLines
<1>2. lo \in 0 .. Len(B) /\ hi \in 0 .. Len(B) /\ lo <= hi /\ Alike(G, Core(M[j]))
  <2>1. j - 1 \in 0 .. Len(M) /\ j \in 0 .. Len(M)
    OBVIOUS
  <2> QED
    BY <2>1 DEF Groups
<1>3. lo \in Nat /\ hi \in Nat /\ lo <= hi /\ hi <= Len(B)
  BY <1>2
<1>4. G \in Seq(Text) /\ Len(G) = hi - lo /\ \A i \in 1 .. hi - lo : G[i] = B[lo + i]
  <2> HIDE DEF lo, hi
  <2> QED
    BY ONLY <1>1, <1>3, SliceOf DEF G
<1> HIDE DEF lo, hi, G, gist
<1>5. FlatLines(G)
  <2>1. \A i \in 1 .. hi - lo : lo + i \in 1 .. Len(B)
    BY <1>3
  <2> QED
    BY <1>1, <1>4, <2>1 DEF FlatLines
<1>6. Row(G, gist)
  BY <1>1, <1>2, <1>5, RowLines DEF gist
<1>7. \A i \in lo + 1 .. hi : i - lo \in 1 .. hi - lo /\ G[i - lo] = B[i] /\ i \in 1 .. Len(B)
  BY <1>3, <1>4
<1>8. \A i \in 1 .. Len(G) : i + lo \in lo + 1 .. hi /\ G[i] = B[i + lo]
  BY <1>3, <1>4
<1>9. \A i \in 1 .. Len(B) : Core(B[i]) = <<>> <=> Gist(B[i]) = <<>>
  <2> SUFFICES ASSUME NEW i \in 1 .. Len(B) PROVE Core(B[i]) = <<>> <=> Gist(B[i]) = <<>>
    OBVIOUS
  <2> DEFINE t == Gist(B[i])
  <2>1. B[i] \in Text /\ Flat(B[i])
    BY <1>1
  <2>2. t \in Text /\ Core(B[i]) = IF t = <<>> THEN <<>> ELSE Append(t, NL)
    BY ONLY <2>1, CoreFlat
  <2> HIDE DEF t
  <2>3. Append(t, NL) # <<>>
    <3>1. t \in Seq(Atoms)
      BY <2>2 DEF Text
    <3> DEFINE z == Append(t, NL)
    <3>2. Len(z) = Len(t) + 1 /\ Len(t) \in Nat
      BY <3>1
    <3>3. Len(z) # 0
      BY <3>2
    <3> HIDE DEF z
    <3>4. z # <<>>
      BY <3>3
    <3> QED
      BY <3>4 DEF z
  <2> QED
    BY <2>2, <2>3 DEF t
<1>10. ASSUME NEW i \in lo + 1 .. hi, NEW k \in i + 1 .. hi, Gist(B[i]) # <<>>, Gist(B[k]) # <<>>
       PROVE  Last(Gist(B[i])) = HyphenWord
  <2>1. k \in lo + 1 .. hi
    BY <1>3
  <2>2. G[i - lo] = B[i] /\ G[k - lo] = B[k] /\ i - lo \in 1 .. Len(G) /\ k - lo \in (i - lo) + 1 .. Len(G)
    BY SMTT(40), <1>3, <1>4, <1>7, <2>1
  <2>3. Core(B[i]) # <<>> /\ Core(B[k]) # <<>>
    BY <1>7, <1>9, <1>10, <2>1
  <2> QED
    BY <1>6, <2>2, <2>3 DEF Row
<1>11. ASSUME NEW x, x \in Range(gist), x # JoinedWord PROVE \E i \in lo + 1 .. hi : x \in Range(Gist(B[i]))
  <2>1. PICK i \in 1 .. Len(G) : x \in Range(Gist(G[i]))
    BY <1>6, <1>11 DEF Row
  <2> QED
    BY <1>8, <2>1
<1>12. ASSUME JoinedWord \notin Range(gist)
       PROVE  \E i \in lo + 1 .. hi : Gist(B[i]) = gist /\ \A k \in lo + 1 .. hi : k # i => Gist(B[k]) = <<>>
  <2>1. PICK i \in 1 .. Len(G) : Gist(G[i]) = gist /\ \A k \in 1 .. Len(G) : k # i => Core(G[k]) = <<>>
    BY <1>6, <1>12 DEF Row
  <2>2. i + lo \in lo + 1 .. hi /\ G[i] = B[i + lo]
    BY <1>8
  <2>3. ASSUME NEW k \in lo + 1 .. hi, k # i + lo PROVE Gist(B[k]) = <<>>
    <3>1. k - lo \in 1 .. Len(G) /\ G[k - lo] = B[k] /\ k \in 1 .. Len(B)
      BY <1>4, <1>7
    <3>2. k - lo # i
      BY <1>3, <2>3
    <3>3. Core(G[k - lo]) = <<>>
      BY <2>1, <3>1, <3>2
    <3> QED
      BY <1>9, <3>1, <3>3
  <2> QED
    BY <2>1, <2>2, <2>3
<1>13. RowAt(B, lo, hi, gist)
  BY ONLY <1>10, <1>11, <1>12 DEF RowAt
<1> QED
  BY <1>3, <1>13 DEF lo, hi, gist

\* The groups stand in the order of the lines they became.
LEMMA GroupsRise ==
    ASSUME NEW B \in Seq(Text), NEW M \in Seq(Text), NEW g, Groups(g, B, M), NEW a \in 0 .. Len(M), NEW b \in a .. Len(M)
    PROVE  g[a] <= g[b] /\ g[a] \in Nat /\ g[b] \in Nat
<1> DEFINE S == {k \in Int : k < a \/ g[a] <= g[k]}
           N == Len(M)
<1>1. /\ \A k \in 0 .. N : g[k] \in 0 .. Len(B)
      /\ \A k \in 1 .. N : g[k - 1] <= g[k]
      /\ N \in Nat /\ Len(B) \in Nat
  <2>1. g \in [0 .. N -> 0 .. Len(B)] /\ \A k \in 1 .. N : g[k - 1] <= g[k]
    BY DEF Groups
  <2>2. N \in Nat /\ Len(B) \in Nat
    OBVIOUS
  <2> HIDE DEF N
  <2> QED
    BY ONLY <2>1, <2>2
<1> HIDE DEF N
<1>2. 0 \in S
  <2>1. 0 < a \/ a = 0
    BY <1>1 DEF N
  <2> QED
    BY <1>1, <2>1
<1>3. ASSUME NEW k \in 1 .. N, k - 1 \in S PROVE k \in S
  <2>1. k - 1 \in 0 .. N /\ k \in 0 .. N /\ g[k - 1] \in Int /\ g[k] \in Int /\ g[a] \in Int
    BY <1>1 DEF N
  <2>2. k - 1 < a \/ g[a] <= g[k - 1]
    BY <1>3
  <2>3. CASE g[a] <= g[k - 1]
    BY <1>1, <2>1, <2>3
  <2>4. CASE k - 1 < a
    <3>1. k < a \/ k = a
      BY <2>4 DEF N
    <3> QED
      BY <2>1, <3>1
  <2> QED
    BY <2>2, <2>3, <2>4
<1> HIDE DEF S
<1>4. \A k \in 0 .. N : k \in S
  BY ONLY <1>1, <1>2, <1>3, Forwards
<1>5. b \in 0 .. N /\ a \in 0 .. N /\ b >= a
  BY DEF N
<1>6. b \in S
  BY <1>4, <1>5
<1> QED
  BY <1>1, <1>5, <1>6 DEF S

\* B is A without lines that have a twin.
Blotted(B, A) ==
    /\ B \in Seq(Text) /\ Len(B) = Len(A)
    /\ \A i \in 1 .. Len(B) : B[i] = A[i] \/ (B[i] = <<>> /\ Twin(A, i))

\* The empty line has an empty gist.
LEMMA GistNone == Gist(<<>>) = <<>>
<1>1. <<>> \in Text /\ Spelled(ink, <<>>) = <<>>
  BY SpelledNone, LettersAre DEF Text
<1> QED
  BY <1>1, GistIs

\* Every line of the group that became a contents header row is one of the text's contents header
\* rows.
LEMMA HeaderLines ==
    ASSUME NEW A, FlatLines(A), NEW B, Blotted(B, A), NEW M, FlatLines(M), NEW g, Groups(g, B, M),
           NEW j \in TocHeaders(M), NEW i \in g[j - 1] + 1 .. g[j]
    PROVE  i \in ContentsHeaders(A)
<1> DEFINE Faint(n) == Gist(A[n]) = <<>> \/ Twin(A, n)
           IsRule(k) == Bar \in Range(Gist(A[k])) /\ Range(Gist(A[k])) \subseteq {Bar, Rule, Leader}
           Ends(n, k) == (\A m \in n + 1 .. k - 1 : Faint(m)) \/ Faint(n)
           Above(k) == {n \in 1 .. k - 1 :
                           \A m \in n .. k - 1 : Ends(m, k) \/ Last(Gist(A[m])) = HyphenWord}
           Under(n) == \E h \in 1 .. n - 1 : IsTocHeading(Gist(A[h]))
<1>1. /\ B \in Seq(Text) /\ Len(B) = Len(A) /\ A \in Seq(Text) /\ M \in Seq(Text) /\ Len(B) \in Nat
      /\ \A n \in 1 .. Len(A) : A[n] \in Text
      /\ \A n \in 1 .. Len(M) : M[n] \in Text
  <2>1. B \in Seq(Text) /\ Len(B) = Len(A) /\ A \in Seq(Text) /\ M \in Seq(Text)
    BY DEF Blotted, FlatLines
  <2> QED
    BY <2>1
<1>2. FlatLines(B)
  <2>1. \A n \in 1 .. Len(A) : Flat(A[n])
    BY DEF FlatLines
  <2>2. Flat(<<>>)
    BY DEF Flat
  <2>3. \A n \in 1 .. Len(B) : B[n] = A[n] \/ B[n] = <<>>
    BY DEF Blotted
  <2> QED
    BY <1>1, <2>1, <2>2, <2>3 DEF FlatLines
<1>3. ASSUME NEW n \in 1 .. Len(B)
      PROVE  /\ Gist(B[n]) = <<>> => Faint(n)
             /\ Gist(B[n]) # <<>> => Gist(A[n]) = Gist(B[n])
  <2>1. B[n] = A[n] \/ (B[n] = <<>> /\ Twin(A, n))
    BY DEF Blotted
  <2> QED
    BY <2>1, GistNone
<1>4. /\ j \in 1 .. Len(M) - 1 /\ Bar \in Range(M[j]) /\ Bar \in Range(M[j + 1]) /\ SeparatorLine(M[j + 1])
      /\ \E h \in 1 .. j - 1 : IsTocHeading(M[h])
  BY DEF TocHeaders, HeaderRows
<1>5. PICK h \in 1 .. j - 1 : IsTocHeading(M[h])
  BY <1>4
<1>6. j \in 1 .. Len(M) /\ j + 1 \in 1 .. Len(M) /\ h \in 1 .. Len(M) /\ j - 1 \in 0 .. Len(M) /\ h \in 0 .. Len(M)
      /\ j - 1 \in h .. Len(M) /\ (j + 1) - 1 = j
  BY <1>1, <1>4
<1> DEFINE lo == g[j - 1]
           mid == g[j]
           hi == g[j + 1]
           top == g[h]
           row == Gist(M[j])
           sep == Gist(M[j + 1])
           title == Gist(M[h])
<1>7. Bar \in Range(row) /\ row # <<>> /\ Bar # JoinedWord
  <2>1. Bar \in Range(row)
    BY <1>1, <1>4, <1>6, GistRange, LettersAre
  <2>2. row # <<>>
    BY <2>1 DEF Range
  <2> QED
    BY <2>1, <2>2 DEF Bar, JoinedWord
<1>8. RuleGist(sep) /\ JoinedWord \notin Range(sep) /\ sep # <<>>
  BY <1>1, <1>4, <1>6, SeparatorGist
<1>9. Heading(title)
  BY <1>1, <1>5, <1>6, HeadingGist
<1>10. RowAt(B, lo, mid, row) /\ lo \in Nat /\ mid \in Nat /\ lo <= mid /\ mid <= Len(B)
  BY ONLY <1>2, <1>6, <1>7, FlatLines(M), Groups(g, B, M), GroupRow
<1>11. RowAt(B, mid, hi, sep) /\ hi \in Nat /\ mid <= hi /\ hi <= Len(B)
  <2> DEFINE n == j + 1
  <2>1. n \in 1 .. Len(M) /\ n - 1 = j /\ Gist(M[n]) # <<>>
    BY <1>6, <1>8
  <2> HIDE DEF n
  <2>2. RowAt(B, g[n - 1], g[n], Gist(M[n])) /\ g[n - 1] \in Nat /\ g[n] \in Nat /\ g[n - 1] <= g[n] /\ g[n] <= Len(B)
    BY ONLY <1>2, <2>1, FlatLines(M), Groups(g, B, M), GroupRow
  <2> QED
    BY <2>1, <2>2 DEF n
<1>12. RowAt(B, g[h - 1], top, title) /\ g[h - 1] \in Nat /\ top \in Nat
  <2>1. Gist(M[h]) # <<>>
    BY <1>9 DEF Heading
  <2> QED
    BY ONLY <1>2, <1>6, <2>1, FlatLines(M), Groups(g, B, M), GroupRow
<1>13. top <= lo
  BY ONLY <1>1, <1>6, Groups(g, B, M), GroupsRise
<1> HIDE DEF lo, mid, hi, top, row, sep, title
<1>14. PICK k \in mid + 1 .. hi : Gist(B[k]) = sep /\ \A n \in mid + 1 .. hi : n # k => Gist(B[n]) = <<>>
  BY <1>8, <1>11 DEF RowAt
<1>15. PICK b \in lo + 1 .. mid : Bar \in Range(Gist(B[b]))
  BY <1>7, <1>10 DEF RowAt
<1>16. PICK e \in g[h - 1] + 1 .. top : Gist(B[e]) = title
  BY <1>9, <1>12 DEF RowAt, Heading
<1>17. /\ k \in 1 .. Len(B) /\ b \in 1 .. Len(B) /\ e \in 1 .. Len(B) /\ e < b /\ b < k
       /\ k \in Nat /\ b \in Nat /\ e \in Nat
  BY <1>10, <1>11, <1>12, <1>13
<1> HIDE DEF Faint
<1>18. IsRule(k)
  BY <1>3, <1>8, <1>14, <1>17 DEF RuleGist
<1>19. Bar \in Range(Gist(A[b]))
  <2>1. Gist(B[b]) # <<>>
    BY <1>15 DEF Range
  <2> QED
    BY <1>3, <1>15, <1>17, <2>1
<1>20. Under(b)
  <2>1. Gist(A[e]) = title /\ e \in 1 .. b - 1
    BY <1>3, <1>9, <1>16, <1>17 DEF Heading
  <2> QED
    BY <1>9, <2>1 DEF Heading
<1>21. ASSUME NEW n \in lo + 1 .. mid PROVE n \in Above(k)
  <2>1. n \in 1 .. k - 1 /\ n \in Nat
    BY <1>10, <1>11, <1>14
  <2>2. ASSUME NEW m \in n .. k - 1 PROVE Ends(m, k) \/ Last(Gist(A[m])) = HyphenWord
    <3>1. m \in 1 .. Len(B) /\ m \in lo + 1 .. hi /\ m # k
      BY <1>10, <1>11, <1>14, <1>17
    <3>2. CASE Gist(B[m]) = <<>>
      <4>1. Faint(m)
        BY <1>3, <3>1, <3>2
      <4> QED
        BY <4>1
    <3>3. CASE Gist(B[m]) # <<>>
      <4>1. m \in lo + 1 .. mid
        BY <1>10, <1>11, <1>14, <3>1, <3>3
      <4>2. CASE \E d \in m + 1 .. mid : Gist(B[d]) # <<>>
        <5>1. Last(Gist(B[m])) = HyphenWord
          BY <1>10, <3>3, <4>1, <4>2 DEF RowAt
        <5> QED
          BY <1>3, <3>1, <3>3, <5>1
      <4>3. CASE \A d \in m + 1 .. mid : Gist(B[d]) = <<>>
        <5>1. ASSUME NEW d \in m + 1 .. k - 1 PROVE Faint(d)
          <6>1. d \in 1 .. Len(B) /\ (d \in m + 1 .. mid \/ d \in mid + 1 .. hi) /\ d # k
            BY <1>10, <1>11, <1>14, <1>17, <3>1
          <6>2. Gist(B[d]) = <<>>
            BY <1>14, <4>3, <6>1
          <6> QED
            BY <1>3, <6>1, <6>2
        <5> QED
          BY <5>1
      <4> QED
        BY <4>2, <4>3
    <3> QED
      BY <3>2, <3>3
  <2> QED
    BY <2>1, <2>2
<1>22. i \in lo + 1 .. mid
  BY DEF lo, mid
<1>23. k \in DOMAIN A
  BY <1>1, <1>17
<1> DEFINE Rules == {n \in DOMAIN A : IsRule(n) /\ \E d \in Above(n) : Bar \in Range(Gist(A[d])) /\ Under(d)}
<1>24. k \in Rules
  <2>1. b \in Above(k)
    BY <1>21
  <2> HIDE DEF Above, IsRule, Under
  <2> QED
    BY <1>18, <1>19, <1>20, <1>23, <2>1
<1>25. i \in Above(k)
  BY <1>21, <1>22
<1>26. ContentsHeaders(A) = UNION {Above(n) : n \in Rules}
  BY DEF ContentsHeaders, Faint
<1> HIDE DEF Above, Rules
<1> QED
  BY <1>24, <1>25, <1>26

\* The words of a part of the lines B, and of what is left of that part in low.
LEMMA GroupWords ==
    ASSUME NEW B \in Seq(Text), NEW low \in Seq(Text), Thins(low, B), NEW a \in Nat, NEW b \in Nat, a <= b, b <= Len(B),
           NEW k \in Text, Alike(Slice(B, a, b), k)
    PROVE  Sub(Spelled(words, Slice(low, a, b)), WordsOf(k)) /\ Slice(low, a, b) \in Seq(Text)
<1> DEFINE G == Slice(B, a, b)
           d == Slice(low, a, b)
<1>1. d \in Seq(Text) /\ G \in Seq(Text) /\ Thins(d, G)
  BY ThinsSlice
<1>2. PICK u : Sim(u, Spelled(core, G), k)
  BY DEF Alike
<1> HIDE DEF G, d
<1>3. WordsOf(Spelled(core, G)) = Spelled(words, G)
  BY <1>1, WordsOfCores
<1>4. WordsOf(Spelled(core, G)) = WordsOf(k)
  BY <1>2, WordsSim
<1>5. Sub(Spelled(words, d), Spelled(words, G))
  BY <1>1, ThinsSub
<1> QED
  BY <1>1, <1>3, <1>4, <1>5 DEF d

\* What is said by the lines that are no twins and no contents header rows is said by the lines
\* the groups became, those that are no contents header rows.
LEMMA GroupsWords ==
    ASSUME NEW A, FlatLines(A), NEW B, Blotted(B, A), NEW M, FlatLines(M), NEW g, Groups(g, B, M),
           NEW low \in Seq(Text), Thins(low, A),
           \A i \in 1 .. Len(A) : Twin(A, i) \/ i \in ContentsHeaders(A) => low[i] = <<>>,
           NEW lowM \in Seq(Text), Thins(lowM, M), \A j \in 1 .. Len(M) : j \notin TocHeaders(M) => lowM[j] = M[j]
    PROVE  Sub(Spelled(words, low), Spelled(words, lowM))
<1> DEFINE N == Len(M)
           x(j) == Slice(low, 0, g[j])
           y(j) == Slice(lowM, 0, j)
           S == {j \in Int : Sub(Spelled(words, x(j)), Spelled(words, y(j)))}
<1>1. /\ B \in Seq(Text) /\ A \in Seq(Text) /\ M \in Seq(Text) /\ Len(B) = Len(A) /\ Len(low) = Len(A) /\ Len(lowM) = N
      /\ N \in Nat /\ Len(B) \in Nat
  <2>1. B \in Seq(Text) /\ A \in Seq(Text) /\ M \in Seq(Text)
    BY DEF Blotted, FlatLines
  <2>2. Len(B) = Len(A) /\ Len(low) = Len(A) /\ Len(lowM) = N
    BY DEF Blotted, Thins
  <2> QED
    BY <2>1, <2>2
<1>2. Thins(low, B)
  BY <1>1 DEF Thins, Blotted
<1>3. /\ g[0] \in Nat /\ g[0] <= Len(B) /\ g[N] = Len(B)
      /\ \A j \in 1 .. N : /\ g[j - 1] \in Nat /\ g[j] \in Nat /\ g[j - 1] <= g[j] /\ g[j] <= Len(B)
                           /\ Alike(Slice(B, g[j - 1], g[j]), Core(M[j]))
      /\ Spelled(core, Slice(B, 0, g[0])) = <<>>
  <2>1. /\ g \in [0 .. N -> 0 .. Len(B)] /\ g[N] = Len(B)
        /\ \A j \in 1 .. N : g[j - 1] <= g[j] /\ Alike(Slice(B, g[j - 1], g[j]), Core(M[j]))
        /\ Spelled(core, Slice(B, 0, g[0])) = <<>>
    BY DEF Groups
  <2>2. \A j \in 0 .. N : g[j] \in Nat /\ g[j] <= Len(B)
    <3>1. g \in [0 .. N -> 0 .. Len(B)] /\ Len(B) \in Nat
      BY <1>1, <2>1
    <3> HIDE DEF N
    <3>2. \A j \in 0 .. N : g[j] \in 0 .. Len(B)
      BY ONLY <3>1
    <3> QED
      BY <3>1, <3>2
  <2>3. 0 \in 0 .. N /\ \A j \in 1 .. N : j \in 0 .. N /\ j - 1 \in 0 .. N
    BY <1>1
  <2> QED
    BY <2>1, <2>2, <2>3
<1> HIDE DEF N
<1>4. words \in [Text -> Seq(Atoms)] /\ Law(words, Text) /\ \A t \in Text : words[t] = WordsOf(t)
  BY TextsAre, SpelledLaw
<1>5. 0 \in S
  <2> DEFINE d == Slice(low, 0, g[0])
             G == Slice(B, 0, g[0])
             n == g[0]
  <2>1. n \in Nat /\ 0 \in Nat /\ 0 <= n /\ n <= Len(B)
    BY <1>3
  <2>2. d \in Seq(Text) /\ G \in Seq(Text) /\ Thins(d, G)
    <3> HIDE DEF n
    <3> QED
      BY ONLY <1>1, <1>2, <2>1, low \in Seq(Text), ThinsSlice DEF n
  <2>3. Spelled(core, G) = <<>>
    BY <1>3
  <2> HIDE DEF d, G
  <2>4. Spelled(words, G) = <<>>
    BY <2>2, <2>3, WordsOfCores, WordsFew
  <2>5. Sub(Spelled(words, d), <<>>)
    BY <2>2, <2>4, ThinsSub
  <2>6. Slice(lowM, 0, 0) = <<>>
    BY DEF Slice
  <2>7. Spelled(words, <<>>) = <<>>
    BY <1>4, SpelledNone
  <2> QED
    BY <2>5, <2>6, <2>7 DEF d
<1>6. ASSUME NEW j \in 1 .. N, j - 1 \in S PROVE j \in S
  <2> DEFINE a == g[j - 1]
             b == g[j]
             i == j - 1
             p == Slice(low, 0, a)
             q == Slice(low, a, b)
             r == Slice(lowM, 0, i)
             z == <<lowM[j]>>
  <2>1. a \in Nat /\ b \in Nat /\ a <= b /\ b <= Len(B) /\ Alike(Slice(B, a, b), Core(M[j])) /\ b <= Len(low)
        /\ 0 \in Nat /\ 0 <= a /\ a <= Len(low)
    BY <1>1, <1>3
  <2>2. j \in 1 .. Len(M) /\ j \in 1 .. Len(lowM) /\ M[j] \in Text /\ lowM[j] \in Text /\ i \in Nat /\ i <= j /\ j <= Len(lowM)
        /\ j \in Nat /\ 0 <= i /\ i <= Len(lowM)
    BY <1>1 DEF N
  <2>3. Sub(Spelled(words, p), Spelled(words, r))
    BY <1>6
  <2> HIDE DEF a, b, S
  <2>4. q \in Seq(Text) /\ p \in Seq(Text)
    <3>1. p \in Seq(Text)
      BY ONLY <2>1, low \in Seq(Text), SliceOf
    <3>2. q \in Seq(Text)
      BY ONLY <2>1, low \in Seq(Text), SliceOf
    <3> QED
      BY <3>1, <3>2
  <2>5. p \o q = Slice(low, 0, b)
    BY ONLY <2>1, low \in Seq(Text), SliceConcat
  <2>6. r \in Seq(Text) /\ r \o z = Slice(lowM, 0, j) /\ z \in Seq(Text)
    <3> HIDE DEF i
    <3>1. r \in Seq(Text)
      BY ONLY <2>2, lowM \in Seq(Text), 0 \in Nat, SliceOf
    <3>2. r \o Slice(lowM, i, j) = Slice(lowM, 0, j)
      BY ONLY <2>2, lowM \in Seq(Text), 0 \in Nat, SliceConcat
    <3>3. Slice(lowM, i, j) = z
      BY <2>2, SliceOne DEF i
    <3>4. z \in Seq(Text)
      BY <2>2
    <3> QED
      BY <3>1, <3>2, <3>3, <3>4
  <2>7. Sub(Spelled(words, q), Spelled(words, z))
    <3>1. Spelled(words, z) = WordsOf(lowM[j])
      BY <2>2, WordsSingle
    <3>2. CASE j \in TocHeaders(M)
      <4>1. \A n \in a + 1 .. b : n \in ContentsHeaders(A)
        BY <3>2, HeaderLines DEF a, b
      <4>2. Len(q) = b - a /\ \A n \in 1 .. b - a : q[n] = low[a + n]
        BY ONLY <2>1, low \in Seq(Text), SliceOf
      <4>3. ASSUME NEW n \in 1 .. Len(q) PROVE words[q[n]] = <<>>
        <5>1. a + n \in a + 1 .. b /\ a + n \in 1 .. Len(A)
          BY <1>1, <2>1, <4>2
        <5>2. low[a + n] = <<>>
          BY <4>1, <5>1
        <5> QED
          BY <4>2, <5>2, WordsFew
      <4> HIDE DEF q
      <4>4. Spelled(words, q) = <<>>
        BY ONLY <1>4, <2>4, <4>3, SpelledVoid
      <4> QED
        BY <4>4, SubNone
    <3>3. CASE j \notin TocHeaders(M)
      <4>1. lowM[j] = M[j]
        BY <2>2, <3>3
      <4>2. Core(M[j]) \in Text /\ WordsOf(Core(M[j])) = WordsOf(M[j])
        BY <2>2, CoreText, CoreWords
      <4>3. Sub(Spelled(words, q), WordsOf(Core(M[j])))
        BY ONLY <1>1, <1>2, <2>1, <4>2, low \in Seq(Text), GroupWords
      <4> QED
        BY <3>1, <4>1, <4>2, <4>3
    <3> QED
      BY <3>2, <3>3
  <2> DEFINE e == Spelled(words, p)
             f == Spelled(words, q)
             k == Spelled(words, r)
             l == Spelled(words, z)
  <2> HIDE DEF p, q, r, z
  <2>8. e \in Seq(Atoms) /\ f \in Seq(Atoms) /\ k \in Seq(Atoms) /\ l \in Seq(Atoms)
    BY <2>4, <2>6, WordsOfSeq
  <2>9. Spelled(words, p \o q) = e \o f /\ Spelled(words, r \o z) = k \o l
    <3>1. p \in Seq(Text) /\ q \in Seq(Text) /\ r \in Seq(Text) /\ z \in Seq(Text)
      BY <2>4, <2>6
    <3> QED
      BY ONLY <1>4, <3>1 DEF Law
  <2> HIDE DEF e, f, k, l
  <2>10. Sub(e \o f, k \o l)
    <3>1. Sub(e, k) /\ Sub(f, l)
      BY <2>3, <2>7 DEF e, f, k, l
    <3> QED
      BY ONLY <2>8, <3>1, SubConcat
  <2>11. Sub(Spelled(words, x(j)), Spelled(words, y(j)))
    BY <2>5, <2>6, <2>9, <2>10 DEF b
  <2> HIDE DEF x, y
  <2> QED
    BY <2>2, <2>11 DEF S
<1>7. N \in S
  <2> HIDE DEF S
  <2>1. \A j \in 0 .. N : j \in S
    BY ONLY <1>1, <1>5, <1>6, Forwards
  <2> QED
    BY <1>1, <2>1
<1>8. x(N) = low /\ y(N) = lowM
  BY <1>1, <1>3 DEF Slice
<1> HIDE DEF x, y
<1> QED
  BY <1>7, <1>8 DEF S

\* low is A without the lines that may be lost.
Lowered(low, A) ==
    /\ low \in Seq(Text) /\ Thins(low, A)
    /\ \A i \in 1 .. Len(A) : Twin(A, i) \/ i \in ContentsHeaders(A) => low[i] = <<>>

\* The cleaning of prose loses no word of a line that stands there once and heads no contents table.
LEMMA ProseLosesNothing ==
    ASSUME NEW t \in Text, NEW low, Lowered(low, RawLines(t))
    PROVE  Sub(Spelled(words, low), WordsOf(CleanProse(t)))
<1> DEFINE s == StripEdges(UnixLines(t))
           p == Listed(s)
           M == Lines(p)
           A == RawLines(t)
           n == NormalizeTocLines(M)
<1>1. PICK B : EdgeMask(t, B)
  BY EdgesMasked
<1>2. Blotted(B, A)
  BY <1>1 DEF EdgeMask, Blotted
<1>3. FlatLines(A) /\ A \in Seq(Text)
  BY RawFlat DEF FlatLines
<1>4. Core(s) = Spelled(core, B)
  BY <1>1 DEF EdgeMask
<1>5. WordsOf(CleanProse(t)) = Spelled(words, n)
  BY WordsOfProse
<1>6. s \in Text
  BY UnixLinesText, StripEdgesText
<1>7. p \in TextIn(Plain) /\ p \in Text /\ \E u : Sim(u, Core(s), Core(p))
  BY <1>6, ListedPlain, ListedUnits
<1> HIDE DEF p, s, A
<1>8. FlatLines(M) /\ M \in Seq(Text)
  BY <1>7, PlainLines DEF FlatLines
<1>9. Core(p) = Spelled(core, M)
  BY <1>7, CoreOfLines
<1> HIDE DEF M
<1>10. FlatLines(B)
  <2>1. \A i \in 1 .. Len(A) : Flat(A[i])
    BY <1>3 DEF FlatLines
  <2>2. Flat(<<>>)
    BY DEF Flat
  <2>3. B \in Seq(Text) /\ \A i \in 1 .. Len(B) : i \in 1 .. Len(A) /\ (B[i] = A[i] \/ B[i] = <<>>)
    BY <1>2 DEF Blotted
  <2> QED
    BY <2>1, <2>2, <2>3 DEF FlatLines
<1>11. Alike(B, Spelled(core, M))
  BY <1>4, <1>7, <1>9 DEF Alike
<1>12. PICK g : Groups(g, B, M)
  BY ONLY <1>8, <1>10, <1>11, Grouped
<1> DEFINE lowM == [j \in DOMAIN M |-> IF j \in TocHeaders(M) THEN <<>> ELSE M[j]]
<1>13. lowM = [j \in DOMAIN M |-> lowM[j]] /\ \A j \in 1 .. Len(M) : lowM[j] = IF j \in TocHeaders(M) THEN <<>> ELSE M[j]
  BY <1>8
<1>14. <<>> \in Text
  BY DEF Text
<1> HIDE DEF lowM
<1>15. lowM \in Seq(Text) /\ Len(lowM) = Len(M)
  <2>1. ASSUME NEW j \in 1 .. Len(M) PROVE lowM[j] \in Text
    <3>1. M[j] \in Text
      BY ONLY <1>8, j \in 1 .. Len(M), ElementOf
    <3>2. lowM[j] = <<>> \/ lowM[j] = M[j]
      BY <1>13
    <3> QED
      BY ONLY <1>14, <3>1, <3>2
  <2>2. M \in Seq(Text) /\ lowM = [j \in DOMAIN M |-> lowM[j]]
    BY <1>8, <1>13
  <2>3. lowM \in Seq(Text)
    BY ONLY <2>1, <2>2, MappedSequence
  <2> QED
    BY ONLY <2>2, <2>3, MappedLen
<1>16. Thins(lowM, M)
  BY <1>13, <1>15 DEF Thins
<1>17. \A j \in TocHeaders(M) : lowM[j] = <<>>
  <2>1. \A j \in TocHeaders(M) : j \in 1 .. Len(M) - 1
    BY DEF TocHeaders, HeaderRows
  <2>2. \A j \in 1 .. Len(M) - 1 : j \in 1 .. Len(M)
    BY <1>8
  <2> QED
    BY <1>13, <2>1, <2>2
<1>18. n \in Seq(Text) /\ Sub(Spelled(words, lowM), Spelled(words, n))
  BY <1>8, <1>15, <1>16, <1>17, WordsToc DEF Amid
<1>19. low \in Seq(Text) /\ Thins(low, A) /\ \A i \in 1 .. Len(A) : Twin(A, i) \/ i \in ContentsHeaders(A) => low[i] = <<>>
  BY DEF Lowered, A
<1>20. \A j \in 1 .. Len(M) : j \notin TocHeaders(M) => lowM[j] = M[j]
  BY <1>13
<1>21. Sub(Spelled(words, low), Spelled(words, lowM))
  BY ONLY <1>2, <1>3, <1>8, <1>12, <1>15, <1>16, <1>19, <1>20, GroupsWords
<1> HIDE DEF n
<1> DEFINE x == Spelled(words, low)
           y == Spelled(words, lowM)
           z == Spelled(words, n)
<1>22. x \in Seq(Atoms) /\ y \in Seq(Atoms) /\ z \in Seq(Atoms)
  BY <1>15, <1>18, <1>19, WordsOfSeq
<1>23. Sub(x, y) /\ Sub(y, z)
  BY <1>18, <1>21
<1> HIDE DEF x, y, z
<1>24. Sub(x, z)
  BY ONLY <1>22, <1>23, SubTrans
<1> QED
  BY <1>5, <1>24 DEF x, z, n, M, p, s

-----------------------------------------------------------------------------
(* The lines of a document, and the runs of prose among them.               *)

\* A line with its end, and lines as a text has them.
OneLine(x) == x \in Text /\ x # <<>> /\ \A k \in 1 .. Len(x) - 1 : x[k] \notin LineEnds
Ruled(ls) ==
    /\ ls \in Seq(Text)
    /\ \A i \in 1 .. Len(ls) : OneLine(ls[i])
    /\ \A i \in 1 .. Len(ls) - 1 : ls[i][Len(ls[i])] \in LineEnds

\* A line in front of lines, which it may only be when it has its end.
LEMMA RuledFront ==
    ASSUME NEW x, OneLine(x), NEW ls, Ruled(ls), ls # <<>> => x[Len(x)] \in LineEnds
    PROVE  Ruled(<<x>> \o ls)
<1> DEFINE c == <<x>>
           s == c \o ls
<1>1. x \in Text /\ ls \in Seq(Text)
  BY DEF OneLine, Ruled
<1>2. c \in Seq(Text) /\ Len(c) = 1 /\ c[1] = x
  BY <1>1
<1> HIDE DEF c
<1>3. s \in Seq(Text) /\ Beside(s, c, ls)
  BY ONLY <1>1, <1>2, ConcatAt
<1> HIDE DEF s
<1>4. Len(ls) \in Nat /\ (Len(ls) # 0 => ls # <<>>)
  BY <1>1
<1>5. Len(s) = 1 + Len(ls) /\ s[1] = x /\ \A k \in 1 .. Len(ls) : s[1 + k] = ls[k]
  BY <1>2, <1>3 DEF Beside
<1>6. \A i \in 1 .. Len(s) : i = 1 \/ (i - 1 \in 1 .. Len(ls) /\ s[i] = ls[i - 1])
  BY <1>4, <1>5
<1>7. ASSUME NEW i \in 1 .. Len(s) PROVE OneLine(s[i])
  BY <1>5, <1>6 DEF Ruled
<1>8. ASSUME NEW i \in 1 .. Len(s) - 1 PROVE s[i][Len(s[i])] \in LineEnds
  <2>1. i \in 1 .. Len(s) /\ Len(ls) # 0
    BY <1>4, <1>5
  <2>2. CASE i = 1
    BY <1>4, <1>5, <2>1, <2>2
  <2>3. CASE i # 1
    <3>1. i - 1 \in 1 .. Len(ls) - 1 /\ s[i] = ls[i - 1]
      BY <1>4, <1>5, <1>6, <2>1, <2>3
    <3> QED
      BY <3>1 DEF Ruled
  <2> QED
    BY <2>2, <2>3
<1> QED
  BY <1>3, <1>7, <1>8 DEF Ruled, s, c

\* The lines of a text are lines, and together the text.
LEMMA KeptRuled == ASSUME NEW text \in Text PROVE Ruled(KeptLines(text)) /\ FlattenSeq(KeptLines(text)) = text
<1> DEFINE n == Len(text)
           E(i) == {k \in i .. Len(text) : text[k] \in LineEnds} \cup {Len(text)}
           End(i) == Min({k \in i .. Len(text) : text[k] \in LineEnds} \cup {Len(text)})
           piece == [i \in DOMAIN text |-> <<SubSeq(text, i, End(i))>>]
           next == [i \in DOMAIN text |-> End(i) + 1]
<1>1. n \in Nat /\ DOMAIN text = 1 .. n /\ text \in Seq(Atoms)
  BY DEF Text
<1>2. KeptLines(text) = Scanned(n, piece, next)
  BY DEF KeptLines
<1>3. ASSUME NEW i \in 1 .. n
      PROVE  /\ End(i) \in i .. n
             /\ \A k \in i .. End(i) - 1 : text[k] \notin LineEnds
             /\ End(i) # n => text[End(i)] \in LineEnds
  <2> DEFINE C == E(i)
             m == End(i)
  <2>1. m = Min(C)
    OBVIOUS
  <2>2. C = {k \in i .. n : text[k] \in LineEnds} \cup {n} /\ i \in Int /\ n \in Int /\ i <= n
    BY <1>1
  <2> HIDE DEF C, m, n
  <2>3. C \in SUBSET (i .. n) /\ C # {}
        /\ (\A k \in i .. n : text[k] \in LineEnds => k \in C)
        /\ \A k \in C : k = n \/ text[k] \in LineEnds
    BY ONLY <2>2
  <2>8. C \in SUBSET (i .. n) /\ C # {} /\ i \in Int /\ n \in Int
    BY ONLY <2>2, <2>3
  <2>4. Min(C) \in C /\ \A k \in C : Min(C) <= k
    BY ONLY <2>8, MinOf
  <2>5. m \in i .. n
    BY ONLY <2>1, <2>3, <2>4
  <2>6. ASSUME NEW k \in i .. m - 1 PROVE text[k] \notin LineEnds
    <3>1. k \in i .. n /\ ~ (m <= k)
      BY ONLY <2>2, <2>5, k \in i .. m - 1
    <3> QED
      BY ONLY <2>1, <2>3, <2>4, <3>1
  <2>7. m # n => text[m] \in LineEnds
    BY ONLY <2>1, <2>3, <2>4
  <2> QED
    BY <2>5, <2>6, <2>7 DEF m
<1> HIDE DEF End
<1> DEFINE part(i) == Slice(text, i - 1, End(i))
<1>4. ASSUME NEW i \in 1 .. n
      PROVE  /\ next[i] = End(i) + 1 /\ piece[i] = <<part(i)>>
             /\ next[i] \in i + 1 .. n + 1
             /\ OneLine(part(i)) /\ part(i) \in Text
             /\ next[i] # n + 1 => part(i)[Len(part(i))] \in LineEnds
  <2> DEFINE e == End(i)
             a == i - 1
             x == Slice(text, a, e)
  <2>1. e \in i .. n /\ a \in Nat /\ e \in Nat /\ a <= e /\ e <= Len(text) /\ a + 1 = i /\ e - a >= 1 /\ i \in Int
    BY <1>1, <1>3
  <2>2. next[i] = e + 1 /\ piece[i] = <<SubSeq(text, i, e)>>
    BY <1>1
  <2>3. x = SubSeq(text, i, e)
    BY <2>1 DEF Slice
  <2>4. (\A k \in i .. e - 1 : text[k] \notin LineEnds) /\ (e # n => text[e] \in LineEnds)
    BY <1>3
  <2> HIDE DEF e, a, n
  <2>5. x \in Seq(Atoms) /\ Len(x) = e - a /\ \A k \in 1 .. e - a : x[k] = text[a + k]
    BY ONLY <1>1, <2>1, SliceOf
  <2> HIDE DEF x
  <2>6. x # <<>>
    BY <2>1, <2>5
  <2>7. ASSUME NEW k \in 1 .. Len(x) - 1 PROVE x[k] \notin LineEnds
    <3>1. a + k \in i .. e - 1 /\ k \in 1 .. e - a
      BY <2>1, <2>5
    <3> QED
      BY <2>4, <2>5, <3>1
  <2>8. OneLine(x)
    BY <2>5, <2>6, <2>7 DEF OneLine, Text
  <2>9. e # n => x[Len(x)] \in LineEnds
    <3>1. Len(x) \in 1 .. e - a /\ a + Len(x) = e
      BY <2>1, <2>5
    <3> QED
      BY <2>4, <2>5, <3>1
  <2>10. e + 1 \in i + 1 .. n + 1 /\ (e + 1 # n + 1 => e # n)
    BY <1>1, <2>1
  <2> QED
    BY <2>2, <2>3, <2>5, <2>8, <2>9, <2>10 DEF x, e, a, Text
<1> HIDE DEF piece, next, part, n
<1>5. PICK f : Finds(f, Text, n, piece, next) /\ Scanned(n, piece, next) = f[1]
  <2>1. \A i \in 1 .. n : piece[i] \in Seq(Text)
    <3> SUFFICES ASSUME NEW i \in 1 .. n PROVE piece[i] \in Seq(Text)
      OBVIOUS
    <3> DEFINE x == part(i)
    <3>1. piece[i] = <<x>> /\ x \in Text
      BY <1>4
    <3> HIDE DEF x
    <3> QED
      BY <3>1
  <2>2. \A i \in 1 .. n : next[i] \in i + 1 .. n + 1
    BY <1>4
  <2>3. n \in Nat
    BY <1>1
  <2> QED
    BY ONLY <2>1, <2>2, <2>3, ScannedSteps
<1>6. /\ \A i \in 1 .. n + 1 : f[i] \in Seq(Text)
      /\ f[n + 1] = <<>>
      /\ \A i \in 1 .. n : f[i] = piece[i] \o f[next[i]]
  BY <1>5 DEF Finds
<1> DEFINE m == n + 1
           S == {i \in Int : Ruled(f[i]) /\ FlattenSeq(f[i]) = Slice(text, i - 1, n)}
<1>7. ASSUME NEW i \in 1 .. m, \A k \in i + 1 .. m : k \in S PROVE i \in S
  <2>1. CASE i = m
    <3>1. f[i] = <<>> /\ Slice(text, i - 1, n) = <<>>
      BY <1>1, <1>6, <2>1 DEF Slice
    <3>2. Ruled(<<>>)
      BY DEF Ruled
    <3>3. FlattenSeq(<<>>) = <<>>
      <4>1. <<>> \in Seq(Atoms)
        OBVIOUS
      <4> QED
        BY <4>1, FlattenFew
    <3> QED
      BY <3>1, <3>2, <3>3
  <2>2. CASE i # m
    <3>1. i \in 1 .. n /\ i - 1 \in Nat
      BY <1>1, <2>2
    <3> DEFINE k == next[i]
               x == part(i)
               q == f[k]
               c == <<x>>
    <3>2. k \in i + 1 .. m /\ k = End(i) + 1 /\ piece[i] = c /\ OneLine(x) /\ x \in Text /\ (k # m => x[Len(x)] \in LineEnds)
      BY <1>4, <3>1
    <3>3. k \in 1 .. n + 1 /\ k \in S
      BY <1>1, <1>7, <3>1, <3>2
    <3>4. q \in Seq(Text) /\ f[i] = c \o q /\ (k = m => q = <<>>)
      BY <1>6, <3>1, <3>2, <3>3
    <3>5. Ruled(q) /\ FlattenSeq(q) = Slice(text, k - 1, n)
      BY <3>3
    <3> HIDE DEF S, q, x
    <3>6. Ruled(c \o q)
      BY <3>2, <3>4, <3>5, RuledFront
    <3>7. FlattenSeq(c \o q) = x \o FlattenSeq(q)
      <4>1. c \in Seq(Text) /\ FlattenSeq(c) = x
        <5>1. x \in Seq(Atoms)
          BY <3>2 DEF Text
        <5>2. FlattenSeq(<<x>>) = x
          BY ONLY <5>1, FlattenFew
        <5> QED
          BY <3>2, <5>2
      <4> HIDE DEF c
      <4>2. FlattenSeq(c \o q) = FlattenSeq(c) \o FlattenSeq(q)
        BY <3>4, <4>1, FlattenConcat DEF Text
      <4> QED
        BY <4>1, <4>2
    <3>8. x = Slice(text, i - 1, k - 1)
      BY <1>3, <3>1, <3>2 DEF x, part
    <3>9. Slice(text, i - 1, k - 1) \o Slice(text, k - 1, n) = Slice(text, i - 1, n)
      <4> DEFINE a == i - 1
                 b == k - 1
      <4>1. a \in Nat /\ b \in Nat /\ a <= b /\ b <= n /\ n \in Nat /\ n <= Len(text)
        BY <1>1, <3>1, <3>2 DEF n
      <4> HIDE DEF a, b
      <4>2. Slice(text, a, b) \o Slice(text, b, n) = Slice(text, a, n)
        BY ONLY <1>1, <4>1, SliceConcat
      <4> QED
        BY <4>2 DEF a, b
    <3> HIDE DEF c
    <3>10. FlattenSeq(f[i]) = Slice(text, i - 1, n)
      BY <3>4, <3>5, <3>7, <3>8, <3>9
    <3>11. Ruled(f[i]) /\ i \in Int
      BY <3>1, <3>4, <3>6
    <3> QED
      BY ONLY <3>10, <3>11 DEF S
  <2> QED
    BY <2>1, <2>2
<1>8. 1 \in S
  <2>1. m \in Int /\ 1 \in Int /\ 1 \in 1 .. m
    BY <1>1
  <2> HIDE DEF S, m
  <2>2. \A i \in 1 .. m : i \in S
    BY ONLY <1>7, <2>1, Backwards
  <2> QED
    BY <2>1, <2>2
<1>9. Slice(text, 1 - 1, n) = text
  BY <1>1 DEF Slice, n
<1> QED
  BY <1>2, <1>5, <1>8, <1>9 DEF n

\* Line ends are replaced one by one.
LEMMA UnendConcat ==
    ASSUME NEW x \in Text, NEW z \in Text
    PROVE  Unend(x \o z) = Unend(x) \o Unend(z)
<1> DEFINE P == {y \in Text : Unend(x \o y) = Unend(x) \o Unend(y)}
           u == Unend(x)
<1>1. u \in Text /\ Unend(<<>>) = <<>>
  <2>1. DOMAIN <<>> = {}
    OBVIOUS
  <2>2. Unend(<<>>) = <<>>
    BY DEF Unend
  <2> QED
    BY <2>2, UnendAppend, SomeTexts
<1>2. <<>> \in P
  <2> HIDE DEF u
  <2>1. x \o <<>> = x /\ u \o <<>> = u
    BY <1>1, ConcatEmpty DEF Text
  <2>2. Unend(x \o <<>>) = u \o Unend(<<>>)
    BY <1>1, <2>1 DEF u
  <2> QED
    BY <2>2, SomeTexts DEF u
<1>3. ASSUME NEW y \in Text, NEW e \in Atoms, y \in P PROVE Append(y, e) \in P
  <2> DEFINE a == Append(y, e)
             f == IF e \in LineEnds THEN NL ELSE e
             v == Unend(y)
             c == x \o y
  <2>1. a \in Text /\ c \in Text /\ v \in Text /\ f \in Atoms
    <3>1. v \in Text
      BY UnendAppend, SomeTexts
    <3> QED
      BY <3>1, SomeTexts DEF Text
  <2>2. x \o a = Append(c, e)
    BY ConcatAppend DEF Text
  <2>3. Unend(a) = Append(v, f) /\ Unend(Append(c, e)) = Append(Unend(c), f)
    BY <2>1, UnendAppend
  <2>4. Unend(c) = u \o v
    BY <1>3
  <2> HIDE DEF u, v, f, a, c
  <2>5. u \o Append(v, f) = Append(u \o v, f)
    BY <1>1, <2>1, ConcatAppend DEF Text
  <2>6. Unend(x \o a) = u \o Unend(a)
    BY <2>2, <2>3, <2>4, <2>5
  <2> QED
    BY <2>1, <2>6 DEF a, u
<1> HIDE DEF P
<1>4. z \in P
  BY ONLY <1>2, <1>3, z \in Text, TextInduction
<1> QED
  BY <1>4 DEF P

\* A flat line has no line end to rename.
LEMMA UnendFlat == ASSUME NEW b \in Text, Flat(b) PROVE Unend(b) = b
<1>1. b \in Seq(Atoms) /\ DOMAIN b = 1 .. Len(b)
  BY DEF Text
<1>2. \A i \in DOMAIN b : b[i] \notin LineEnds
  BY <1>1 DEF Flat
<1>3. Unend(b) = [i \in DOMAIN b |-> b[i]]
  BY <1>2 DEF Unend
<1> QED
  BY <1>1, <1>3

\* A text of one line without its end, one with it, and what comes behind that.
LEMMA RawFirst ==
    ASSUME NEW b \in Text, Flat(b)
    PROVE  /\ RawLines(b) = <<b>>
           /\ RawLines(<<>>) = << <<>> >>
           /\ \A e \in LineEnds, z \in Text : RawLines(Append(b, e) \o z) = <<b>> \o RawLines(z)
<1>1. b \in Seq(Atoms) /\ Free(b, NL) /\ NL \in Atoms /\ LineEnds \subseteq Atoms /\ NL \in LineEnds
  <2>1. \A i \in 1 .. Len(b) : b[i] # NL
    BY LettersAre DEF Flat
  <2> QED
    BY <2>1, LettersAre, SomeTexts DEF Free, Text
<1>2. Unend(b) = b
  BY UnendFlat
<1>3. Lines(b) = <<b>>
  BY <1>1, SplitWhole DEF Lines
<1>4. RawLines(<<>>) = << <<>> >>
  <2>1. Unend(<<>>) = <<>>
    BY SomeTexts, UnendFlat DEF Flat
  <2> QED
    BY <2>1, SplitNone DEF RawLines, Lines
<1>5. ASSUME NEW e \in LineEnds, NEW z \in Text PROVE RawLines(Append(b, e) \o z) = <<b>> \o RawLines(z)
  <2> DEFINE a == Append(b, e)
             w == Unend(z)
  <2>1. a \in Text /\ e \in Atoms
    BY <1>1 DEF Text
  <2>2. Unend(a) = Append(Unend(b), IF e \in LineEnds THEN NL ELSE e)
    BY <2>1, UnendAppend
  <2>3. Unend(a) = Append(b, NL)
    BY <1>2, <2>2
  <2>4. w \in Seq(Atoms)
    BY CoreUnend DEF Text
  <2> HIDE DEF a, w
  <2>5. Unend(a \o z) = Unend(a) \o w
    BY <2>1, UnendConcat DEF w
  <2>6. Split(Append(b, NL) \o w, NL) = Split(b, NL) \o Split(w, NL)
    BY ONLY <1>1, <2>4, SplitConcat
  <2> QED
    BY <1>3, <2>3, <2>5, <2>6 DEF RawLines, Lines, a, w
<1> QED
  BY <1>2, <1>3, <1>4, <1>5 DEF RawLines

\* p has the lines of v without their ends, which all have one, and whatever comes behind.
Fronts(p, v) ==
    /\ p \in Seq(Text) /\ Len(p) = Len(v)
    /\ \A i \in 1 .. Len(v) : \E e \in LineEnds : v[i] = Append(p[i], e)
    /\ \A z \in Text : RawLines(FlattenSeq(v) \o z) = p \o RawLines(z)
AllEnded(v) == \A i \in 1 .. Len(v) : OneLine(v[i]) /\ v[i][Len(v[i])] \in LineEnds

\* A line is what comes before its last letter, and that.
LEMMA LineBody ==
    ASSUME NEW x, OneLine(x)
    PROVE  \E b \in Text, e \in Atoms : x = Append(b, e) /\ Flat(b) /\ x[Len(x)] = e
<1>1. x \in Seq(Atoms) /\ x # <<>>
  BY DEF OneLine, Text
<1>2. PICK b \in Seq(Atoms), e \in Atoms : x = Append(b, e)
  BY <1>1, LastOf
<1>3. Len(x) = Len(b) + 1 /\ Len(b) \in Nat /\ x[Len(x)] = e /\ \A k \in 1 .. Len(b) : x[k] = b[k]
  BY <1>2
<1>4. \A k \in 1 .. Len(b) : k \in 1 .. Len(x) - 1
  BY <1>3
<1>5. Flat(b)
  BY <1>3, <1>4 DEF Flat, OneLine
<1> QED
  BY <1>2, <1>3, <1>5 DEF Text

\* Lines that end in a line end are split into their fronts.
LEMMA FrontsOf == ASSUME NEW v \in Seq(Text), AllEnded(v) PROVE \E p : Fronts(p, v)
<1> DEFINE P == {u \in Seq(Text) : AllEnded(u) => \E p : Fronts(p, u)}
<1>1. <<>> \in P
  <2>1. FlattenSeq(<<>>) = <<>>
    <3>1. <<>> \in Seq(Atoms)
      OBVIOUS
    <3> QED
      BY <3>1, FlattenFew
  <2>2. ASSUME NEW z \in Text PROVE RawLines(<<>> \o z) = <<>> \o RawLines(z)
    <3> DEFINE r == RawLines(z)
    <3>1. r \in Seq(Text) /\ z \in Seq(Atoms)
      BY RawFlat DEF FlatLines, Text
    <3> HIDE DEF r
    <3>2. <<>> \o r = r /\ <<>> \o z = z
      BY <3>1, ConcatEmpty
    <3> QED
      BY <3>2 DEF r
  <2>4. <<>> \in Seq(Text) /\ Len(<<>>) = 0
    OBVIOUS
  <2>5. ASSUME NEW z \in Text PROVE RawLines(FlattenSeq(<<>>) \o z) = <<>> \o RawLines(z)
    BY <2>1, <2>2
  <2>6. \A i \in 1 .. 0 : \E e \in LineEnds : <<>>[i] = Append(<<>>[i], e)
    OBVIOUS
  <2>3. Fronts(<<>>, <<>>)
    BY ONLY <2>4, <2>5, <2>6 DEF Fronts
  <2> QED
    BY <2>3
<1>2. ASSUME NEW u \in Seq(Text), NEW x \in Text, u \in P PROVE Append(u, x) \in P
  <2> DEFINE a == Append(u, x)
  <2>1. SUFFICES ASSUME AllEnded(a) PROVE \E p : Fronts(p, a)
    OBVIOUS
  <2>2. Len(a) = Len(u) + 1 /\ Len(u) \in Nat /\ a[Len(u) + 1] = x /\ \A i \in 1 .. Len(u) : a[i] = u[i]
    OBVIOUS
  <2>13. FlattenSeq(a) = FlattenSeq(u) \o x /\ FlattenSeq(u) \in Text
    <3>1. FlattenSeq(u) \in Text
      BY WordsFlatten
    <3> QED
      BY <3>1, FlattenAppend DEF Text
  <2> HIDE DEF a
  <2>3. AllEnded(u) /\ OneLine(x) /\ x[Len(x)] \in LineEnds
    <3>1. \A i \in 1 .. Len(u) : i \in 1 .. Len(a)
      BY <2>2
    <3>2. Len(u) + 1 \in 1 .. Len(a)
      BY <2>2
    <3> QED
      BY <2>1, <2>2, <3>1, <3>2 DEF AllEnded
  <2>4. PICK p : Fronts(p, u)
    BY <1>2, <2>3
  <2>5. PICK b \in Text, e \in Atoms : x = Append(b, e) /\ Flat(b) /\ x[Len(x)] = e
    BY <2>3, LineBody
  <2>6. e \in LineEnds
    BY <2>3, <2>5
  <2> DEFINE q == Append(p, b)
  <2>7. p \in Seq(Text) /\ Len(p) = Len(u)
    BY <2>4 DEF Fronts
  <2>8. q \in Seq(Text) /\ Len(q) = Len(a) /\ q[Len(u) + 1] = b /\ \A i \in 1 .. Len(u) : q[i] = p[i]
    BY <2>2, <2>7
  <2> HIDE DEF q
  <2>9. ASSUME NEW i \in 1 .. Len(a) PROVE \E y \in LineEnds : a[i] = Append(q[i], y)
    <3>1. i = Len(u) + 1 \/ i \in 1 .. Len(u)
      BY <2>2
    <3>2. CASE i = Len(u) + 1
      BY <2>2, <2>5, <2>6, <2>8, <3>2
    <3>3. CASE i \in 1 .. Len(u)
      <4>1. \E y \in LineEnds : u[i] = Append(p[i], y)
        BY <2>4, <3>3 DEF Fronts
      <4> QED
        BY <2>2, <2>8, <3>3, <4>1
    <3> QED
      BY <3>1, <3>2, <3>3
  <2>10. ASSUME NEW z \in Text PROVE RawLines(FlattenSeq(a) \o z) = q \o RawLines(z)
    <3> DEFINE w == FlattenSeq(u)
               r == RawLines(z)
               c == <<b>>
               y == x \o z
    <3>1. w \in Text /\ r \in Seq(Text) /\ c \in Seq(Text) /\ y \in Text /\ FlattenSeq(a) = w \o x
      BY <2>13, RawFlat DEF FlatLines, Text
    <3>2. RawLines(w \o y) = p \o RawLines(y)
      BY <2>4, <3>1 DEF Fronts
    <3>3. RawLines(y) = c \o r
      BY <2>5, <2>6, RawFirst
    <3> HIDE DEF w, r, c, y
    <3>4. w \o y = FlattenSeq(a) \o z
      <4>1. w \in Seq(Atoms) /\ x \in Seq(Atoms) /\ z \in Seq(Atoms)
        BY <3>1 DEF Text
      <4>2. w \o (x \o z) = (w \o x) \o z
        BY ONLY <4>1, Assoc
      <4> QED
        BY <3>1, <4>2 DEF y
    <3>5. p \o (c \o r) = (p \o c) \o r
      BY ONLY <2>7, <3>1, Assoc
    <3>6. p \o c = q
      <4>1. Append(p, b) = p \o <<b>>
        BY ONLY <2>7, b \in Text, AppendIs
      <4> QED
        BY <4>1 DEF c, q
    <3> QED
      BY <3>2, <3>3, <3>4, <3>5, <3>6 DEF r
  <2>11. Fronts(q, a)
    BY <2>8, <2>9, <2>10 DEF Fronts
  <2> QED
    BY <2>11
<1> HIDE DEF P
<1>3. v \in P
  BY ONLY <1>1, <1>2, v \in Seq(Text), SeqInduction
<1> QED
  BY <1>3 DEF P

\* The end of a line is no part of what it says.
LEMMA StripEnd ==
    ASSUME NEW b \in Text, NEW e \in LineEnds
    PROVE  Strip(Append(b, e)) = Strip(b)
<1> DEFINE a == Append(b, e)
           I == InkAt(b)
<1>1. b \in Seq(Atoms) /\ e \in Whitespace /\ e \in Atoms
  BY LettersAre DEF Text
<1>2. a \in Seq(Atoms) /\ Len(a) = Len(b) + 1 /\ Len(b) \in Nat /\ a[Len(b) + 1] = e /\ \A i \in 1 .. Len(b) : a[i] = b[i]
  BY <1>1
<1>3. DOMAIN a = 1 .. Len(a) /\ DOMAIN b = 1 .. Len(b)
  BY <1>1, <1>2
<1> HIDE DEF a
<1>4. InkAt(a) = I
  <2>1. \A i \in 1 .. Len(a) : i \in 1 .. Len(b) \/ i = Len(b) + 1
    BY <1>2
  <2>2. \A i \in 1 .. Len(b) : i \in 1 .. Len(a)
    BY <1>2
  <2> QED
    BY <1>1, <1>2, <1>3, <2>1, <2>2 DEF InkAt
<1>5. I \in SUBSET (1 .. Len(b)) /\ 1 \in Int /\ Len(b) \in Int
  BY <1>2, <1>3 DEF InkAt
<1> HIDE DEF I
<1>6. CASE I = {}
  <2>1. Strip(a) = <<>> /\ Strip(b) = <<>>
    BY <1>4, <1>6 DEF Strip, I
  <2> QED
    BY <2>1 DEF a
<1>7. CASE I # {}
  <2> DEFINE m == Min(I)
             k == Max(I)
             x == m - 1
  <2>1. m \in I
    BY ONLY <1>5, <1>7, MinOf
  <2>2. k \in I /\ \A i \in I : i <= k
    BY ONLY <1>5, <1>7, MaxOf
  <2>3. m \in 1 .. Len(b) /\ k \in 1 .. Len(b) /\ m <= k
    BY <1>5, <2>1, <2>2
  <2> HIDE DEF m, k
  <2>4. x \in Nat /\ k \in Nat /\ x <= k /\ k <= Len(b) /\ k <= Len(a) /\ x + 1 = m
    BY <1>2, <2>3
  <2> HIDE DEF x
  <2> DEFINE s == Slice(a, x, k)
             t == Slice(b, x, k)
  <2>10. a \in Seq(Atoms) /\ b \in Seq(Atoms)
    BY <1>1, <1>2
  <2>5. s \in Seq(Atoms) /\ Len(s) = k - x /\ \A i \in 1 .. k - x : s[i] = a[x + i]
    BY ONLY <2>4, <2>10, SliceOf
  <2>6. t \in Seq(Atoms) /\ Len(t) = k - x /\ \A i \in 1 .. k - x : t[i] = b[x + i]
    BY ONLY <2>4, <2>10, SliceOf
  <2> HIDE DEF s, t
  <2>7. \A i \in 1 .. k - x : s[i] = t[i]
    <3>1. \A i \in 1 .. k - x : x + i \in 1 .. Len(b)
      BY <1>2, <2>4
    <3> QED
      BY <1>2, <2>5, <2>6, <3>1
  <2>8. s = t
    BY <2>5, <2>6, <2>7
  <2>9. Strip(a) = s /\ Strip(b) = t
    <3>1. Strip(a) = SubSeq(a, m, k) /\ Strip(b) = SubSeq(b, m, k)
      BY <1>4, <1>7 DEF Strip, m, k, I
    <3> QED
      BY <2>4, <3>1 DEF Slice, s, t
  <2> QED
    BY <2>8, <2>9 DEF a
<1> QED
  BY <1>6, <1>7

\* A is the lines ks without what ends them, and maybe a blank line behind them.
Bodies(A, ks) ==
    /\ A \in Seq(Text) /\ ks \in Seq(Text)
    /\ Len(A) = Len(ks) \/ Len(A) = Len(ks) + 1
    /\ \A i \in 1 .. Len(ks) : Strip(A[i]) = Strip(ks[i])
    /\ \A i \in 1 .. Len(A) : i > Len(ks) => A[i] = <<>>

\* The lines that the cleaning of prose works on are those of the prose.
LEMMA RawBodies ==
    ASSUME NEW ks, Ruled(ks), ks # <<>>
    PROVE  Bodies(RawLines(FlattenSeq(ks)), ks)
<1>1. ks \in Seq(Text) /\ \A i \in 1 .. Len(ks) : OneLine(ks[i])
  BY DEF Ruled
<1>2. PICK v \in Seq(Text), x \in Text : ks = Append(v, x)
  BY ONLY <1>1, ks # <<>>, LastOf
<1>3. Len(ks) = Len(v) + 1 /\ Len(v) \in Nat /\ ks[Len(v) + 1] = x /\ \A i \in 1 .. Len(v) : ks[i] = v[i]
  BY <1>2
<1>4. AllEnded(v)
  <2>1. \A i \in 1 .. Len(v) : i \in 1 .. Len(ks) - 1 /\ i \in 1 .. Len(ks)
    BY <1>3
  <2> QED
    BY <1>3, <2>1 DEF AllEnded, Ruled
<1>5. PICK p : Fronts(p, v)
  BY <1>4, FrontsOf
<1>6. OneLine(x)
  <2>1. Len(v) + 1 \in 1 .. Len(ks)
    BY <1>3
  <2> QED
    BY <1>1, <1>3, <2>1
<1> DEFINE r == RawLines(x)
           A == RawLines(FlattenSeq(ks))
<1>7. A = p \o r
  <2>1. FlattenSeq(ks) = FlattenSeq(v) \o x
    BY <1>2, FlattenAppend DEF Text
  <2> QED
    BY <1>5, <2>1 DEF Fronts
<1>8. p \in Seq(Text) /\ Len(p) = Len(v)
  BY <1>5 DEF Fronts
<1>9. ASSUME NEW i \in 1 .. Len(v) PROVE Strip(p[i]) = Strip(v[i])
  <2>1. PICK e \in LineEnds : v[i] = Append(p[i], e)
    BY <1>5 DEF Fronts
  <2>2. p[i] \in Text
    BY <1>8, ElementOf
  <2> QED
    BY <2>1, <2>2, StripEnd
<1>10. /\ r \in Seq(Text) /\ (Len(r) = 1 \/ Len(r) = 2) /\ Strip(r[1]) = Strip(x)
       /\ \A i \in 1 .. Len(r) : i > 1 => r[i] = <<>>
  <2>1. PICK b \in Text, e \in Atoms : x = Append(b, e) /\ Flat(b) /\ x[Len(x)] = e
    BY <1>6, LineBody
  <2>2. CASE e \in LineEnds
    <3>1. x \o <<>> = x
      BY ConcatEmpty DEF Text
    <3>2. RawLines(Append(b, e) \o <<>>) = <<b>> \o RawLines(<<>>) /\ RawLines(<<>>) = << <<>> >>
      BY <2>1, <2>2, RawFirst, SomeTexts
    <3>3. r = <<b>> \o << <<>> >>
      BY <2>1, <3>1, <3>2
    <3> DEFINE c == <<b>>
               d == << <<>> >>
    <3>4. c \in Seq(Text) /\ d \in Seq(Text) /\ Len(c) = 1 /\ Len(d) = 1 /\ c[1] = b /\ d[1] = <<>>
      BY SomeTexts
    <3>5. Strip(x) = Strip(b)
      BY <2>1, <2>2, StripEnd
    <3>6. r = c \o d
      BY <3>3
    <3> HIDE DEF r, c, d
    <3>7. r \in Seq(Text) /\ Beside(r, c, d)
      BY ONLY <3>4, <3>6, ConcatAt
    <3>8. Len(r) = 2 /\ r[1] = b /\ r[2] = <<>>
      <4>1. 1 \in 1 .. Len(c) /\ 1 \in 1 .. Len(d) /\ Len(c) + 1 = 2
        BY <3>4
      <4>2. Len(r) = Len(c) + Len(d) /\ r[1] = c[1] /\ r[Len(c) + 1] = d[1]
        BY ONLY <3>7, <4>1 DEF Beside
      <4> QED
        BY <3>4, <4>1, <4>2
    <3> QED
      BY <3>5, <3>7, <3>8
  <2>3. CASE e \notin LineEnds
    <3>1. Flat(x)
      <4>1. Len(x) = Len(b) + 1 /\ Len(b) \in Nat /\ \A k \in 1 .. Len(b) : x[k] = b[k]
        BY <2>1 DEF Text
      <4>2. ASSUME NEW k \in 1 .. Len(x) PROVE x[k] \notin LineEnds
        <5>1. k = Len(x) \/ k \in 1 .. Len(b)
          BY <4>1
        <5> QED
          BY <2>1, <2>3, <4>1, <5>1 DEF Flat
      <4> QED
        BY <4>2 DEF Flat
    <3>2. r = <<x>>
      BY <3>1, RawFirst
    <3> HIDE DEF r
    <3> QED
      BY <3>2
  <2> QED
    BY <2>2, <2>3
<1> HIDE DEF r, A
<1>11. A \in Seq(Text) /\ Beside(A, p, r)
  BY ONLY <1>7, <1>8, <1>10, ConcatAt
<1>12. /\ Len(A) = Len(v) + Len(r) /\ (\A i \in 1 .. Len(v) : A[i] = p[i])
       /\ \A i \in 1 .. Len(r) : A[Len(v) + i] = r[i]
  BY <1>8, <1>11 DEF Beside
<1>13. Len(A) = Len(ks) \/ Len(A) = Len(ks) + 1
  <2>1. Len(r) = 1 \/ Len(r) = 2
    BY <1>10
  <2>2. Len(ks) = Len(v) + 1 /\ Len(v) \in Nat /\ Len(A) = Len(v) + Len(r)
    BY <1>3, <1>12
  <2>3. CASE Len(r) = 1
    BY ONLY <2>2, <2>3
  <2>4. CASE Len(r) = 2
    BY ONLY <2>2, <2>4
  <2> QED
    BY ONLY <2>1, <2>3, <2>4
<1>14. ASSUME NEW i \in 1 .. Len(ks) PROVE Strip(A[i]) = Strip(ks[i])
  <2>1. i \in 1 .. Len(v) \/ i = Len(v) + 1
    BY <1>3
  <2>2. 1 \in 1 .. Len(r)
    BY <1>10
  <2>3. A[Len(v) + 1] = r[1]
    BY ONLY <1>12, <2>2
  <2>4. CASE i = Len(v) + 1
    BY <1>3, <1>10, <2>3, <2>4
  <2>5. CASE i \in 1 .. Len(v)
    BY <1>3, <1>9, <1>12, <2>5
  <2> QED
    BY <2>1, <2>4, <2>5
<1>15. ASSUME NEW i \in 1 .. Len(A), i > Len(ks) PROVE A[i] = <<>>
  <2>1. i - Len(v) \in 1 .. Len(r) /\ i - Len(v) > 1 /\ Len(v) + (i - Len(v)) = i
    BY <1>3, <1>10, <1>12, <1>15
  <2> QED
    BY <1>10, <1>12, <2>1
<1> QED
  BY <1>1, <1>11, <1>13, <1>14, <1>15 DEF Bodies, A

\* A is what is made of the lines of L from behind a on, as Bodies has it.
StandsIn(A, L, a, n) ==
    /\ L \in Seq(Text) /\ a \in Nat /\ n \in Nat /\ a + n <= Len(L) /\ A \in Seq(Text)
    /\ Len(A) = n \/ Len(A) = n + 1
    /\ \A i \in 1 .. n : Strip(A[i]) = Strip(L[a + i])
    /\ \A i \in 1 .. Len(A) : i > n => A[i] = <<>>

\* Lines that strip to the same have the same gist and the same words.
LEMMA SameInk ==
    ASSUME NEW s \in Text, NEW t \in Text, Strip(s) = Strip(t)
    PROVE  Gist(s) = Gist(t) /\ WordsOf(s) = WordsOf(t) /\ (Strip(s) = <<>> => Gist(s) = <<>> /\ WordsOf(s) = <<>>)
<1>1. Gist(Strip(s)) = Gist(s) /\ Gist(Strip(t)) = Gist(t)
  BY GistStrip
<1>2. WordsOf(Strip(s)) = WordsOf(s) /\ WordsOf(Strip(t)) = WordsOf(t)
  BY WordsStrip
<1>3. Gist(<<>>) = <<>> /\ WordsOf(<<>>) = <<>>
  BY GistNone, WordsFew
<1> QED
  BY <1>1, <1>2, <1>3

\* The empty line strips to itself.
LEMMA StripNone == Strip(<<>>) = <<>>
  BY DEF Strip, InkAt

\* A line that has a twin in a part has one in the whole, or says nothing.
LEMMA TwinWithin ==
    ASSUME NEW A, NEW L, NEW a, NEW n, StandsIn(A, L, a, n), NEW i \in 1 .. n, Twin(A, i)
    PROVE  Twin(L, a + i) \/ Strip(L[a + i]) = <<>>
<1>1. /\ L \in Seq(Text) /\ a \in Nat /\ n \in Nat /\ a + n <= Len(L) /\ A \in Seq(Text)
      /\ Len(A) = n \/ Len(A) = n + 1
      /\ \A m \in 1 .. n : Strip(A[m]) = Strip(L[a + m])
      /\ \A m \in 1 .. Len(A) : m > n => A[m] = <<>>
  BY DEF StandsIn
<1>2. DOMAIN A = 1 .. Len(A) /\ DOMAIN L = 1 .. Len(L) /\ Len(A) \in Nat /\ Len(L) \in Nat
  BY <1>1
<1>3. PICK k \in DOMAIN A \ {i} : Strip(A[k]) = Strip(A[i])
  BY DEF Twin
<1>4. CASE k \in 1 .. n
  <2>1. a + k \in DOMAIN L \ {a + i}
    <3>3. a \in Nat /\ n \in Nat /\ a + n <= Len(L) /\ Len(L) \in Nat /\ k \in 1 .. n
      BY <1>1, <1>2, <1>4
    <3>1. a + k \in 1 .. Len(L)
      BY ONLY <3>3
    <3>2. a + k # a + i
      BY <1>1, <1>3, <1>4
    <3> QED
      BY <1>2, <3>1, <3>2
  <2>2. Strip(L[a + k]) = Strip(L[a + i])
    BY <1>1, <1>3, <1>4
  <2> QED
    BY <2>1, <2>2 DEF Twin
<1>5. CASE k \notin 1 .. n
  <2>2. k \in 1 .. Len(A)
    BY <1>2, <1>3
  <2>1. k \in 1 .. Len(A) /\ k > n
    BY <1>1, <1>5, <2>2
  <2> QED
    BY <1>1, <1>3, <2>1, StripNone
<1> QED
  BY <1>4, <1>5

\* A header row of a contents table in a part is one in the whole.
LEMMA HeadersWithin ==
    ASSUME NEW A, NEW L, NEW a, NEW n, StandsIn(A, L, a, n), NEW i \in 1 .. n, i \in ContentsHeaders(A)
    PROVE  a + i \in ContentsHeaders(L)
<1> DEFINE Faint(s, m) == Gist(s[m]) = <<>> \/ Twin(s, m)
           IsRule(s, k) == Bar \in Range(Gist(s[k])) /\ Range(Gist(s[k])) \subseteq {Bar, Rule, Leader}
           Ends(s, m, k) == (\A l \in m + 1 .. k - 1 : Faint(s, l)) \/ Faint(s, m)
           Above(s, k) == {m \in 1 .. k - 1 :
                              \A l \in m .. k - 1 : Ends(s, l, k) \/ Last(Gist(s[l])) = HyphenWord}
           Under(s, m) == \E h \in 1 .. m - 1 : IsTocHeading(Gist(s[h]))
           Rules(s) == {k \in DOMAIN s : IsRule(s, k) /\ \E m \in Above(s, k) : Bar \in Range(Gist(s[m])) /\ Under(s, m)}
<1>1. /\ L \in Seq(Text) /\ a \in Nat /\ n \in Nat /\ a + n <= Len(L) /\ A \in Seq(Text)
      /\ Len(A) = n \/ Len(A) = n + 1
      /\ \A m \in 1 .. n : Strip(A[m]) = Strip(L[a + m])
      /\ \A m \in 1 .. Len(A) : m > n => A[m] = <<>>
  BY DEF StandsIn
<1>2. DOMAIN A = 1 .. Len(A) /\ DOMAIN L = 1 .. Len(L) /\ Len(A) \in Nat /\ Len(L) \in Nat
  BY <1>1
<1>3. \A s \in {A, L} : ContentsHeaders(s) = UNION {Above(s, k) : k \in Rules(s)}
  BY DEF ContentsHeaders
<1>4. ASSUME NEW m \in 1 .. n
      PROVE  Gist(L[a + m]) = Gist(A[m]) /\ (Strip(L[a + m]) = <<>> => Gist(L[a + m]) = <<>>)
  <2>1. A[m] \in Text /\ L[a + m] \in Text /\ Strip(A[m]) = Strip(L[a + m])
    <3>1. m \in 1 .. Len(A) /\ a + m \in 1 .. Len(L)
      BY <1>1
    <3> QED
      BY <1>1, <3>1
  <2> QED
    BY <2>1, SameInk
<1>5. ASSUME NEW m \in 1 .. n, Faint(A, m) PROVE Faint(L, a + m)
  BY <1>4, <1>5, TwinWithin
<1>6. PICK k \in Rules(A) : i \in Above(A, k)
  BY <1>3
<1>7. k \in 1 .. n /\ IsRule(L, a + k)
  <2>1. k \in 1 .. Len(A) /\ Bar \in Range(Gist(A[k])) /\ IsRule(A, k)
    BY <1>2
  <2>2. Gist(A[k]) # <<>>
    BY <2>1 DEF Range
  <2>3. k \in 1 .. n
    BY <1>1, <2>1, <2>2, GistNone
  <2> QED
    BY <1>4, <2>1, <2>3
<1> HIDE DEF Faint, IsRule
<1>8. ASSUME NEW m \in Above(A, k) PROVE a + m \in Above(L, a + k) /\ m \in 1 .. n
  <2>1. m \in 1 .. k - 1 /\ \A l \in m .. k - 1 : Ends(A, l, k) \/ Last(Gist(A[l])) = HyphenWord
    OBVIOUS
  <2>2. a + m \in 1 .. (a + k) - 1 /\ m \in 1 .. n
    BY <1>1, <1>7, <2>1
  <2>3. ASSUME NEW j \in a + m .. (a + k) - 1
        PROVE  Ends(L, j, a + k) \/ Last(Gist(L[j])) = HyphenWord
    <3> DEFINE l == j - a
    <3>1. l \in m .. k - 1 /\ l \in 1 .. n /\ j = a + l /\ l \in Int
      BY SMTT(40), <1>1, <1>7, <2>1
    <3>2. Ends(A, l, k) \/ Last(Gist(A[l])) = HyphenWord
      BY <2>1, <3>1
    <3> HIDE DEF l
    <3>3. CASE Last(Gist(A[l])) = HyphenWord
      BY <1>4, <3>1, <3>3
    <3>4. CASE Faint(A, l)
      BY <1>5, <3>1, <3>4
    <3>5. CASE \A d \in l + 1 .. k - 1 : Faint(A, d)
      <4>1. ASSUME NEW d \in j + 1 .. (a + k) - 1 PROVE Faint(L, d)
        <5> DEFINE c == d - a
        <5>1. c \in l + 1 .. k - 1 /\ c \in 1 .. n /\ d = a + c
          BY <1>1, <1>7, <3>1
        <5> HIDE DEF c
        <5> QED
          BY <1>5, <3>5, <5>1
      <4> QED
        BY <4>1
    <3> QED
      BY <3>2, <3>3, <3>4, <3>5
  <2> QED
    BY <2>2, <2>3
<1>9. PICK b \in Above(A, k) : Bar \in Range(Gist(A[b])) /\ Under(A, b)
  OBVIOUS
<1>10. a + b \in Above(L, a + k) /\ b \in 1 .. n
  BY <1>8
<1>11. Under(L, a + b)
  <2>1. PICK h \in 1 .. b - 1 : IsTocHeading(Gist(A[h]))
    BY <1>9
  <2>2. h \in 1 .. n /\ a + h \in 1 .. (a + b) - 1
    BY <1>1, <1>10
  <2> QED
    BY <1>4, <2>1, <2>2
<1>12. Bar \in Range(Gist(L[a + b]))
  BY <1>4, <1>9, <1>10
<1>13. a + k \in DOMAIN L
  <2>2. a \in Nat /\ n \in Nat /\ a + n <= Len(L) /\ Len(L) \in Nat /\ k \in 1 .. n
    BY <1>1, <1>2, <1>7
  <2>1. a + k \in 1 .. Len(L)
    BY ONLY <2>2
  <2> QED
    BY <1>2, <2>1
<1>14. a + i \in Above(L, a + k)
  BY <1>6, <1>8
<1> HIDE DEF Above, Under
<1>15. a + k \in Rules(L)
  BY <1>7, <1>10, <1>11, <1>12, <1>13
<1> HIDE DEF Rules
<1> QED
  BY <1>3, <1>14, <1>15

\* Consecutive lines are lines.
LEMMA RuledSlice ==
    ASSUME NEW L, Ruled(L), NEW a \in Nat, NEW e \in Nat, a <= e, e <= Len(L)
    PROVE  Ruled(Slice(L, a, e))
<1> DEFINE s == Slice(L, a, e)
<1>1. L \in Seq(Text) /\ Len(L) \in Nat
  BY DEF Ruled
<1>2. s \in Seq(Text) /\ Len(s) = e - a /\ \A i \in 1 .. e - a : s[i] = L[a + i]
  <2>1. L \in Seq(Text)
    BY <1>1
  <2> QED
    BY ONLY <2>1, a \in Nat, e \in Nat, a <= e, e <= Len(L), SliceOf
<1> HIDE DEF s
<1>3. \A i \in 1 .. e - a : a + i \in 1 .. Len(L)
  BY <1>1
<1>4. \A i \in 1 .. (e - a) - 1 : a + i \in 1 .. Len(L) - 1 /\ i \in 1 .. e - a
  BY <1>1
<1>5. \A i \in 1 .. Len(s) : OneLine(s[i])
  BY <1>2, <1>3 DEF Ruled
<1>6. ASSUME NEW i \in 1 .. Len(s) - 1 PROVE s[i][Len(s[i])] \in LineEnds
  <2>1. a + i \in 1 .. Len(L) - 1 /\ s[i] = L[a + i]
    BY <1>2, <1>4
  <2> QED
    BY <2>1 DEF Ruled
<1> QED
  BY <1>2, <1>5, <1>6 DEF Ruled, s

\* Lines without those that may be lost.
LEMMA LoweredOf ==
    ASSUME NEW A \in Seq(Text)
    PROVE  \E low : /\ Lowered(low, A)
                    /\ \A i \in 1 .. Len(A) : ~ Twin(A, i) /\ i \notin ContentsHeaders(A) => low[i] = A[i]
<1> DEFINE Gone(i) == Twin(A, i) \/ i \in ContentsHeaders(A)
           low == [i \in DOMAIN A |-> IF Gone(i) THEN <<>> ELSE A[i]]
<1> HIDE DEF Gone
<1>1. low = [i \in DOMAIN A |-> low[i]] /\ \A i \in 1 .. Len(A) : low[i] = IF Gone(i) THEN <<>> ELSE A[i]
  OBVIOUS
<1> HIDE DEF low
<1>2. ASSUME NEW i \in 1 .. Len(A) PROVE low[i] \in Text
  <2>1. A[i] \in Text
    BY ONLY A \in Seq(Text), i \in 1 .. Len(A), ElementOf
  <2>2. low[i] = <<>> \/ low[i] = A[i]
    BY <1>1
  <2> QED
    BY <2>1, <2>2, SomeTexts
<1>3. low \in Seq(Text) /\ Len(low) = Len(A)
  <2>1. A \in Seq(Text) /\ low = [i \in DOMAIN A |-> low[i]]
    BY <1>1
  <2>2. \A i \in 1 .. Len(A) : low[i] \in Text
    BY <1>2
  <2>3. low \in Seq(Text)
    BY ONLY <2>1, <2>2, MappedSequence
  <2> QED
    BY ONLY <2>1, <2>3, MappedLen
<1>4. Thins(low, A)
  BY <1>1, <1>3 DEF Thins
<1> QED
  BY <1>1, <1>3, <1>4 DEF Lowered, Gone

\* A text that says nothing changes no words, behind or instead of another.
LEMMA WordsPadded ==
    ASSUME NEW d \in Seq(Text), NEW n \in Nat, n = Len(d) \/ n = Len(d) + 1
    PROVE  \E c \in Seq(Text) : /\ Len(c) = n /\ Spelled(words, c) = Spelled(words, d)
                                /\ \A i \in 1 .. Len(d) : c[i] = d[i]
                                /\ \A i \in 1 .. n : i > Len(d) => c[i] = <<>>
<1>1. CASE n = Len(d)
  BY <1>1
<1>2. CASE n = Len(d) + 1
  <2> DEFINE c == Append(d, <<>>)
  <2>1. c \in Seq(Text) /\ Len(c) = Len(d) + 1 /\ (\A i \in 1 .. Len(d) : c[i] = d[i]) /\ c[Len(d) + 1] = <<>>
    BY SomeTexts
  <2>2. Spelled(words, c) = Spelled(words, d) \o <<>>
    <3>1. Spelled(words, c) = Spelled(words, d) \o words[<<>>]
      <4>1. words \in [Text -> Seq(Atoms)] /\ <<>> \in Text
        BY TextsAre, SomeTexts
      <4> QED
        BY ONLY <4>1, d \in Seq(Text), SpelledAppend
    <3> QED
      BY <3>1, WordsFew
  <2>3. Spelled(words, d) \o <<>> = Spelled(words, d)
    <3> DEFINE w == Spelled(words, d)
    <3>1. w \in Seq(Atoms)
      BY WordsOfSeq
    <3> HIDE DEF w
    <3>2. w \o <<>> = w
      BY ONLY <3>1, ConcatEmpty
    <3> QED
      BY <3>2 DEF w
  <2> HIDE DEF c
  <2>4. \A i \in 1 .. n : i > Len(d) => c[i] = <<>>
    BY <1>2, <2>1
  <2> QED
    BY <1>2, <2>1, <2>2, <2>3, <2>4
<1> QED
  BY <1>1, <1>2

\* The cleaning of a run of prose keeps the words of the lines that stand in the document once.
LEMMA RunAmid ==
    ASSUME NEW L, Ruled(L), NEW low, Lowered(low, L), NEW a \in Nat, NEW e \in Nat, a < e, e <= Len(L)
    PROVE  Amid(Slice(low, a, e), WordsOf(CleanProse(FlattenSeq(Slice(L, a, e)))), Slice(L, a, e))
<1> DEFINE ks == Slice(L, a, e)
           d == Slice(low, a, e)
           n == e - a
           t == FlattenSeq(ks)
           A == RawLines(t)
           w == WordsOf(CleanProse(t))
<1>1. L \in Seq(Text) /\ low \in Seq(Text) /\ Thins(low, L) /\ Len(L) \in Nat /\ n \in Nat /\ a + n = e /\ n > 0 /\ a <= e
  BY DEF Ruled, Lowered
<1>2. /\ d \in Seq(Text) /\ ks \in Seq(Text) /\ Len(ks) = n /\ Thins(d, ks)
      /\ \A i \in 1 .. n : ks[i] = L[a + i] /\ d[i] = low[a + i]
  BY ONLY ZenonT(40), <1>1, a \in Nat, e \in Nat, e <= Len(L), ThinsSlice
<1>3. Ruled(ks)
  BY <1>1, RuledSlice
<1> HIDE DEF ks, d, n
<1>4. Bodies(A, ks)
  <2>1. ks # <<>>
    BY <1>1, <1>2
  <2> QED
    BY <1>3, <2>1, RawBodies
<1>5. t \in Text /\ WordsOf(t) = Spelled(words, ks)
  BY <1>2, WordsFlatten
<1> HIDE DEF t, A
<1>6. /\ A \in Seq(Text) /\ (Len(A) = n \/ Len(A) = n + 1)
      /\ (\A i \in 1 .. n : Strip(A[i]) = Strip(ks[i])) /\ \A i \in 1 .. Len(A) : i > n => A[i] = <<>>
  BY <1>2, <1>4 DEF Bodies
<1>7. StandsIn(A, L, a, n)
  BY <1>1, <1>2, <1>6 DEF StandsIn
<1>8. PICK lowA : /\ Lowered(lowA, A)
                  /\ \A i \in 1 .. Len(A) : ~ Twin(A, i) /\ i \notin ContentsHeaders(A) => lowA[i] = A[i]
  BY <1>6, LoweredOf
<1>9. Sub(Spelled(words, lowA), w)
  BY <1>5, <1>8, ProseLosesNothing DEF A
<1>10. lowA \in Seq(Text) /\ Len(lowA) = Len(A)
  BY <1>8 DEF Lowered, Thins
<1>11. Len(d) = n
  BY <1>2 DEF Thins
<1>12. PICK c \in Seq(Text) : /\ Len(c) = Len(A) /\ Spelled(words, c) = Spelled(words, d)
                              /\ \A i \in 1 .. Len(d) : c[i] = d[i]
                              /\ \A i \in 1 .. Len(A) : i > Len(d) => c[i] = <<>>
  <2>1. Len(A) \in Nat /\ (Len(A) = Len(d) \/ Len(A) = Len(d) + 1)
    BY <1>6, <1>11
  <2>2. d \in Seq(Text)
    BY <1>2
  <2> QED
    BY ONLY <2>1, <2>2, WordsPadded
<1>13. ASSUME NEW i \in 1 .. Len(c) PROVE words[c[i]] = <<>> \/ words[c[i]] = words[lowA[i]]
  <2>1. words[<<>>] = <<>>
    BY WordsFew
  <2>2. CASE i > n
    BY <1>11, <1>12, <2>1, <2>2
  <2>3. CASE i <= n
    <3>1. i \in 1 .. n /\ i \in 1 .. Len(A) /\ a + i \in 1 .. Len(L)
      BY <1>1, <1>6, <1>12, <2>3
    <3>2. c[i] = low[a + i] /\ ks[i] = L[a + i] /\ Strip(A[i]) = Strip(ks[i])
      BY <1>2, <1>6, <1>11, <1>12, <3>1
    <3>3. A[i] \in Text /\ L[a + i] \in Text
      <4>1. A[i] \in Text
        BY <1>6, <3>1, ElementOf
      <4>2. L[a + i] \in Text
        BY <1>1, <3>1, ElementOf
      <4> QED
        BY <4>1, <4>2
    <3>4. WordsOf(A[i]) = WordsOf(L[a + i]) /\ (Strip(L[a + i]) = <<>> => WordsOf(L[a + i]) = <<>>)
      BY <3>2, <3>3, SameInk
    <3>5. words[A[i]] = WordsOf(A[i]) /\ words[L[a + i]] = WordsOf(L[a + i])
      BY <3>3, TextsAre
    <3>6. CASE low[a + i] = <<>>
      BY <2>1, <3>2, <3>6
    <3>7. CASE low[a + i] # <<>>
      <4>1. low[a + i] = L[a + i] /\ ~ Twin(L, a + i) /\ a + i \notin ContentsHeaders(L)
        BY <3>1, <3>7 DEF Lowered, Thins
      <4>2. i \notin ContentsHeaders(A)
        BY <1>7, <3>1, <4>1, HeadersWithin
      <4>3. CASE Twin(A, i)
        <5>1. Strip(L[a + i]) = <<>>
          BY <1>7, <3>1, <4>1, <4>3, TwinWithin
        <5> QED
          BY <3>2, <3>4, <3>5, <4>1, <5>1
      <4>4. CASE ~ Twin(A, i)
        BY <1>8, <3>1, <3>2, <3>4, <3>5, <4>1, <4>2, <4>4
      <4> QED
        BY <4>3, <4>4
    <3> QED
      BY <3>6, <3>7
  <2>4. i > n \/ i <= n
    BY <1>1, <1>12
  <2> QED
    BY <2>2, <2>3, <2>4
<1>14. Sub(Spelled(words, c), Spelled(words, lowA))
  <2>1. c \in Seq(Text) /\ lowA \in Seq(Text) /\ Len(c) = Len(lowA)
    BY <1>10, <1>12
  <2> QED
    BY ONLY <1>13, <2>1, SpelledSub
<1> DEFINE x == Spelled(words, d)
           y == Spelled(words, lowA)
<1>15. x \in Seq(Atoms) /\ y \in Seq(Atoms) /\ w \in Seq(Atoms)
  <2>1. CleanProse(t) \in Text
    BY <1>5, CleanProseText
  <2> QED
    BY <1>2, <1>10, <2>1, WordsOfSeq, WordsConcat, SomeTexts DEF Text
<1>16. Sub(x, y) /\ Sub(y, w)
  BY <1>9, <1>12, <1>14
<1>17. Sub(w, Spelled(words, ks))
  BY <1>5, ProseInventsNothing
<1> HIDE DEF x, y, w
<1>18. Sub(x, w)
  BY ONLY <1>15, <1>16, SubTrans
<1> QED
  BY <1>17, <1>18 DEF Amid, x, w, t, ks, d

\* A document's lines without some of them, and its lines with those blank, have the same words.
LEMMA WordsWithoutLines ==
    ASSUME NEW s \in Seq(Text), NEW D, NEW low \in Seq(Text), Len(low) = Len(s),
           \A i \in 1 .. Len(s) : low[i] = IF i \in D THEN <<>> ELSE s[i]
    PROVE  Without(s, D) \in Seq(Text) /\ Spelled(words, Without(s, D)) = Spelled(words, low)
<1> DEFINE P == {v \in Seq(Text) :
                    \A l \in Seq(Text) :
                       Len(l) = Len(v) /\ (\A i \in 1 .. Len(v) : l[i] = IF i \in D THEN <<>> ELSE v[i])
                          => Spelled(words, Without(v, D)) = Spelled(words, l)}
<1>0. words \in [Text -> Seq(Atoms)] /\ <<>> \in Text /\ words[<<>>] = <<>>
  BY TextsAre, SomeTexts, WordsFew
<1>1. <<>> \in P
  <2>1. Without(<<>>, D) = <<>>
    BY WithoutNone
  <2>2. ASSUME NEW l \in Seq(Text), Len(l) = Len(<<>>) PROVE l = <<>>
    BY <2>2
  <2>3. \A l \in Seq(Text) : Len(l) = Len(<<>>) => Spelled(words, Without(<<>>, D)) = Spelled(words, l)
    BY <2>1, <2>2
  <2>4. <<>> \in Seq(Text)
    OBVIOUS
  <2> QED
    BY <2>3, <2>4
<1>2. ASSUME NEW v \in Seq(Text), NEW x \in Text, v \in P PROVE Append(v, x) \in P
  <2> DEFINE a == Append(v, x)
             n == Len(v) + 1
             y == IF n \in D THEN <<>> ELSE x
  <2>1. a \in Seq(Text) /\ Len(a) = n /\ Len(v) \in Nat /\ a[n] = x /\ (\A i \in 1 .. Len(v) : a[i] = v[i]) /\ y \in Text
    BY <1>0
  <2>2. Without(v, D) \in Seq(Text)
        /\ Without(a, D) = IF n \in D THEN Without(v, D) ELSE Append(Without(v, D), x)
    BY WithoutAppend
  <2> HIDE DEF a
  <2>13. (\A l \in Seq(Text) :
             Len(l) = Len(a) /\ (\A i \in 1 .. Len(a) : l[i] = IF i \in D THEN <<>> ELSE a[i])
                => Spelled(words, Without(a, D)) = Spelled(words, l)) => a \in P
    BY <2>1
  <2>3. SUFFICES ASSUME NEW l \in Seq(Text), Len(l) = Len(a), \A i \in 1 .. Len(a) : l[i] = IF i \in D THEN <<>> ELSE a[i]
                 PROVE  Spelled(words, Without(a, D)) = Spelled(words, l)
    <3> HIDE DEF P
    <3> QED
      BY <2>13 DEF a
  <2> DEFINE m == Slice(l, 0, Len(v))
             w == Without(v, D)
  <2>4. Len(l) = n
    BY <2>1, <2>3
  <2>5. m \in Seq(Text) /\ Len(m) = Len(v) /\ \A i \in 1 .. Len(v) : m[i] = l[i]
    <3>1. 0 \in Nat /\ Len(v) \in Nat /\ 0 <= Len(v) /\ Len(v) <= Len(l) /\ Len(v) - 0 = Len(v)
      BY <2>1, <2>4
    <3>2. m \in Seq(Text) /\ Len(m) = Len(v) - 0 /\ \A i \in 1 .. Len(v) - 0 : m[i] = l[0 + i]
      BY ONLY <3>1, l \in Seq(Text), SliceOf
    <3> QED
      BY <3>1, <3>2
  <2> HIDE DEF m, w, y
  <2>6. l[n] = y
    <3>1. n \in 1 .. Len(a)
      BY <2>1
    <3>2. l[n] = IF n \in D THEN <<>> ELSE a[n]
      BY <2>3, <3>1
    <3> QED
      BY <2>1, <3>2 DEF y
  <2>7. l = Append(m, y)
    <3> DEFINE z == Append(m, y)
    <3>1. z \in Seq(Text) /\ Len(z) = n /\ z[n] = y /\ \A i \in 1 .. Len(v) : z[i] = m[i]
      BY <2>1, <2>5
    <3> HIDE DEF z
    <3>2. \A i \in 1 .. n : i = n \/ i \in 1 .. Len(v)
      BY <2>1
    <3>3. \A i \in 1 .. n : z[i] = l[i]
      BY <2>5, <2>6, <3>1, <3>2
    <3>4. z = l
      BY <2>4, <3>1, <3>3
    <3> QED
      BY <3>4 DEF z
  <2>8. Spelled(words, w) = Spelled(words, m)
    <3>1. \A i \in 1 .. Len(v) : m[i] = IF i \in D THEN <<>> ELSE v[i]
      <4>1. \A i \in 1 .. Len(v) : i \in 1 .. Len(a)
        BY <2>1
      <4> QED
        BY <2>1, <2>3, <2>5, <4>1
    <3> QED
      BY <1>2, <2>5, <3>1 DEF w
  <2>9. Spelled(words, l) = Spelled(words, m) \o words[y]
    BY ONLY <1>0, <2>1, <2>5, <2>7, SpelledAppend
  <2>10. Spelled(words, m) \in Seq(Atoms)
    BY <2>5, WordsOfSeq
  <2>11. CASE n \in D
    <3>1. words[y] = <<>>
      BY <1>0, <2>11 DEF y
    <3>2. Spelled(words, m) \o <<>> = Spelled(words, m)
      <4> DEFINE c == Spelled(words, m)
      <4> HIDE DEF c
      <4>1. c \in Seq(Atoms) => c \o <<>> = c
        BY ConcatEmpty
      <4> QED
        BY <2>10, <4>1 DEF c
    <3> QED
      BY <2>2, <2>8, <2>9, <2>11, <3>1, <3>2 DEF w
  <2>12. CASE n \notin D
    <3>1. y = x
      BY <2>12 DEF y
    <3>2. Spelled(words, Append(w, x)) = Spelled(words, w) \o words[x]
      <4>1. w \in Seq(Text)
        BY <2>2 DEF w
      <4> QED
        BY ONLY <1>0, <4>1, x \in Text, SpelledAppend
    <3> QED
      BY <2>2, <2>8, <2>9, <2>12, <3>1, <3>2 DEF w
  <2> QED
    BY <2>11, <2>12
<1> HIDE DEF P
<1>3. s \in P
  BY ONLY <1>1, <1>2, s \in Seq(Text), SeqInduction
<1>4. Without(s, D) \in Seq(Text)
  BY WithoutAppend, SomeTexts
<1> QED
  BY <1>3, <1>4 DEF P

\* The words of a text, of its cleaned form, and of its lines that stand there once.
Keeps(text) ==
    LET lines == KeptLines(text)
        lost  == {i \in DOMAIN lines : Twin(lines, i)} \cup ContentsHeaders(lines)
    IN  /\ IsThinned(WordsOf(FlattenSeq(Without(lines, lost))), WordsOf(CleanMarkdown(text)))
        /\ IsThinned(WordsOf(CleanMarkdown(text)), WordsOf(text))

\* The words of every text through the whole cleaning: none is invented, and those of lines that
\* are no twins and no contents header rows are all there, in order.
LEMMA WordsSurvive == ASSUME NEW text \in Text PROVE Keeps(text)
<1> DEFINE L == KeptLines(text)
           lost == {i \in DOMAIN L : Twin(L, i)} \cup ContentsHeaders(L)
           kept == Without(L, lost)
           w == WordsOf(CleanMarkdown(text))
<1>1. Ruled(L) /\ FlattenSeq(L) = text
  BY KeptRuled
<1>2. L \in Seq(Text) /\ DOMAIN L = 1 .. Len(L)
  BY <1>1 DEF Ruled
<1>13. DOMAIN L = 1 .. Len(L)
  BY <1>2
<1>3. PICK low : /\ Lowered(low, L)
                 /\ \A i \in 1 .. Len(L) : ~ Twin(L, i) /\ i \notin ContentsHeaders(L) => low[i] = L[i]
  BY <1>2, LoweredOf
<1>4. low \in Seq(Text) /\ Thins(low, L) /\ Len(low) = Len(L)
  BY <1>3 DEF Lowered, Thins
<1>5. Amid(low, w, L)
  <2>1. ASSUME NEW i \in 1 .. Len(L), NEW e \in i .. Len(L)
        PROVE  Amid(Slice(low, i - 1, e), WordsOf(CleanProse(FlattenSeq(Slice(L, i - 1, e)))), Slice(L, i - 1, e))
    <3> DEFINE a == i - 1
    <3>1. a \in Nat /\ e \in Nat /\ a < e /\ e <= Len(L)
      BY <1>2
    <3> HIDE DEF a, L
    <3>2. Amid(Slice(low, a, e), WordsOf(CleanProse(FlattenSeq(Slice(L, a, e)))), Slice(L, a, e))
      BY <1>1, <1>3, <3>1, RunAmid
    <3> QED
      BY <3>2 DEF a
  <2> QED
    BY <1>4, <2>1, BlocksAmid
<1>6. kept \in Seq(Text) /\ Spelled(words, kept) = Spelled(words, low)
  <2> HIDE DEF L
  <2>1. ASSUME NEW i \in 1 .. Len(L) PROVE low[i] = IF i \in lost THEN <<>> ELSE L[i]
    <3>1. i \in lost <=> Twin(L, i) \/ i \in ContentsHeaders(L)
      BY <1>13
    <3> HIDE DEF lost
    <3> QED
      BY <1>3, <3>1 DEF Lowered
  <2> HIDE DEF lost
  <2> QED
    BY <1>2, <1>4, <2>1, WordsWithoutLines
<1> HIDE DEF L, lost, kept
<1>7. WordsOf(FlattenSeq(kept)) = Spelled(words, kept)
  BY <1>6, WordsFlatten
<1>8. WordsOf(text) = Spelled(words, L)
  BY <1>1, <1>2, WordsFlatten
<1> DEFINE x == Spelled(words, low)
           y == Spelled(words, L)
<1>9. x \in Seq(Atoms) /\ y \in Seq(Atoms) /\ w \in Seq(Atoms)
  <2>1. CleanMarkdown(text) \in Text
    BY CleanMarkdownText
  <2>2. w \in Seq(Atoms)
    BY <2>1, WordsConcat DEF Text
  <2> QED
    BY <1>2, <1>4, <2>2, WordsOfSeq
<1>10. Sub(x, w) /\ Sub(w, y)
  BY <1>5 DEF Amid
<1> HIDE DEF x, y, w
<1>11. IsThinned(x, w) /\ IsThinned(w, y)
  <2>1. IsThinned(x, w)
    BY ONLY <1>9, <1>10, SubIsThinned
  <2>2. IsThinned(w, y)
    BY ONLY <1>9, <1>10, SubIsThinned
  <2> QED
    BY <2>1, <2>2
<1>12. IsThinned(WordsOf(FlattenSeq(kept)), w) /\ IsThinned(w, WordsOf(text))
  BY <1>6, <1>7, <1>8, <1>11 DEF x, y
<1> QED
  BY <1>12 DEF Keeps, L, lost, kept, w

\* What a document says survives the cleaning, CleaningKeepsTheDocument: its fenced code,
\* and its words as they come, but for lines that stand there more than once and the header
\* rows of contents tables.
THEOREM DocumentKept == Spec => []CleaningKeepsTheDocument
<1>1. ASSUME BatchInv, TextInv PROVE WordsAreKept
  <2> SUFFICES ASSUME NEW r \in Made
               PROVE  LET lines == KeptLines(r.raw)
                          lost  == {i \in DOMAIN lines : Twin(lines, i)} \cup ContentsHeaders(lines)
                      IN  /\ IsThinned(WordsOf(FlattenSeq(Without(lines, lost))), WordsOf(r.markdown))
                          /\ IsThinned(WordsOf(r.markdown), WordsOf(r.raw))
    BY DEF WordsAreKept
  <2> DEFINE text == r.raw
  <2>1. text \in Text /\ r.markdown = CleanMarkdown(text)
    BY <1>1, MadeAre
  <2> HIDE DEF text
  <2>2. Keeps(text)
    BY <2>1, WordsSurvive
  <2> QED
    BY <2>1, <2>2 DEF Keeps, text
<1>2. BatchInv /\ TextInv => WordsAreKept
  BY <1>1
<1> QED
  BY <1>2, CodeKept, TextInvariant, PTL DEF CleaningKeepsTheDocument
=============================================================================
