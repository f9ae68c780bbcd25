------------------------------ MODULE CliBatch ------------------------------
(***************************************************************************)
(* cli.py: the docrunr command collects the files below a path, processes  *)
(* them one after the other or in a pool of threads, writes two files for  *)
(* each, counts the results and ends with an exit code.  The output goes   *)
(* next to the input unless --out names another directory, so one command  *)
(* may write what it, or the next command, reads.                          *)
(*                                                                         *)
(* The environment chooses the directory and the options, may fail a write *)
(* (permissions, a full disk) and may run the same command again.          *)
(***************************************************************************)
EXTENDS Pipeline, Wording

CONSTANTS
    Commands,   \* what may be run, and on which files; see CommandAssumption
    Names,      \* every file name as <<stem, extension>>, in the order of sorted()
    MaxFaults   \* bound: how many writes fail

\* Whatever a parser gets out of a file is a text.
IsFile(file) == \A parser \in DOMAIN file.views : file.views[parser].text \in Text

\* input: the files there are; single: the path names a file, not a directory;
\* out: the root of the output; workers: --workers; report: --report;
\* include: the extensions that --include lets through; times: how often it is run.
ASSUME CommandAssumption ==
    \A c \in Commands :
        /\ \A p \in DOMAIN c.input : /\ p.root = "in" /\ <<p.stem, p.ext>> \in Range(Names)
                                     /\ IsFile(c.input[p])
        /\ c.single \in BOOLEAN /\ (c.single => Cardinality(DOMAIN c.input) = 1)
        /\ c.out \in {"in", "out"} /\ c.workers \in Nat \ {0} /\ c.report \in BOOLEAN
        /\ c.times \in Nat \ {0}

\* A directory has no name twice.
ASSUME NamesAssumption ==
    /\ Names \in Seq(Range(Names))
    /\ \A i, k \in DOMAIN Names :
           Names[i][1] = Names[k][1] /\ Names[i][2] = Names[k][2] => i = k

ASSUME MaxFaults \in Nat

VARIABLES
    command,    \* the command line, and how often it is still to be run
    disk,       \* the files there are: path -> file
    files,      \* the collected files
    phase,      \* how far _process_one is with each of them
    result,     \* the Result of each that has one
    counted,    \* batch: the results that were added, in order
    exit,       \* "no" while it runs, "unwinding" behind a result that raised
    faults

vars == <<command, disk, files, phase, result, counted, exit, faults>>

Path(root, name) == [root |-> root, stem |-> name[1], ext |-> name[2]]

\* _resolve_out_path and the two names of Result.write.
OutPath(path, ext) == [root |-> command.out, stem |-> path.stem, ext |-> ext]

ReportPath == [root |-> command.out, stem |-> "_report", ext |-> "json"]
ReportFile == [label |-> "json", views |-> [Json |-> [text |-> JsonText, score |-> Threshold]]]

With(f, key, value) == [k \in DOMAIN f \cup {key} |-> IF k = key THEN value ELSE f[k]]

Read(path) == IF path \in DOMAIN disk THEN disk[path] ELSE Absent

\* use_parallel
Parallel == Len(files) > 1 /\ command.workers > 1

Over == {"written", "failed", "raised"}         \* the task of the file has ended
IsCounted(f) == \E n \in DOMAIN counted : counted[n].source = f

Init ==
    /\ command \in Commands
    /\ disk = command.input
    /\ files = <<>>
    /\ phase = <<>>
    /\ result = <<>>
    /\ counted = <<>>
    /\ exit = "not started"
    /\ faults = 0

\* _collect_files, and main up to the batch: without a file the command ends.
Collect ==
    /\ exit = "not started"
    /\ LET Found(name) == /\ Path("in", name) \in DOMAIN disk
                          /\ IF command.single THEN Path("in", name) \in DOMAIN command.input
                             ELSE name[2] \in command.include
           names == Selected(Names, {i \in DOMAIN Names : Found(Names[i])})
       IN  /\ files' = [i \in DOMAIN names |-> Path("in", names[i])]
           /\ phase' = [f \in Range(files') |-> "queued"]
           /\ exit' = IF names = <<>> THEN "no files" ELSE "no"
    /\ UNCHANGED <<command, disk, result, counted, faults>>

\* _process_one up to the write: the files are begun in their order, by the main thread
\* when the one before has been counted, by a pool thread when one is free.
Process(i) ==
    /\ exit \in {"no"} \cup (IF Parallel THEN {"unwinding"} ELSE {})
    /\ phase[files[i]] = "queued"
    /\ \A k \in 1 .. i - 1 : phase[files[k]] # "queued"
    /\ IF Parallel
       THEN Cardinality({f \in Range(files) : phase[f] \notin Over \cup {"queued"}}) < command.workers
       ELSE \A k \in 1 .. i - 1 : IsCounted(files[k])
    /\ result' = With(result, files[i], ProcessFile(files[i], Read(files[i])))
    /\ phase' = [phase EXCEPT ![files[i]] = IF result'[files[i]].ok THEN "processed" ELSE "failed"]
    /\ UNCHANGED <<command, disk, files, counted, exit, faults>>

\* Result.write, the Markdown.
WriteMarkdown(f) ==
    /\ phase[f] = "processed"
    /\ disk' = With(disk, OutPath(f, "md"), MarkdownFile(result[f]))
    /\ phase' = [phase EXCEPT ![f] = "half written"]
    /\ UNCHANGED <<command, files, result, counted, exit, faults>>

\* Mutation: the JSON goes next to the input, not to the output directory.
WriteJsonBySource(f) ==
    /\ phase[f] = "half written"
    /\ disk' = With(disk, [OutPath(f, "json") EXCEPT !.root = "in"], JsonFile(result[f]))
    /\ phase' = [phase EXCEPT ![f] = "written"]
    /\ UNCHANGED <<command, files, result, counted, exit, faults>>

\* Result.write, the JSON.
WriteJson(f) ==
    /\ phase[f] = "half written"
    /\ disk' = With(disk, OutPath(f, "json"), JsonFile(result[f]))
    /\ phase' = [phase EXCEPT ![f] = "written"]
    /\ UNCHANGED <<command, files, result, counted, exit, faults>>

\* Either write raises OSError: nothing of _process_one catches it.
WriteFails(f) ==
    /\ phase[f] \in {"processed", "half written"}
    /\ faults < MaxFaults
    /\ faults' = faults + 1
    /\ phase' = [phase EXCEPT ![f] = "raised"]
    /\ UNCHANGED <<command, disk, files, result, counted, exit>>

\* batch.add of a result, in the order in which the tasks end.
Count(f) ==
    /\ exit = "no"
    /\ ~IsCounted(f)
    /\ phase[f] \in {"written", "failed"}
    /\ counted' = Append(counted, result[f])
    /\ UNCHANGED <<command, disk, files, phase, result, exit, faults>>

\* future.result(), or the call itself, raises in the loop over the files.
Raise(f) ==
    /\ exit = "no"
    /\ phase[f] = "raised"
    /\ exit' = "unwinding"
    /\ UNCHANGED <<command, disk, files, phase, result, counted, faults>>

\* The exception leaves main, when the pool has ended all the tasks there are.
Unwind ==
    /\ exit = "unwinding"
    /\ Parallel => \A f \in Range(files) : phase[f] \in Over
    /\ exit' = "crashed"
    /\ UNCHANGED <<command, disk, files, phase, result, counted, faults>>

\* Mutation: the exit code tells whether anything was processed.
FinishOnSuccess ==
    /\ exit = "no"
    /\ \A f \in Range(files) : IsCounted(f)
    /\ disk' = IF command.report THEN With(disk, ReportPath, ReportFile) ELSE disk
    /\ exit' = IF \A n \in DOMAIN counted : ~counted[n].ok THEN "some failed" ELSE "all processed"
    /\ UNCHANGED <<command, files, phase, result, counted, faults>>

\* The end of main: the report, and the exit code 0 or 1.
Finish ==
    /\ exit = "no"
    /\ \A f \in Range(files) : IsCounted(f)
    /\ disk' = IF command.report THEN With(disk, ReportPath, ReportFile) ELSE disk
    /\ exit' = IF \E n \in DOMAIN counted : ~counted[n].ok THEN "some failed" ELSE "all processed"
    /\ UNCHANGED <<command, files, phase, result, counted, faults>>

\* The same command once more.
Again ==
    /\ exit \in {"some failed", "all processed"}
    /\ command.times > 1
    /\ command' = [command EXCEPT !.times = @ - 1]
    /\ files' = <<>> /\ phase' = <<>> /\ result' = <<>> /\ counted' = <<>>
    /\ exit' = "not started"
    /\ UNCHANGED <<disk, faults>>

Ended ==
    /\ \/ exit \in {"no files", "crashed"}
       \/ exit \in {"some failed", "all processed"} /\ command.times = 1
    /\ UNCHANGED vars

Next ==
    \/ Collect \/ Unwind \/ Finish \/ Again \/ Ended
    \/ \E i \in DOMAIN files : Process(i)
    \/ \E f \in Range(files) : WriteMarkdown(f) \/ WriteJson(f) \/ WriteFails(f) \/ Count(f) \/ Raise(f)

Spec == Init /\ [][Next]_vars
-----------------------------------------------------------------------------
(* Properties of the batch.                                                 *)

Reported == exit \in {"all processed", "some failed"}

\* The report of a batch that ends by itself has every collected file once, with the
\* outcome of that file, and the exit code is 0 only if all of them were processed,
\* in whichever order the pool ends the tasks.
ReportIsComplete ==
    Reported =>
        /\ Len(counted) = Len(files)
        /\ \A f \in Range(files) : \E n \in DOMAIN counted : counted[n] = result[f]
        /\ (exit = "all processed") = (\A f \in Range(files) : phase[f] = "written")

Siblings(f) == {g \in Range(files) : g.stem = f.stem /\ result[g].ok}

PairIn(f) == [ext \in {"md", "json"} |-> Read(OutPath(f, ext))]

\* Behind a batch the two files of a document are those of one document, and of that
\* one if no other collected file has its stem.  With siblings a pool can leave
\* the Markdown of one and the JSON of the other, and the report takes the place of
\* the output of an earlier report, so the claim is for the others.
PairsBelongTogether ==
    Reported =>
        \A f \in Range(files) :
            result[f].ok /\ (Siblings(f) = {f} \/ ~Parallel) /\ ~(command.report /\ f.stem = "_report") =>
                \E g \in Siblings(f) :
                    PairIn(f) = [md |-> MarkdownFile(result[g]), json |-> JsonFile(result[g])]
-----------------------------------------------------------------------------
(* Properties of a result, for every document a command is run on.  They are about *)
(* the result when it is made; nothing changes it later.                    *)

Made == {result[f] : f \in {g \in DOMAIN result : phase[g] = "processed"}}

\* Fenced code comes out of the cleaning unchanged, whatever is in it and on whichever
\* page (tests: fenced code is not rewritten).  Only whitespace at the end of
\* the whole document goes.  A line end in front of the code is not part of it.
CodeIsKept ==
    \A r \in Made :
        LET lines == KeptLines(r.raw)
        IN  \A b \in CodeBlocks(lines) :
                Quotes(r.markdown, Strip(FlattenSeq(SubSeq(lines, b[1], b[2]))))

\* The cleaning neither invents nor reorders words, and it loses none of a line that
\* stands in the document once and is no header row of a contents table.
WordsAreKept ==
    \A r \in Made :
        LET lines == KeptLines(r.raw)
            lost  == {i \in DOMAIN lines : Twin(lines, i)} \cup ContentsHeaders(lines)
        IN  /\ IsThinned(WordsOf(FlattenSeq(Without(lines, lost))), WordsOf(r.markdown))
            /\ IsThinned(WordsOf(r.markdown), WordsOf(r.raw))

\* What a document says survives the cleaning, in its code and in its prose.
CleaningKeepsTheDocument == CodeIsKept /\ WordsAreKept

\* The marks that count only where a line begins stand there: no fence behind other text
\* of its line, and no item whose text begins with the bullet of another level.
MarksLead(lines) ==
    \A i \in DOMAIN lines :
        LET line == Outdent(lines[i])
        IN  /\ ~StartsWith(IF StartsWith(line, Bullets) THEN Tail(line) ELSE line, {Circle, Section})
            /\ \A k \in 2 .. Len(line) : line[k] \notin Fences

\* Cleaned Markdown is clean: without a table of contents in it, and unless a pass has
\* left a mark behind what it counts as the beginning of a line, the cleaning changes
\* nothing but the indentation when it is given its own output, as it is when an output
\* directory is processed again.
CleaningIsStable ==
    \A r \in Made :
        LET Flat(text) == EachLine(text, Outdent)
            NoContents == \A i \in DOMAIN Lines(r.raw) : ~IsTocHeading(Lines(r.raw)[i])
        IN  NoContents /\ MarksLead(Lines(r.markdown)) =>
                Flat(CleanMarkdown(r.markdown)) = Flat(r.markdown)

\* SPEC.md: the offsets of a chunk are those of its text in the content.  The chunks
\* follow one another in the content without an overlap.
ChunksQuoteTheContent ==
    \A r \in Made :
        /\ \A n \in DOMAIN r.chunks :
               LET c == r.chunks[n] IN c.text # <<>> /\ Slice(r.markdown, c.start, c.end) = c.text
        /\ \A n \in 1 .. Len(r.chunks) - 1 : r.chunks[n].end <= r.chunks[n + 1].start

\* What is in no chunk is whitespace, or says in the same section what a chunk says.
ContentIsChunked ==
    \A r \in Made :
        LET states == SectionStates(r.markdown)
            InChunk(i) == \E n \in DOMAIN r.chunks : r.chunks[n].start < i /\ i <= r.chunks[n].end
            Repeats(i) ==
                \E n \in DOMAIN r.chunks, o \in 0 .. i - 1 :
                    LET c == r.chunks[n]
                    IN  /\ i <= o + Len(c.text) /\ o + Len(c.text) <= Len(r.markdown)
                        /\ Slice(r.markdown, o, o + Len(c.text)) = c.text
                        /\ PathFor(states, o) = c.path
        IN  \A i \in InkAt(r.markdown) : InChunk(i) \/ Repeats(i)

\* A chunk lies in one section: no heading begins inside of it, and its path is that
\* of all of its text.
ChunkHasOneSection ==
    \A r \in Made :
        LET headings == Headings(r.markdown)
        IN  \A n \in DOMAIN r.chunks, h \in DOMAIN headings :
                LET c == r.chunks[n]
                IN  /\ ~(c.start < headings[h].offset /\ headings[h].offset < c.end)
                    /\ headings[h].offset = c.start => c.path # <<>> /\ Last(c.path) = headings[h].title

\* Together the chunks are the content, in pieces: each is a quotation from one
\* section, and they cover all of it.
ChunksRenderTheContent == ChunksQuoteTheContent /\ ContentIsChunked /\ ChunkHasOneSection

\* No chunk has more tokens than max_chunk_tokens, although the packing counts a chunk
\* as the sum of its parts and the search for a window takes counts for monotonic.
ChunksFit == \A r \in Made : \A n \in DOMAIN r.chunks : Tokens(r.chunks[n].text) <= MaxChunk

\* SPEC.md: section_path is the ordered heading ancestry, so a heading on it is of a
\* higher level than the next one.
PathIsAncestry ==
    \A r \in Made :
        LET headings == Headings(r.markdown)
            LevelsOf(title) == {headings[h].level : h \in {k \in DOMAIN headings : headings[k].title = title}}
        IN  \A n \in DOMAIN r.chunks :
                \A i \in 1 .. Len(r.chunks[n].path) - 1 :
                    \E x \in LevelsOf(r.chunks[n].path[i]), y \in LevelsOf(r.chunks[n].path[i + 1]) : x < y
=============================================================================
