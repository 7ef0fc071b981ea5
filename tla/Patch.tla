-------------------------------- MODULE Patch --------------------------------
(***************************************************************************)
(* The patches an agent writes with apply_patch: how the text of one is    *)
(* parsed into operations on files, where its chunks are found in a file,  *)
(* and what they make of it.                                               *)
(***************************************************************************)
EXTENDS Naturals, Integers, Sequences, SequencesExt, FiniteSets

CONSTANTS
  Words,  \* what a line says
  Absent  \* no file, no target, no context

\* A line of a file is a word with what surrounds it, or blank.
Pads == {"", "end", "start", "fancy"} \* whitespace behind or before it, typographic quotes
Blank == <<"blank", "">>
FileLines == (Words \X Pads) \cup {Blank}

trimEnd(l) == IF l[2] = "end" THEN <<l[1], "">> ELSE l
trim(l) == IF l[2] \in {"end", "start"} THEN <<l[1], "">> ELSE l
normalizeUnicode(l) == <<l[1], "">>

\* Every loop that scans lines: the first index that fits, or the bound.
FirstFrom(a, b, Fits(_)) == Min({i \in a..b : Fits(i)} \cup {b + 1})

-----------------------------------------------------------------------------
(* Parsing.  A line of a patch is [is |-> kind, path |-> ..., line |-> ...] *)

\* Lines of three stars; of them only "*** End of File" stays in an update.
Stars == {"add", "delete", "update", "moveTo", "endOfFile"}

NoOp == [type |-> Absent, path |-> Absent, target |-> Absent, content |-> <<>>, chunks |-> <<>>]

\* The lines of the section that starts at i, without its header.
SectionEnd(body, i) ==
  FirstFrom(i + 1, Len(body),
            LAMBDA j : /\ body[j].is \in Stars
                       /\ body[i].is = "update" => body[j].is # "endOfFile" /\ (body[j].is = "moveTo" => j > i + 1))

\* What the lines of a chunk say, up to the end of file mark.
ChunkOf(lines) ==
  LET eof == FirstFrom(1, Len(lines), LAMBDA j : lines[j].is = "endOfFile")
      said == SubSeq(lines, 2, eof - 1)
      Of(kinds) == LET S == SelectSeq(said, LAMBDA l : l.is \in kinds) IN [k \in 1..Len(S) |-> S[k].line]
  IN  [old |-> Of({"context", "remove"}), new |-> Of({"context", "add line"}),
       context |-> lines[1].line, eof |-> eof <= Len(lines)]

\* A chunk starts at "@@"; what comes before the first, or after an end mark, is skipped.
ChunksOf(lines) ==
  LET starts == SetToSortSeq({i \in 1..Len(lines) : lines[i].is = "@@"}, <)
  IN  [k \in 1..Len(starts) |->
         ChunkOf(SubSeq(lines, starts[k], IF k = Len(starts) THEN Len(lines) ELSE starts[k + 1] - 1))]

Operation(body, i) ==
  LET rest == SubSeq(body, i + 1, SectionEnd(body, i) - 1)
      added == SelectSeq(rest, LAMBDA l : l.is = "add line")
      moves == rest # <<>> /\ rest[1].is = "moveTo"
  IN  CASE body[i].is = "add" ->
             [NoOp EXCEPT !.type = "add", !.path = body[i].path, !.content = [k \in 1..Len(added) |-> added[k].line]]
        [] body[i].is = "delete" -> [NoOp EXCEPT !.type = "delete", !.path = body[i].path]
        [] OTHER ->
             [NoOp EXCEPT !.type = IF moves THEN "move" ELSE "update", !.path = body[i].path,
                          !.target = IF moves THEN rest[1].path ELSE Absent, !.chunks = ChunksOf(rest)]

\* Lines outside a section are skipped.
parsePatch(body) ==
  LET starts == SetToSortSeq({i \in 1..Len(body) : body[i].is \in {"add", "delete", "update"}}, <)
  IN  [k \in 1..Len(starts) |-> Operation(body, starts[k])]

-----------------------------------------------------------------------------
(* Finding.                                                                *)

\* The first of the indices that fit, at the end of the file if that is asked; -1 for none.
Chosen(fits, last, eof) == IF fits = {} THEN -1 ELSE IF eof /\ last \in fits THEN last ELSE Min(fits)

\* From index start on (from 0), by one comparison.
tryMatch(lines, pattern, start, Compare(_, _), eof) ==
  LET last == Len(lines) - Len(pattern)
  IN  Chosen({i \in start..last : \A j \in 1..Len(pattern) : Compare(lines[i + j], pattern[j])}, last, eof)

\* Ever looser: as it is, trimmed behind, trimmed, with plain punctuation.
seekSequence(lines, pattern, start, eof) ==
  LET tries == << tryMatch(lines, pattern, start, LAMBDA a, b : a = b, eof),
                  tryMatch(lines, pattern, start, LAMBDA a, b : trimEnd(a) = trimEnd(b), eof),
                  tryMatch(lines, pattern, start, LAMBDA a, b : trim(a) = trim(b), eof),
                  tryMatch(lines, pattern, start, LAMBDA a, b : normalizeUnicode(trim(a)) = normalizeUnicode(trim(b)), eof) >>
  IN  IF pattern = <<>> THEN -1 ELSE Head(Append(SelectSeq(tries, LAMBDA found : found # -1), -1))

-----------------------------------------------------------------------------
(* Replacing.                                                              *)

Failed == [replacements |-> <<>>, line |-> 0, ok |-> FALSE]
WithoutLastBlank(s) == IF s # <<>> /\ Last(s) = Blank THEN Front(s) ELSE s

\* A chunk that only adds goes to the end, in front of a last blank line.
Addition(lines, chunk) == <<IF lines # <<>> /\ Last(lines) = Blank THEN Len(lines) - 1 ELSE Len(lines), 0, chunk.new>>

\* Mutant: the next chunk is sought from the start of this one.
SameLine(found, n) == found
NextLine(found, n) == found + n

\* What a chunk replaces: its old lines, where they are, or, if nowhere, without a last blank one.
Replacement(lines, chunk, from, found) ==
  IF found = -1 /\ Last(chunk.old) = Blank
  THEN <<seekSequence(lines, Front(chunk.old), from, chunk.eof), Len(chunk.old) - 1, WithoutLastBlank(chunk.new)>>
  ELSE <<found, Len(chunk.old), chunk.new>>

Replacing(so, rep) ==
  IF rep[1] = -1 THEN Failed
  ELSE [so EXCEPT !.replacements = Append(@, rep), !.line = NextLine(rep[1], rep[2])]

\* One chunk, sought from a line on.
WithChunkFrom(lines, so, chunk, from) ==
  IF chunk.context # Absent /\ from = 0 THEN Failed
  ELSE IF chunk.old = <<>> THEN [so EXCEPT !.replacements = Append(@, Addition(lines, chunk)), !.line = from]
  ELSE Replacing(so, Replacement(lines, chunk, from, seekSequence(lines, chunk.old, from, chunk.eof)))

\* One chunk, below its context line.
WithChunk(lines, so, chunk) ==
  IF ~so.ok THEN Failed
  ELSE WithChunkFrom(lines, so, chunk, IF chunk.context = Absent THEN so.line
                                       ELSE seekSequence(lines, <<chunk.context>>, so.line, FALSE) + 1)

computeReplacements(lines, chunks) ==
  FoldLeft(LAMBDA so, chunk : WithChunk(lines, so, chunk), [replacements |-> <<>>, line |-> 0, ok |-> TRUE], chunks)

\* By index, those of one index in the order of their chunks.
Sorted(reps) ==
  LET order == SetToSortSeq({<<reps[k][1], k>> : k \in 1..Len(reps)},
                            LAMBDA a, b : a[1] < b[1] \/ (a[1] = b[1] /\ a[2] < b[2]))
  IN  [k \in 1..Len(reps) |-> reps[order[k][2]]]

Splice(lines, rep) ==
  SubSeq(lines, 1, rep[1]) \o rep[3] \o SubSeq(lines, rep[1] + rep[2] + 1, Len(lines))

\* From the last to the first.
applyReplacements(lines, reps) == FoldRight(LAMBDA rep, so : Splice(so, rep), reps, lines)

EndedByNewline(lines) == IF lines = <<>> \/ Last(lines) # Blank THEN Append(lines, Blank) ELSE lines

Replaced(lines, found) ==
  IF found.ok THEN EndedByNewline(applyReplacements(lines, Sorted(found.replacements))) ELSE Absent

\* A file is its lines, the last of them without its newline: a last newline is a last
\* empty line, which is taken off first and put back unless the result has one.
applyUpdateChunks(file, chunks) ==
  LET lines == WithoutLastBlank(file) IN Replaced(lines, computeReplacements(lines, chunks))
==============================================================================
