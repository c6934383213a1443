------------------------------ MODULE Chunking ------------------------------
(***************************************************************************)
(* Parsing and chunking of a text (ingestion/parsers/, ingestion/chunking/)*)
(* as IngestionPipeline.ingest runs them, one step per turn of a loop.     *)
(*                                                                         *)
(* A text is a sequence of blocks, headings of a level and paragraphs of   *)
(* level 0, of so many words; offsets are counted in words, and what       *)
(* separates two blocks counts for one.  The blocks of the semantic        *)
(* chunker are sentences.                                                  *)
(*                                                                         *)
(* Left out: blank paragraphs, titles and metadata of sections, hashes,    *)
(* decoding, documents that do not parse (DocumentPipeline), white space   *)
(* but for the separators.  The application uses the structure-aware       *)
(* chunker only.                                                           *)
(***************************************************************************)
EXTENDS Naturals, FiniteSets, Sequences, SequencesExt

CONSTANTS
    Texts,        \* the texts that may be ingested
    Size,         \* chunk_size: 512
    Overlap,      \* chunk_overlap: 50
    SemanticSize  \* max_chunk_tokens: 256

ASSUME TextAssumption ==
    \A t \in Texts : t \in Seq([level : 0..6, words : Nat \ {0}])

ASSUME SizeAssumption ==
    /\ Size \in Nat \ {0} /\ Overlap \in Nat /\ SemanticSize \in Nat \ {0}

VARIABLES
    text, parser, chunker,  \* what is ingested, and how
    pc,                     \* the loop the code is in
    next,                   \* the next block to parse
    stack,                  \* heading_stack: the headings that are open
    sections,               \* first to last block of their content, and heading path
    current,                \* the section being chunked
    rest,                   \* its blocks, or those of the text, still to be taken
    parts, tokens, from,    \* current_parts, current_tokens, chunk_start_char
    chunks

input == <<text, parser, chunker>>
parsed == <<next, stack, sections>>
buffer == <<parts, tokens, from>>
vars == <<input, parsed, pc, current, rest, buffer, chunks>>

-----------------------------------------------------------------------------
(* Offsets and estimates *)

\* n[1] + ... + n[k].
Total(n, k) == LET sum[i \in Nat] == IF i = 0 THEN 0 ELSE sum[i - 1] + n[i] IN sum[k]
Words(bs) == Total([i \in DOMAIN bs |-> text[bs[i]].words], Len(bs))

\* Where block b starts and ends, and where the text ends.
Offset(b) == Total([i \in DOMAIN text |-> text[i].words + 1], b - 1)
EndOf(b) == Offset(b) + text[b].words
EndOfText == IF text = << >> THEN 0 ELSE EndOf(Len(text))

\* int(1.33 * words), at least 1.
EstimateTokens(words) == Max({1, (133 * words) \div 100})
TokensOf(b) == EstimateTokens(text[b].words)
TokensIn(bs) == Total([i \in DOMAIN bs |-> TokensOf(bs[i])], Len(bs))

Blocks(first, last) == [i \in 1..(last + 1 - first) |-> first + i - 1]

\* Variant: a section ends with its heading line.
SectionEndOfHeading(s) == EndOf(IF s.path = << >> THEN s.last ELSE s.first - 1)

\* A section of Markdown with a heading begins with it, and ends where the next one begins;
\* the sections of other parsers end with their last block.
SectionStart(s) == Offset(IF s.path = << >> THEN s.first ELSE s.first - 1)
SectionEnd(s) ==
    IF parser = "markdown" /\ s.last < Len(text) THEN Offset(s.last + 1) ELSE EndOf(s.last)

\* The first section that an offset is in, 0 if none.
SectionAt(o) ==
    LET in == {i \in DOMAIN sections : SectionStart(sections[i]) <= o /\ o < SectionEnd(sections[i])}
    IN  IF in = {} THEN 0 ELSE Min(in)

-----------------------------------------------------------------------------
(* Parsers *)

Init ==
    /\ text \in Texts
    /\ parser \in {"markdown", "text", "json", "pdf"}
    /\ chunker \in {"structure", "fixed", "semantic"}
    /\ pc = "parse"
    /\ next = 1 /\ stack = << >> /\ sections = << >>
    /\ current = 1 /\ rest = << >>
    /\ parts = << >> /\ tokens = 0 /\ from = 0
    /\ chunks = << >>

Parsing(p) == pc = "parse" /\ parser = p /\ next <= Len(text)
ChunkerUnchanged == UNCHANGED <<pc, current, rest, buffer, chunks>>

\* n blocks that become a section of their own.
ReadSection(n) ==
    /\ sections' = Append(sections, [first |-> next, last |-> next + n - 1, path |-> << >>])
    /\ next' = next + n
    /\ UNCHANGED <<input, stack>>
    /\ ChunkerUnchanged

\* Variant: a heading does not close another of its level.
ClosesDeeper(h, b) == text[h].level > text[b].level

Closes(h, b) == text[h].level >= text[b].level

PopHeading ==
    /\ Parsing("markdown") /\ text[next].level > 0
    /\ stack # << >> /\ Closes(Last(stack), next)
    /\ stack' = Front(stack)
    /\ UNCHANGED <<input, next, sections>>
    /\ ChunkerUnchanged

PushHeading ==
    /\ Parsing("markdown") /\ text[next].level > 0
    /\ stack # << >> => ~Closes(Last(stack), next)
    /\ stack' = Append(stack, next)
    /\ sections' = Append(sections, [first |-> next + 1, last |-> next, path |-> stack'])
    /\ next' = next + 1
    /\ UNCHANGED input
    /\ ChunkerUnchanged

\* What precedes the first heading is a section too.
ReadPreamble == Parsing("markdown") /\ text[next].level = 0 /\ sections = << >> /\ ReadSection(1)

ReadBody ==
    /\ Parsing("markdown") /\ text[next].level = 0 /\ sections # << >>
    /\ sections' = [sections EXCEPT ![Len(sections)].last = next]
    /\ next' = next + 1
    /\ UNCHANGED <<input, stack>>
    /\ ChunkerUnchanged

ReadParagraph == Parsing("text") /\ ReadSection(1)
ReadItem == Parsing("json") /\ ReadSection(1)
ReadPage == Parsing("pdf") /\ \E n \in 1..(Len(text) + 1 - next) : ReadSection(n)

\* The structure-aware chunker goes by sections, the others by the blocks of the text.
EndParse ==
    /\ pc = "parse" /\ next > Len(text)
    /\ IF chunker = "structure" THEN pc' = "sections" /\ UNCHANGED rest
       ELSE pc' = "blocks" /\ rest' = Blocks(1, Len(text))
    /\ UNCHANGED <<input, parsed, current, buffer, chunks>>

-----------------------------------------------------------------------------
(* Chunkers *)

Chunk(blocks, skip, words, start, end, section) ==
    [index |-> 0, blocks |-> blocks, skip |-> skip, words |-> words,
     start |-> start, end |-> end, section |-> section]

Add(cs) ==
    chunks' = chunks \o [i \in DOMAIN cs |-> [cs[i] EXCEPT !.index = Len(chunks) + i - 1]]

InSection(bs) ==
    Chunk(bs, 0, Words(bs), SectionStart(sections[current]), SectionEnd(sections[current]), current)
FromBuffer(end) == Chunk(parts, 0, Words(parts), from, end, SectionAt(from))
OfSentences(bs) ==
    LET start == Offset(Head(bs)) IN
    Chunk(bs, 0, Words(bs), start, EndOf(Last(bs)), SectionAt(start))

\* What is in the buffer, as a chunk that ends at an offset.
Flushed(end) ==
    IF parts = << >> THEN << >>
    ELSE CASE chunker = "structure" -> <<InSection(parts)>>
           [] chunker = "fixed" -> <<FromBuffer(end)>>
           [] chunker = "semantic" -> <<OfSentences(parts)>>

\* A paragraph is split into pieces of chunk_size words; this many words precede piece i.
Pieces(b) == (text[b].words + Size - 1) \div Size
Skip(i) == (i - 1) * Size
PieceWords(b, i) == Min({Size, text[b].words - Skip(i)})

\* Where text.find(current_words[0]) finds the first word of each piece: at the latest where the
\* piece begins, or in any word before that is the same or contains it.  The last piece is not
\* looked for, and is given the offset of the paragraph.
Finds(b) ==
    {at \in [1..Pieces(b) -> 0..Skip(Pieces(b))] :
        \A i \in 1..Pieces(b) : at[i] <= IF i = Pieces(b) THEN 0 ELSE Skip(i)}

Piece(b, i, o) ==
    Chunk(<<b>>, Skip(i), PieceWords(b, i), o, o + PieceWords(b, i), SectionAt(o))

\* Variant: the last words are not flushed.
HardSplitFull(b, at) ==
    [i \in 1..(text[b].words \div Size) |-> Piece(b, i, Offset(b) + at[i])]

HardSplit(b, at) == [i \in 1..Pieces(b) |-> Piece(b, i, Offset(b) + at[i])]

\* A paragraph that alone exceeds the limit.
Oversized(b) ==
    IF chunker = "fixed" THEN {HardSplit(b, at) : at \in Finds(b)} ELSE {<<InSection(<<b>>)>>}

\* Variant: the last paragraph, whatever its size.
KeptLast == IF chunker = "fixed" THEN <<Last(parts)>> ELSE << >>

\* The last paragraphs of a chunk that fit in the overlap begin the next one.
Kept ==
    LET tail(n) == SubSeq(parts, Len(parts) + 1 - n, Len(parts))
    IN  IF chunker = "fixed"
        THEN tail(Max({n \in 0..Len(parts) : TokensIn(tail(n)) <= Overlap}))
        ELSE << >>

Turn == pc = "blocks" /\ rest # << >>

\* Sections that are not split: those without content, and those that fit.
TakeSection ==
    /\ pc = "sections" /\ current <= Len(sections)
    /\ LET bs == Blocks(sections[current].first, sections[current].last) IN
          /\ bs # << >> => EstimateTokens(Words(bs)) <= Size
          /\ Add(IF bs = << >> THEN << >> ELSE <<InSection(bs)>>)
    /\ current' = current + 1
    /\ UNCHANGED <<input, parsed, pc, rest, buffer>>

SplitSection ==
    /\ pc = "sections" /\ current <= Len(sections)
    /\ LET bs == Blocks(sections[current].first, sections[current].last) IN
          /\ bs # << >> /\ EstimateTokens(Words(bs)) > Size
          /\ rest' = bs
    /\ pc' = "blocks"
    /\ UNCHANGED <<input, parsed, current, buffer, chunks>>

\* Variant: current_tokens is not reset.
TakeOversizedUnreset ==
    /\ Turn /\ chunker # "semantic"
    /\ TokensOf(Head(rest)) > Size
    /\ \E cs \in Oversized(Head(rest)) : Add(Flushed(Offset(Head(rest))) \o cs)
    /\ rest' = Tail(rest)
    /\ parts' = << >> /\ from' = EndOf(Head(rest))
    /\ UNCHANGED <<input, parsed, pc, current, tokens>>

TakeOversized ==
    /\ Turn /\ chunker # "semantic"
    /\ TokensOf(Head(rest)) > Size
    /\ \E cs \in Oversized(Head(rest)) : Add(Flushed(Offset(Head(rest))) \o cs)
    /\ rest' = Tail(rest)
    /\ parts' = << >> /\ tokens' = 0 /\ from' = EndOf(Head(rest))
    /\ UNCHANGED <<input, parsed, pc, current>>

\* It does not fit in the chunk begun, which is flushed.
TakeInNext ==
    /\ Turn /\ chunker # "semantic"
    /\ TokensOf(Head(rest)) <= Size
    /\ parts # << >> /\ tokens + TokensOf(Head(rest)) > Size
    /\ Add(Flushed(Offset(Head(rest))))
    /\ rest' = Tail(rest)
    /\ parts' = Append(Kept, Head(rest))
    /\ tokens' = TokensIn(Kept) + TokensOf(Head(rest))
    /\ from' = Offset(Head(rest))
    /\ UNCHANGED <<input, parsed, pc, current>>

TakeInCurrent ==
    /\ Turn /\ chunker # "semantic"
    /\ TokensOf(Head(rest)) <= Size
    /\ parts = << >> \/ tokens + TokensOf(Head(rest)) <= Size
    /\ rest' = Tail(rest)
    /\ parts' = Append(parts, Head(rest))
    /\ tokens' = tokens + TokensOf(Head(rest))
    /\ UNCHANGED <<input, parsed, pc, current, from, chunks>>

\* A sentence the provider finds similar to the one before it.
JoinSentence ==
    /\ Turn /\ chunker = "semantic"
    /\ parts # << >> => EstimateTokens(Words(Append(parts, Head(rest)))) <= SemanticSize
    /\ rest' = Tail(rest)
    /\ parts' = Append(parts, Head(rest))
    /\ UNCHANGED <<input, parsed, pc, current, tokens, from, chunks>>

\* One that is not similar, or too long for the chunk.
CutSentence ==
    /\ Turn /\ chunker = "semantic" /\ parts # << >>
    /\ Add(Flushed(0))
    /\ rest' = Tail(rest)
    /\ parts' = <<Head(rest)>>
    /\ UNCHANGED <<input, parsed, pc, current, tokens, from>>

\* The sentences are embedded before the first of them is taken.
EmbeddingFails ==
    /\ Turn /\ chunker = "semantic" /\ parts = << >>
    /\ pc' = "failed"
    /\ UNCHANGED <<input, parsed, current, rest, buffer, chunks>>

\* What remains is flushed: of a section, or of the text.
EndBlocks ==
    /\ pc = "blocks" /\ rest = << >>
    /\ Add(Flushed(EndOfText))
    /\ parts' = << >> /\ tokens' = 0
    /\ IF chunker = "structure" THEN pc' = "sections" /\ current' = current + 1
       ELSE pc' = "done" /\ UNCHANGED current
    /\ UNCHANGED <<input, parsed, rest, from>>

EndSections ==
    /\ pc = "sections" /\ current > Len(sections)
    /\ pc' = "done"
    /\ UNCHANGED <<input, parsed, current, rest, buffer, chunks>>

Parse ==
    \/ PopHeading \/ PushHeading \/ ReadPreamble \/ ReadBody
    \/ ReadParagraph \/ ReadItem \/ ReadPage \/ EndParse

Next ==
    \/ Parse
    \/ TakeSection \/ SplitSection \/ TakeOversized \/ TakeInNext \/ TakeInCurrent
    \/ JoinSentence \/ CutSentence \/ EmbeddingFails \/ EndBlocks \/ EndSections

Spec == Init /\ [][Next]_vars

-----------------------------------------------------------------------------
(* Properties *)

\* Every variable holds a value of its kind, and current_tokens is the sum for current_parts.
TypeOK ==
    /\ text \in Texts /\ next \in 1..(Len(text) + 1)
    /\ stack \in Seq(1..Len(text)) /\ parts \in Seq(1..Len(text)) /\ rest \in Seq(1..Len(text))
    /\ current \in 1..(Len(sections) + 1)
    /\ from \in 0..EndOfText
    /\ chunker # "semantic" => tokens = TokensIn(parts)

\* The headings that enclose heading h, itself included: those no heading since has closed.
Ancestors(h) ==
    {a \in 1..h : /\ text[a].level > 0
                  /\ \A k \in (a + 1)..h : text[k].level > 0 => text[k].level > text[a].level}

\* The heading path of a section is that of the headings that enclose it, outermost first.
PathsAreAncestors ==
    \A i \in DOMAIN sections :
        LET path == sections[i].path IN
        path # << >> =>
            /\ ToSet(path) = Ancestors(sections[i].first - 1)
            /\ \A m, n \in DOMAIN path : m < n => path[m] < path[n]

\* The offsets of the words a chunk holds.
WordsIn(c) ==
    UNION {{Offset(b) + c.skip + w : w \in 1..(IF Len(c.blocks) = 1 THEN c.words ELSE text[b].words)} :
               b \in ToSet(c.blocks)}
Content ==
    {b \in DOMAIN text : chunker = "structure" /\ parser = "markdown" => text[b].level = 0}

\* Every word of the text is in a chunk, except those of headings, which the structure-aware
\* chunker keeps as heading paths only; and the chunks, numbered from 0, are in the order of
\* the text, each with something that none before it has.
TextIsCovered ==
    /\ \A i \in DOMAIN chunks : chunks[i].index = i - 1
    /\ \A i, j \in DOMAIN chunks : i < j => Max(WordsIn(chunks[i])) < Max(WordsIn(chunks[j]))
    /\ pc = "done" =>
          UNION {{Offset(b) + w : w \in 1..text[b].words} : b \in Content}
              = UNION {WordsIn(chunks[i]) : i \in DOMAIN chunks}

\* The estimated tokens of a chunk of several paragraphs exceed the limit by no more than the
\* overlap it begins with and what rounding loses at each join; only a single paragraph is
\* longer than that, and the fixed-size chunker splits it into pieces of no more words than
\* the limit counts tokens.
ChunksFit ==
    \A i \in DOMAIN chunks :
        LET c == chunks[i]
            estimate == EstimateTokens(c.words)
            joins == Len(c.blocks) - 1
        IN  CASE chunker = "structure" -> joins = 0 \/ estimate <= Size + joins
              [] chunker = "semantic" -> joins = 0 \/ estimate <= SemanticSize
              [] chunker = "fixed" -> /\ joins > 0 => estimate <= Size + Overlap + joins
                                      /\ joins = 0 => c.words <= Size

\* A piece of a paragraph that the fixed-size chunker split, and the last of them.
IsPiece(c) == chunker = "fixed" /\ Len(c.blocks) = 1 /\ TokensOf(Head(c.blocks)) > Size
EndsSplit(c) == IsPiece(c) /\ c.skip + c.words = text[Head(c.blocks)].words

\* The range of a piece is as long as the piece, and begins in its paragraph, no later than it.
InItsParagraph(c) ==
    LET b == Head(c.blocks) IN
    Offset(b) <= c.start /\ c.start <= Offset(b) + c.skip /\ c.end = c.start + c.words

\* The range a receipt shows for a chunk encloses its words, and the section it names is the
\* one where its first word is; the words repeated from the chunk before do not count.  A piece
\* of a split paragraph is given the offset at which its first word is found, or that of the
\* paragraph: its range is in the paragraph, and need not enclose it.  The chunk after the last
\* piece is looked up where the paragraph ends, which need not be in a section.
RangesEncloseText ==
    \A i \in DOMAIN chunks :
        LET c == chunks[i]
            new == WordsIn(c) \ IF i = 1 THEN {} ELSE WordsIn(chunks[i - 1])
        IN  /\ IF IsPiece(c) THEN InItsParagraph(c)
               ELSE \A w \in new : c.start < w /\ w <= c.end
            /\ \/ i > 1 /\ EndsSplit(chunks[i - 1])
               \/ /\ c.section \in DOMAIN sections
                  /\ SectionStart(sections[c.section]) < Min(new)
                  /\ Min(new) <= SectionEnd(sections[c.section])

=============================================================================
