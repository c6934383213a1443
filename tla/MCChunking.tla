----------------------------- MODULE MCChunking -----------------------------
(* Texts of up to MaxBlocks blocks: headings of two levels, paragraphs of 3 words, two of   *)
(* which estimate as less apart than joined, of 5, and of 9, which exceed every limit.  And *)
(* shorter texts with paragraphs of 13 words, which are split into three pieces.            *)
EXTENDS Chunking

CONSTANT MaxBlocks

Heading(n) == [level |-> n, words |-> 2]
Paragraph(n) == [level |-> 0, words |-> n]
MCTexts ==
    BoundedSeq({Heading(1), Heading(2)} \cup {Paragraph(n) : n \in {3, 5, 9}}, MaxBlocks)
        \cup BoundedSeq({Heading(1)} \cup {Paragraph(n) : n \in {3, 13}}, MaxBlocks - 1)

=============================================================================
