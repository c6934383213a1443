------------------------- MODULE MCDocumentPipeline -------------------------
(* x and x2 are one text under two source types, y has one chunk, blank has none; odd has no *)
(* parser and nul cannot be stored.                                                          *)
EXTENDS DocumentPipeline

CONSTANTS x, x2, y, blank, odd, nul

MCHash ==
    [c \in Contents |-> CASE c \in {x, x2} -> 1 [] c = y -> 2 [] c = blank -> 3 [] c = odd -> 4
                          [] OTHER -> 5]
MCChunks ==
    [c \in Contents |-> IF c = blank THEN {} ELSE IF c = x THEN {0, 1} ELSE {0}]
MCDefect ==
    [c \in Contents |-> IF c = odd THEN "unparsable" ELSE IF c = nul THEN "unstorable" ELSE "none"]
MCPayloads == {<<x>>, <<x2>>, <<blank>>, <<x, y>>, <<y, x>>, <<odd, nul, y>>}

=============================================================================
