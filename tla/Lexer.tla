------------------------------- MODULE Lexer -------------------------------
(***************************************************************************)
(* The assembler's Lexer: a cursor over the source text with one token of  *)
(* lookahead that it keeps, and a mark the parser can go back to.          *)
(*                                                                         *)
(* A source text is the sequence of its tokens; blanks and comments are no *)
(* tokens, and a character readToken refuses is a token of type "Bad",     *)
(* which no rule of the grammar accepts.  A position is the number of      *)
(* tokens before the cursor.                                               *)
(***************************************************************************)
EXTENDS Integers, Sequences, FiniteSets

\* enum TokenType, and "Bad".
TokenTypes == {"End", "Newline", "Identifier", "Number", "Register",
               "LBracket", "RBracket", "Comma", "Colon", "Bad"}

\* name is the text of an identifier, val the number a number or register
\* token spells.
Tok(type, name, val) == [type |-> type, name |-> name, val |-> val]
EndToken == Tok("End", "", 0)

\* What a text consists of: "End" is only read behind it.
Token == [type : TokenTypes \ {"End"}, name : STRING, val : Int]

-----------------------------------------------------------------------------
(* The members of Lexer, and what its methods do to them. *)

FreshLexer ==
    [position |-> 0, line |-> 1, hasPeek |-> FALSE, peekToken |-> EndToken,
     peekPosition |-> 0, peekLine |-> 1]

\* readToken: the token, the position and the line after it
ReadToken(text, p) == IF p < Len(text) THEN text[p + 1] ELSE EndToken
PositionAfter(text, p) == IF p < Len(text) THEN p + 1 ELSE p
LineAfter(text, p, line) ==
    IF ReadToken(text, p).type = "Newline" THEN line + 1 ELSE line

\* The token next() returns.
Ahead(text, lx) ==
    IF lx.hasPeek THEN lx.peekToken ELSE ReadToken(text, lx.position)

NextTokenSameLine(text, lx) ==                                     \* mutant
    [lx EXCEPT !.hasPeek = FALSE,
               !.position = IF lx.hasPeek THEN lx.peekPosition
                            ELSE PositionAfter(text, lx.position)]

NextToken(text, lx) ==
    IF lx.hasPeek
    THEN [lx EXCEPT !.hasPeek = FALSE, !.position = lx.peekPosition,
                    !.line = lx.peekLine]
    ELSE [lx EXCEPT !.position = PositionAfter(text, lx.position),
                    !.line = LineAfter(text, lx.position, lx.line)]

Peek(text, lx) ==
    IF lx.hasPeek THEN lx
    ELSE [lx EXCEPT !.hasPeek = TRUE,
                    !.peekToken = ReadToken(text, lx.position),
                    !.peekPosition = PositionAfter(text, lx.position),
                    !.peekLine = LineAfter(text, lx.position, lx.line)]

Reset(lx) == [lx EXCEPT !.position = 0, !.line = 1, !.hasPeek = FALSE]

Mark(lx) == lx.position

\* restore puts back the position and not the line.
Restore(lx, mark) == [lx EXCEPT !.position = mark, !.hasPeek = FALSE]

-----------------------------------------------------------------------------
(* How the parser reads through it. *)

\* The token the k-th call of next() from now returns.
Upcoming(text, lx, k) ==
    IF k = 1 THEN Ahead(text, lx)
    ELSE ReadToken(text, NextToken(text, lx).position + k - 2)

Newlines(text, from, to) ==
    Cardinality({p \in from + 1..to : text[p].type = "Newline"})

\* n calls of next(): only the first can find a lookahead.
Advance(text, lx, n) ==
    LET one == NextToken(text, lx)
        end == IF one.position + n - 1 < Len(text) THEN one.position + n - 1
               ELSE Len(text)
    IN  IF n = 0 THEN lx
        ELSE [one EXCEPT !.position = end,
                         !.line = @ + Newlines(text, one.position, end)]

\* Parser::skipNewlines: the peek that ends the loop stays in the lexer.
SkipNewlines(text, lx) ==
    LET stop == CHOOSE p \in lx.position..Len(text) :
            /\ ReadToken(text, p).type # "Newline"
            /\ \A q \in lx.position + 1..p : text[q].type = "Newline"
    IN  Peek(text, Advance(text, lx, stop - lx.position))

-----------------------------------------------------------------------------

\* Where the lexer says it is: on the line of its position, and with a
\* lookahead that is the token at its position.
CursorExact(text, lx) ==
    /\ lx.position \in 0..Len(text)
    /\ lx.line = 1 + Newlines(text, 0, lx.position)
    /\ lx.hasPeek =>
        /\ lx.peekToken = ReadToken(text, lx.position)
        /\ lx.peekPosition = PositionAfter(text, lx.position)
        /\ lx.peekLine = LineAfter(text, lx.position, lx.line)
=============================================================================
