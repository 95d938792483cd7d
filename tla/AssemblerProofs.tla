-------------------------- MODULE AssemblerProofs --------------------------
(***************************************************************************)
(* Proofs about Assembler for every set of threads that share its tables   *)
(* and every set of source texts, well formed or not:                      *)
(*                                                                         *)
(*   CursorsExact  no lexer ever serves a stale lookahead or a wrong line  *)
(*   TypesHold     the tables and every parse keep their types             *)
(*                                                                         *)
(* The second rests on the first: a token that comes from a lookahead is a *)
(* token of the text only because the lookahead is never stale.            *)
(***************************************************************************)
EXTENDS Assembler, FiniteSetTheorems, WellFoundedInduction, TLAPS

LexerState ==
    [position : Nat, line : Nat, hasPeek : BOOLEAN, peekToken : Token \cup {EndToken},
     peekPosition : Nat, peekLine : Nat]

\* A lexer of a text whose cursor is exact.
Exact(text, lx) == lx \in LexerState /\ CursorExact(text, lx)

\* A nonempty set of natural numbers has a least element.
LEMMA LeastOf ==
    ASSUME NEW S \in SUBSET Nat, S # {}
    PROVE  \E q \in S : \A r \in S : q <= r
<1> DEFINE R == {ss \in Nat \X Nat : ss[1] < ss[2]}
<1>1. IsWellFoundedOn(R, Nat)
  BY NatLessThanWellFounded DEF OpToRel
<1>2. PICK q \in S : \A r \in S : ~(<<r, q>> \in R)
  <2> HIDE DEF R
  <2> QED BY <1>1, WFMin
<1>3. \A r \in S : ~(r < q)
  BY <1>2
<1> QED BY <1>3

-----------------------------------------------------------------------------
(* Counting lines. *)

\* readToken returns a token wherever the cursor is.
LEMMA ReadTokenType ==
    ASSUME NEW text \in Seq(Token), NEW p \in Nat
    PROVE  ReadToken(text, p) \in Token \cup {EndToken}
<1>1. CASE p < Len(text)
  <2>1. p + 1 \in 1..Len(text)
    BY <1>1
  <2>2. text[p + 1] \in Token
    BY <2>1
  <2> QED BY <1>1, <2>2 DEF ReadToken
<1>2. CASE ~(p < Len(text))
  BY <1>2 DEF ReadToken
<1> QED BY <1>1, <1>2

\* The newlines of a piece of text are finitely many.
LEMMA NewlinesFinite ==
    ASSUME NEW text, NEW a \in Nat, NEW b \in Nat
    PROVE  /\ IsFiniteSet({p \in a + 1..b : text[p].type = "Newline"})
           /\ Newlines(text, a, b) \in Nat
<1>1. IsFiniteSet(a + 1..b)
  BY FS_Interval
<1>2. IsFiniteSet({p \in a + 1..b : text[p].type = "Newline"})
  BY <1>1, FS_Subset
<1> QED BY <1>2, FS_CardinalityType DEF Newlines

\* The lines of two adjacent pieces of text add up.
LEMMA NewlinesAdd ==
    ASSUME NEW text, NEW a \in Nat, NEW b \in Nat, a <= b
    PROVE  Newlines(text, 0, b) = Newlines(text, 0, a) + Newlines(text, a, b)
<1> DEFINE N(x, y) == {p \in x + 1..y : text[p].type = "Newline"}
<1>1. /\ N(0, b) = N(0, a) \cup N(a, b)
      /\ N(0, a) \cap N(a, b) = {}
  OBVIOUS
<1>2. IsFiniteSet(N(0, a)) /\ IsFiniteSet(N(a, b))
  BY NewlinesFinite
<1>3. Cardinality(N(0, a)) \in Nat /\ Cardinality(N(a, b)) \in Nat
  BY <1>2, FS_CardinalityType
<1> HIDE DEF N
<1>4. Cardinality(N(0, b)) = Cardinality(N(0, a)) + Cardinality(N(a, b))
                                - Cardinality({})
  BY <1>1, <1>2, FS_Union
<1>5. Cardinality(N(0, b)) = Cardinality(N(0, a)) + Cardinality(N(a, b))
  BY <1>3, <1>4, FS_EmptySet
<1> QED BY <1>5 DEF N, Newlines

\* readToken counts the line it leaves.
LEMMA LineAfterExact ==
    ASSUME NEW text \in Seq(Token), NEW p \in 0..Len(text)
    PROVE  /\ PositionAfter(text, p) \in 0..Len(text)
           /\ LineAfter(text, p, 1 + Newlines(text, 0, p)) =
                1 + Newlines(text, 0, PositionAfter(text, p))
<1>1. CASE p = Len(text)
  BY <1>1 DEF PositionAfter, LineAfter, ReadToken, EndToken, Tok
<1>2. CASE p < Len(text)
  <2>1. p + 1 \in 1..Len(text) /\ p \in Nat
    BY <1>2
  <2>2. Newlines(text, 0, p + 1) = Newlines(text, 0, p) + Newlines(text, p, p + 1)
    BY <2>1, NewlinesAdd
  <2>3. Newlines(text, 0, p) \in Nat
    BY <2>1, NewlinesFinite
  <2>4. CASE text[p + 1].type = "Newline"
    <3>1. {q \in p + 1..p + 1 : text[q].type = "Newline"} = {p + 1}
      BY <2>1, <2>4
    <3>2. Newlines(text, p, p + 1) = 1
      BY <3>1, FS_Singleton DEF Newlines
    <3> QED BY <1>2, <2>1, <2>2, <2>3, <2>4, <3>2
            DEF PositionAfter, LineAfter, ReadToken
  <2>5. CASE text[p + 1].type # "Newline"
    <3>1. {q \in p + 1..p + 1 : text[q].type = "Newline"} = {}
      BY <2>1, <2>5
    <3>2. Newlines(text, p, p + 1) = 0
      BY <3>1, FS_EmptySet DEF Newlines
    <3> QED BY <1>2, <2>1, <2>2, <2>3, <2>5, <3>2
            DEF PositionAfter, LineAfter, ReadToken
  <2> QED BY <2>4, <2>5
<1> QED BY <1>1, <1>2

-----------------------------------------------------------------------------
(* The methods of Lexer. *)

LEMMA FreshExact ==
    ASSUME NEW text \in Seq(Token)
    PROVE  Exact(text, FreshLexer)
<1>1. FreshLexer \in LexerState
  BY DEF FreshLexer, LexerState
<1>2. {p \in 0 + 1..0 : text[p].type = "Newline"} = {}
  OBVIOUS
<1>3. Newlines(text, 0, 0) = 0
  BY <1>2, FS_EmptySet DEF Newlines
<1> QED BY <1>1, <1>3 DEF Exact, CursorExact, FreshLexer

\* Moving a cursor, with and without dropping the lookahead.
LEMMA Moved ==
    ASSUME NEW lx \in LexerState, NEW p \in Nat, NEW l \in Nat, NEW to,
           to = [lx EXCEPT !.position = p, !.line = l]
    PROVE  /\ to \in LexerState
           /\ to.position = p /\ to.line = l /\ to.hasPeek = lx.hasPeek
<1>1. [lx EXCEPT !.position = p, !.line = l] \in LexerState
  BY DEF LexerState
<1> QED BY <1>1 DEF LexerState

LEMMA MovedFresh ==
    ASSUME NEW lx \in LexerState, NEW p \in Nat, NEW l \in Nat, NEW to,
           to = [lx EXCEPT !.position = p, !.line = l, !.hasPeek = FALSE]
    PROVE  /\ to \in LexerState
           /\ to.position = p /\ to.line = l /\ to.hasPeek = FALSE
<1>1. [lx EXCEPT !.position = p, !.line = l, !.hasPeek = FALSE] \in LexerState
  BY DEF LexerState
<1> QED BY <1>1 DEF LexerState

LEMMA ResetExact ==
    ASSUME NEW text \in Seq(Token), NEW lx, Exact(text, lx)
    PROVE  Exact(text, Reset(lx))
<1>1. {p \in 0 + 1..0 : text[p].type = "Newline"} = {}
  OBVIOUS
<1>2. Newlines(text, 0, 0) = 0
  BY <1>1, FS_EmptySet DEF Newlines
<1>3. /\ Reset(lx) \in LexerState
      /\ Reset(lx).position = 0 /\ Reset(lx).line = 1
      /\ Reset(lx).hasPeek = FALSE
  <2>1. Reset(lx) = [lx EXCEPT !.position = 0, !.line = 1, !.hasPeek = FALSE]
    BY DEF Reset
  <2> DEFINE to == Reset(lx)
  <2>2. to = [lx EXCEPT !.position = 0, !.line = 1, !.hasPeek = FALSE]
    BY <2>1
  <2> HIDE DEF to
  <2>3. to \in LexerState /\ to.position = 0 /\ to.line = 1 /\ to.hasPeek = FALSE
    BY <2>2, MovedFresh DEF Exact, LexerState
  <2> QED BY <2>3 DEF to
<1> QED BY <1>2, <1>3 DEF Exact, CursorExact

\* Whether or not it was peeked at, next() returns the token at the cursor.
LEMMA AheadExact ==
    ASSUME NEW text \in Seq(Token), NEW lx, Exact(text, lx)
    PROVE  Ahead(text, lx) = ReadToken(text, lx.position)
  BY DEF Exact, CursorExact, Ahead

\* What next() does, with or without a lookahead.
LEMMA NextExact ==
    ASSUME NEW text \in Seq(Token), NEW lx, Exact(text, lx)
    PROVE  /\ Exact(text, NextToken(text, lx))
           /\ NextToken(text, lx).position = PositionAfter(text, lx.position)
           /\ NextToken(text, lx).line = LineAfter(text, lx.position, lx.line)
           /\ NextToken(text, lx).hasPeek = FALSE
<1> DEFINE nx == NextToken(text, lx)
<1>1. lx \in LexerState /\ lx.position \in 0..Len(text)
  BY DEF Exact, CursorExact
<1>2. /\ PositionAfter(text, lx.position) \in 0..Len(text)
      /\ LineAfter(text, lx.position, lx.line) =
            1 + Newlines(text, 0, PositionAfter(text, lx.position))
  BY <1>1, LineAfterExact DEF Exact, CursorExact
<1>3. LineAfter(text, lx.position, lx.line) \in Nat
  BY <1>1 DEF LineAfter, LexerState
<1>4. /\ nx.position = PositionAfter(text, lx.position)
      /\ nx.line = LineAfter(text, lx.position, lx.line)
      /\ nx.hasPeek = FALSE
      /\ nx \in LexerState
  <2>1. CASE lx.hasPeek
    BY <1>1, <1>2, <1>3, <2>1 DEF NextToken, Exact, CursorExact, LexerState
  <2>2. CASE ~lx.hasPeek
    <3>1. nx = [lx EXCEPT !.position = PositionAfter(text, lx.position),
                          !.line = LineAfter(text, lx.position, lx.line)]
      BY <2>2 DEF NextToken
    <3>2. PositionAfter(text, lx.position) \in Nat
      BY <1>2
    <3> HIDE DEF nx
    <3> QED BY <1>1, <1>3, <2>2, <3>1, <3>2, Moved DEF LexerState
  <2> QED BY <2>1, <2>2
<1> HIDE DEF nx
<1>5. Exact(text, nx)
  BY <1>2, <1>4 DEF Exact, CursorExact
<1> QED BY <1>4, <1>5 DEF nx

LEMMA PeekExact ==
    ASSUME NEW text \in Seq(Token), NEW lx, Exact(text, lx)
    PROVE  /\ Exact(text, Peek(text, lx))
           /\ Peek(text, lx).position = lx.position
           /\ Peek(text, lx).line = lx.line
<1>1. lx \in LexerState /\ lx.position \in 0..Len(text)
  BY DEF Exact, CursorExact
<1>2. /\ PositionAfter(text, lx.position) \in Nat
      /\ LineAfter(text, lx.position, lx.line) \in Nat
      /\ ReadToken(text, lx.position) \in Token \cup {EndToken}
  BY <1>1, LineAfterExact, ReadTokenType DEF LineAfter, LexerState
<1>3. CASE lx.hasPeek
  BY <1>3 DEF Peek
<1>4. CASE ~lx.hasPeek
  BY <1>1, <1>2, <1>4 DEF Peek, Exact, CursorExact, LexerState
<1> QED BY <1>3, <1>4

\* Any number of next() keeps the cursor exact.
LEMMA AdvanceExact ==
    ASSUME NEW text \in Seq(Token), NEW lx, Exact(text, lx), NEW n \in Nat
    PROVE  Exact(text, Advance(text, lx, n))
<1> DEFINE one == NextToken(text, lx)
           end == IF one.position + n - 1 < Len(text) THEN one.position + n - 1
                  ELSE Len(text)
           to == [one EXCEPT !.position = end,
                             !.line = @ + Newlines(text, one.position, end)]
<1>1. CASE n = 0
  BY <1>1 DEF Advance
<1>2. CASE n # 0
  <2>1. Exact(text, one) /\ one.hasPeek = FALSE
    BY NextExact
  <2>2. Advance(text, lx, n) = to
    BY <1>2 DEF Advance
  <2> HIDE DEF one
  <2>3. /\ one \in LexerState /\ one.position \in Nat /\ one.line \in Nat
        /\ one.position <= Len(text) /\ Len(text) \in Nat
        /\ one.line = 1 + Newlines(text, 0, one.position)
    BY <2>1 DEF Exact, CursorExact, LexerState
  <2>4. end \in 0..Len(text) /\ one.position <= end
    BY <1>2, <2>3
  <2> HIDE DEF end
  <2>5. /\ Newlines(text, one.position, end) \in Nat
        /\ Newlines(text, 0, one.position) \in Nat
        /\ Newlines(text, 0, end) =
              Newlines(text, 0, one.position) + Newlines(text, one.position, end)
    <3>1. end \in Nat /\ 0 \in Nat
      BY <2>4
    <3>2. Newlines(text, one.position, end) \in Nat
      BY <2>3, <3>1, NewlinesFinite
    <3>3. Newlines(text, 0, one.position) \in Nat
      BY <2>3, NewlinesFinite
    <3> QED BY <2>3, <2>4, <3>1, <3>2, <3>3, NewlinesAdd
  <2>6. /\ to \in LexerState /\ to.position = end
        /\ to.line = one.line + Newlines(text, one.position, end)
        /\ to.hasPeek = FALSE
    <3>1. end \in Nat /\ one.line + Newlines(text, one.position, end) \in Nat
      BY <2>3, <2>4, <2>5
    <3> QED BY <2>1, <2>3, <3>1, Moved DEF LexerState
  <2> HIDE DEF to
  <2>7. Exact(text, to)
    BY <2>3, <2>4, <2>5, <2>6 DEF Exact, CursorExact
  <2> QED BY <2>2, <2>7
<1> QED BY <1>1, <1>2

\* The peek that ends skipNewlines stays behind, and is of the right position.
LEMMA SkipExact ==
    ASSUME NEW text \in Seq(Token), NEW lx, Exact(text, lx)
    PROVE  Exact(text, SkipNewlines(text, lx))
<1> DEFINE Stops(p) ==
             /\ ReadToken(text, p).type # "Newline"
             /\ \A q \in lx.position + 1..p : text[q].type = "Newline"
           Ends == {p \in lx.position..Len(text) :
                        ReadToken(text, p).type # "Newline"}
           stop == CHOOSE p \in lx.position..Len(text) : Stops(p)
<1>1. lx.position \in Nat /\ Len(text) \in Nat /\ lx.position <= Len(text)
  BY DEF Exact, CursorExact
<1>2. Ends \in SUBSET Nat /\ Ends # {}
  <2>1. ReadToken(text, Len(text)).type # "Newline"
    BY <1>1 DEF ReadToken, EndToken, Tok
  <2>2. Len(text) \in Ends
    BY <1>1, <2>1
  <2> QED BY <1>1, <2>2
<1>3. PICK p \in Ends : \A r \in Ends : p <= r
  <2> HIDE DEF Ends
  <2> QED BY <1>2, LeastOf
<1>4. Stops(p)
  <2>1. ASSUME NEW q \in lx.position + 1..p PROVE text[q].type = "Newline"
    <3>1. /\ q - 1 \in lx.position..Len(text) /\ ~(p <= q - 1)
          /\ q - 1 < Len(text) /\ q - 1 + 1 = q
      BY <1>1, <1>3, <2>1
    <3>2. q - 1 \notin Ends
      BY <1>3, <3>1
    <3>3. ReadToken(text, q - 1).type = "Newline"
      BY <3>1, <3>2
    <3> QED BY <3>1, <3>3 DEF ReadToken
  <2> QED BY <1>3, <2>1
<1>5. stop \in lx.position..Len(text)
  <2> HIDE DEF Stops
  <2> QED BY <1>3, <1>4
<1>6. stop - lx.position \in Nat
  <2> HIDE DEF stop
  <2> QED BY <1>1, <1>5
<1>7. SkipNewlines(text, lx) = Peek(text, Advance(text, lx, stop - lx.position))
  BY DEF SkipNewlines
<1> HIDE DEF stop
<1> QED BY <1>6, <1>7, AdvanceExact, PeekExact

\* restore leaves the line alone, and that is right where the parser uses it: the
\* token it takes back is no newline.
LEMMA RestoreExact ==
    ASSUME NEW text \in Seq(Token), NEW lx, Exact(text, lx),
           Ahead(text, lx).type # "Newline"
    PROVE  Exact(text, Restore(Peek(text, NextToken(text, lx)), Mark(lx)))
<1> DEFINE nx == Peek(text, NextToken(text, lx))
<1>1. Exact(text, nx) /\ nx.line = LineAfter(text, lx.position, lx.line)
  BY NextExact, PeekExact
<1>2. nx.line = lx.line
  BY <1>1, AheadExact DEF LineAfter
<1> HIDE DEF nx
<1> DEFINE back == Restore(nx, Mark(lx))
<1>3. /\ back \in LexerState /\ back.position = lx.position
      /\ back.line = nx.line /\ back.hasPeek = FALSE
  <2>1. nx \in LexerState /\ lx.position \in Nat
    BY <1>1 DEF Exact, LexerState
  <2>2. back = [nx EXCEPT !.position = lx.position, !.hasPeek = FALSE]
    BY DEF Restore, Mark
  <2>3. back \in LexerState
    BY <2>1, <2>2 DEF LexerState
  <2> QED BY <2>1, <2>2, <2>3 DEF LexerState
<1> HIDE DEF back
<1>4. lx.position \in 0..Len(text) /\ lx.line = 1 + Newlines(text, 0, lx.position)
  BY DEF Exact, CursorExact
<1>5. Exact(text, back)
  BY <1>2, <1>3, <1>4 DEF Exact, CursorExact
<1> QED BY <1>5 DEF back, nx

-----------------------------------------------------------------------------
(* The parser. *)

\* Every thread's text is a text, and its lexer is exact in it.
Reading ==
    /\ source = [c \in Callers |-> source[c]]
    /\ lexer = [c \in Callers |-> lexer[c]]
    /\ \A c \in Callers : Text(c) \in Seq(Token) /\ Exact(Text(c), lexer[c])

\* A step of c that ends in skipNewlines.
LEMMA ReadingMoves ==
    ASSUME Reading, NEW c \in Callers, NEW lx, Exact(Text(c), lx), LexerAt(c, lx),
           UNCHANGED source
    PROVE  Reading'
<1>1. Text(c) \in Seq(Token)
  BY DEF Reading
<1>2. Exact(Text(c), SkipNewlines(Text(c), lx))
  BY <1>1, SkipExact
<1> QED BY <1>2 DEF Reading, LexerAt, Text

\* A step that leaves every lexer alone.
LEMMA ReadingKept ==
    ASSUME Reading, UNCHANGED <<source, lexer>>
    PROVE  Reading'
BY DEF Reading, Text

\* The token types an instruction may be followed by.
LEMMA FormsType ==
    ASSUME NEW m, NEW form \in Forms(m)
    PROVE  form \in Seq(TokenTypes) /\ Len(form) \in Nat
<1>1. \/ form = <<>>
      \/ \E a \in TokenTypes : form = <<a>> \/ form = WithNumber(a)
                                \/ form = WithMemory(a)
      \/ form = <<"Register", "Comma", "Register">>
  BY DEF Forms, TokenTypes
<1>2. ASSUME NEW a \in TokenTypes, form = <<a>>
      PROVE  form \in Seq(TokenTypes) /\ Len(form) \in Nat
  BY <1>2
<1>3. ASSUME NEW a \in TokenTypes, form = WithNumber(a)
      PROVE  form \in Seq(TokenTypes) /\ Len(form) \in Nat
  BY <1>3 DEF WithNumber, TokenTypes
<1>4. ASSUME NEW a \in TokenTypes, form = WithMemory(a)
      PROVE  form \in Seq(TokenTypes) /\ Len(form) \in Nat
  BY <1>4 DEF WithMemory, TokenTypes
<1>5. CASE form = <<>>
  BY <1>5
<1>6. CASE form = <<"Register", "Comma", "Register">>
  BY <1>6 DEF TokenTypes
<1> QED BY <1>1, <1>2, <1>3, <1>4, <1>5, <1>6

\* An instruction begins with an identifier.
LEMMA InstructionAhead ==
    ASSUME NEW c \in Callers, NEW form \in InstructionForms(c)
    PROVE  /\ Ahead(Text(c), lexer[c]).type = "Identifier"
           /\ Len(form) \in Nat
<1>1. form \in Seq(TokenTypes) /\ Len(form) \in Nat
  BY FormsType DEF InstructionForms
<1>2. <<"Identifier">> \in Seq(TokenTypes)
  BY DEF TokenTypes
<1>3. /\ 1 \in DOMAIN (<<"Identifier">> \o form)
      /\ (<<"Identifier">> \o form)[1] = "Identifier"
  BY <1>1, <1>2
<1>4. T(c, 1).type = "Identifier"
  BY <1>3 DEF InstructionForms, Follow
<1> QED BY <1>1, <1>4 DEF T, Upcoming

LEMMA ReadingInit == Init => Reading
<1> SUFFICES ASSUME Init PROVE Reading
  OBVIOUS
<1>1. <<>> \in Seq(Token)
  OBVIOUS
<1>2. Exact(<<>>, FreshLexer)
  BY <1>1, FreshExact
<1> QED BY <1>1, <1>2 DEF Init, Reading, Text

\* Every step of the parser leaves every lexer exact.
LEMMA ReadingStep ==
    ASSUME Reading, Next
    PROVE  Reading'
<1>1. ASSUME NEW c \in Callers, NEW s \in Sources, Begin(c, s) PROVE Reading'
  <2>1. s.text \in Seq(Token)
    BY AssemblerAssumption
  <2>2. Exact(s.text, SkipNewlines(s.text, FreshLexer))
    BY <2>1, FreshExact, SkipExact
  <2>3. /\ source' = [source EXCEPT ![c] = s]
        /\ lexer' = [lexer EXCEPT ![c] = SkipNewlines(s.text, FreshLexer)]
    BY <1>1 DEF Begin
  <2> QED BY <2>1, <2>2, <2>3 DEF Reading, Text
<1>2. ASSUME NEW c \in Callers, SwitchSection(c) \/ DefineData(c) PROVE Reading'
  <2>1. PICK n \in {2, 3} : LexerAt(c, Advance(Text(c), lexer[c], n))
    BY <1>2 DEF SwitchSection, DefineData
  <2>2. Exact(Text(c), Advance(Text(c), lexer[c], n))
    BY AdvanceExact DEF Reading
  <2> QED BY <1>2, <2>1, <2>2, ReadingMoves DEF SwitchSection, DefineData
<1>3. ASSUME NEW c \in Callers, DefineLabel(c) PROVE Reading'
  <2>1. Exact(Text(c), AfterLabel(c))
    BY NextExact, PeekExact DEF Reading, AfterLabel
  <2> QED BY <1>3, <2>1, ReadingMoves DEF DefineLabel
<1>4. ASSUME NEW c \in Callers, ParseInstruction(c) PROVE Reading'
  <2>1. PICK form \in InstructionForms(c) :
          LexerAt(c, Advance(Text(c), AtMnemonic(c), Len(form) + 1))
    BY <1>4 DEF ParseInstruction
  <2>2. Ahead(Text(c), lexer[c]).type = "Identifier" /\ Len(form) + 1 \in Nat
    BY InstructionAhead
  <2>3. Exact(Text(c), AtMnemonic(c))
    BY <2>2, RestoreExact DEF Reading, AtMnemonic
  <2>4. Exact(Text(c), Advance(Text(c), AtMnemonic(c), Len(form) + 1))
    BY <2>2, <2>3, AdvanceExact DEF Reading
  <2> QED BY <1>4, <2>1, <2>4, ReadingMoves DEF ParseInstruction
<1>5. ASSUME NEW c \in Callers, Reject(c) \/ EndSecondPass(c) PROVE Reading'
  BY <1>5, ReadingKept DEF Reject, EndSecondPass
<1>6. ASSUME NEW c \in Callers, EndFirstPass(c) PROVE Reading'
  <2>1. Exact(Text(c), Reset(lexer[c]))
    BY ResetExact DEF Reading
  <2>2. lexer' = [lexer EXCEPT ![c] = Reset(lexer[c])] /\ UNCHANGED source
    BY <1>6 DEF EndFirstPass
  <2> QED BY <2>1, <2>2 DEF Reading, Text
<1>7. ASSUME NEW c \in Callers, BuildImage(c) PROVE Reading'
  BY <1>7, ReadingMoves DEF Reading, BuildImage
<1> QED BY <1>1, <1>2, <1>3, <1>4, <1>5, <1>6, <1>7 DEF Next, Parse

LEMMA AlwaysReading == Spec => []Reading
<1>1. Reading /\ [Next]_vars => Reading'
  BY ReadingStep, ReadingKept DEF vars, locals
<1> QED BY <1>1, ReadingInit, PTL DEF Spec

\* For every text, well formed or not: the one token of lookahead and the line
\* number of the Lexer are those of its position at every statement boundary,
\* across peek, mark and restore, the newlines that are skipped, the reset
\* between the passes and a parse that was given up.
THEOREM CursorsExact == Spec => []LexerExact
<1>1. Reading => LexerExact
  BY DEF Reading, Exact, LexerExact
<1> QED BY <1>1, AlwaysReading, PTL

-----------------------------------------------------------------------------
(* Types. *)

\* Whatever the parser looks at is a token of the text, or the end.
LEMMA AheadType ==
    ASSUME Reading, NEW c \in Callers, NEW k \in Nat \ {0}
    PROVE  T(c, k) \in Token \cup {EndToken}
<1>1. Text(c) \in Seq(Token) /\ Exact(Text(c), lexer[c])
  BY DEF Reading
<1>2. lexer[c].position \in Nat
  BY <1>1 DEF Exact, LexerState
<1>3. CASE k = 1
  BY <1>1, <1>2, <1>3, AheadExact, ReadTokenType DEF T, Upcoming
<1>4. CASE k # 1
  <2>1. NextToken(Text(c), lexer[c]).position \in Nat
    BY <1>1, NextExact DEF Exact, LexerState
  <2>2. NextToken(Text(c), lexer[c]).position + k - 2 \in Nat
    BY <1>4, <2>1
  <2> QED BY <1>1, <1>4, <2>2, ReadTokenType DEF T, Upcoming
<1> QED BY <1>3, <1>4

\* A token that is not the end has a name and a number.
LEMMA TokenParts ==
    ASSUME NEW t \in Token \cup {EndToken}, t.type # "End"
    PROVE  t.name \in STRING /\ t.val \in Int
<1>1. EndToken.type = "End"
  BY DEF EndToken, Tok
<1>2. t \in Token
  BY <1>1
<1> QED BY <1>2 DEF Token

\* A remainder lies below its divisor.
LEMMA RemainderRange ==
    ASSUME NEW n \in Int, NEW b \in Nat \ {0}
    PROVE  n % b \in 0..b - 1
OBVIOUS

\* parseNumberToken cuts every number to 16 bits, signed.
LEMMA LiteralType ==
    ASSUME NEW n \in Int
    PROVE  Literal(n) \in Literals
<1> DEFINE base == ByteBase * ByteBase
           half == base \div 2
<1>1. ByteBase \in Nat \ {0} /\ ByteBase % 2 = 0
  BY AssemblyAssumption
<1>2. base \in Nat \ {0}
  BY <1>1
<1>3. half \in Nat /\ base = 2 * half
  <2>1. PICK b \in Nat : ByteBase = 2 * b
    BY <1>1
  <2>2. base = 2 * (b * ByteBase)
    BY <1>1, <2>1
  <2>3. b * ByteBase \in Nat
    BY <1>1, <2>1
  <2> DEFINE m == b * ByteBase
  <2> HIDE DEF m, base
  <2> QED BY <2>2, <2>3 DEF m
<1> HIDE DEF base
<1>4. (n + half) % base \in 0..base - 1
  BY <1>2, <1>3, RemainderRange
<1>5. ((n + half) % base) - half \in -half..half - 1
  <2> HIDE DEF half
  <2> DEFINE r == (n + half) % base
  <2> HIDE DEF r
  <2>1. r \in 0..base - 1
    BY <1>4 DEF r
  <2> QED BY <1>2, <1>3, <2>1 DEF r
<1> QED BY <1>5 DEF base, Literal, Literals

\* What each kind of statement puts into the tables.
LEMMA SectionNamed ==
    ASSUME Reading, NEW c \in Callers, AtSection(c)
    PROVE  T(c, 1).name \in {"DATA", "CODE"}
BY DEF AtSection

LEMMA LabelNamed ==
    ASSUME Reading, NEW c \in Callers, AtLabel(c)
    PROVE  T(c, 1).name \in STRING
<1>1. T(c, 1).type = "Identifier"
  BY DEF AtLabel, Follow
<1> QED BY <1>1, AheadType, TokenParts

LEMMA SymbolTyped ==
    ASSUME TypeOK, Reading, NEW c \in Callers, AtData(c)
    PROVE  /\ [name |-> T(c, 2).name, type |-> T(c, 1).name,
               value |-> Literal(T(c, 3).val), offset |-> dataOffset] \in DataSymbol
           /\ DataSize[T(c, 1).name] \in Nat
<1>1. T(c, 2).type = "Identifier" /\ T(c, 3).type = "Number"
  BY DEF AtData, Follow
<1>2. T(c, 2).name \in STRING
  BY <1>1, AheadType, TokenParts
<1>3. T(c, 3).val \in Int
  BY <1>1, AheadType, TokenParts
<1>4. Literal(T(c, 3).val) \in Literals
  BY <1>3, LiteralType
<1>5. T(c, 1).name \in DOMAIN DataSize
  BY DEF AtData
<1>6. DataSize[T(c, 1).name] \in Nat
  BY <1>5 DEF DataSize
<1> QED BY <1>2, <1>4, <1>5, <1>6 DEF TypeOK, DataSymbol

LEMMA TypeInit == Init => TypeOK
BY AssemblerAssumption DEF Init, TypeOK, Empty

\* Every step of every thread preserves the types, shared tables included.
LEMMA TypeStep ==
    ASSUME TypeOK, Reading, Next
    PROVE  TypeOK'
<1> USE DEF tables
<1>1. ASSUME NEW c \in Callers, NEW s \in Sources, Begin(c, s) PROVE TypeOK'
  <2>1. parses'[c] \in 0..MaxParses /\ parses' = [parses EXCEPT ![c] = parses[c] + 1]
    BY <1>1, AssemblerAssumption DEF Begin, TypeOK
  <2>2. parses' \in [Callers -> 0..MaxParses]
    BY <2>1 DEF TypeOK
  <2>3. \A d \in Callers : pc'[d] # "idle" => source'[d] \in Sources
    BY <1>1 DEF Begin, TypeOK, Reading
  <2> QED BY <1>1, <2>2, <2>3 DEF Begin, ClearTables, TypeOK, Empty
<1>2. ASSUME NEW c \in Callers, SwitchSection(c) PROVE TypeOK'
  <2>1. section' \in {"DATA", "CODE"}
    BY <1>2, SectionNamed DEF SwitchSection
  <2> QED BY <1>2, <2>1 DEF SwitchSection, TypeOK
<1>3. ASSUME NEW c \in Callers, DefineData(c) PROVE TypeOK'
  <2> DEFINE symbol == [name |-> T(c, 2).name, type |-> T(c, 1).name,
                        value |-> Literal(T(c, 3).val), offset |-> dataOffset]
  <2>1. symbol \in DataSymbol /\ DataSize[symbol.type] \in Nat
    BY <1>3, SymbolTyped DEF DefineData
  <2>2. /\ dataSymbols' = IF Emit(c) THEN dataSymbols
                          ELSE Append(dataSymbols, symbol)
        /\ dataOffset' = IF Emit(c) THEN dataOffset
                         ELSE dataOffset + DataSize[symbol.type]
        /\ UNCHANGED <<labels, section, codeAddress, pc, source, outcome, parses>>
    BY <1>3 DEF DefineData
  <2> HIDE DEF symbol
  <2>3. dataSymbols' \in Seq(DataSymbol) /\ dataOffset' \in Nat
    BY <2>1, <2>2 DEF TypeOK
  <2> QED BY <2>2, <2>3 DEF TypeOK
<1>4. ASSUME NEW c \in Callers, DefineLabel(c) PROVE TypeOK'
  <2>1. T(c, 1).name \in STRING
    BY <1>4, LabelNamed DEF DefineLabel
  <2> DEFINE name == T(c, 1).name
  <2>2. /\ labels' = [n \in DOMAIN labels \cup {name} |->
                        IF n = name THEN codeAddress ELSE labels[n]]
        /\ UNCHANGED <<dataSymbols, section, codeAddress, dataOffset, pc, source,
                       outcome, parses>>
    BY <1>4 DEF DefineLabel
  <2> HIDE DEF name
  <2>3. /\ DOMAIN labels' \subseteq STRING
        /\ \A n \in DOMAIN labels' : labels'[n] \in Nat
    BY <2>1, <2>2 DEF TypeOK, name
  <2> QED BY <2>2, <2>3 DEF TypeOK
<1>5. ASSUME NEW c \in Callers, ParseInstruction(c) PROVE TypeOK'
  BY <1>5 DEF ParseInstruction, NextAddress, TypeOK
<1>6. ASSUME NEW c \in Callers, Reject(c) PROVE TypeOK'
  BY <1>6 DEF Reject, TypeOK
<1>7. ASSUME NEW c \in Callers, EndFirstPass(c) PROVE TypeOK'
  BY <1>7 DEF EndFirstPass, TypeOK
<1>8. ASSUME NEW c \in Callers, BuildImage(c) PROVE TypeOK'
  BY <1>8 DEF BuildImage, TypeOK
<1>9. ASSUME NEW c \in Callers, EndSecondPass(c) PROVE TypeOK'
  BY <1>9 DEF EndSecondPass, TypeOK
<1> QED BY <1>1, <1>2, <1>3, <1>4, <1>5, <1>6, <1>7, <1>8, <1>9 DEF Next, Parse

\* Labels, symbols, offsets and values keep their types, whatever the texts and
\* however the steps of the threads interleave on the one set of tables.
THEOREM TypesHold == Spec => []TypeOK
<1>1. ASSUME TypeOK, UNCHANGED vars PROVE TypeOK'
  BY <1>1 DEF TypeOK, vars, tables, locals
<1>2. TypeOK /\ Reading /\ [Next]_vars => TypeOK'
  BY <1>1, TypeStep
<1> QED BY <1>2, TypeInit, AlwaysReading, PTL DEF Spec
=============================================================================
