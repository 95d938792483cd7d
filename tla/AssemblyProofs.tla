--------------------------- MODULE AssemblyProofs ---------------------------
(***************************************************************************)
(* Proofs about Assembler for every set of programs and every way to write *)
(* them down, if threads do not enter parse together:                      *)
(*                                                                         *)
(*   AssemblyCorrect     what parse returns is the assembly of its program *)
(*   PassesAgreed        both passes give a label the same address         *)
(*   OneThreadAssembles  both, for the only thread there is                *)
(*                                                                         *)
(* The invariant relates the tables to the statement the lexer stands      *)
(* before.  First come facts about the reference (which statements are     *)
(* above a statement), about the text (what the parser sees is what is     *)
(* written) and about the tables and the bytes of numbers, then one lemma  *)
(* per step of the parser.                                                 *)
(***************************************************************************)
EXTENDS AssemblerProofs, SourceText

-----------------------------------------------------------------------------
(* Greatest and least elements. *)

LEMMA MaxOf ==
    ASSUME NEW n \in Nat, NEW S \in SUBSET (1..n), S # {}
    PROVE  Max(S) \in S /\ \A j \in S : j <= Max(S)
<1> DEFINE D == {n - j : j \in S}
<1>1. D \in SUBSET Nat /\ D # {}
  <2>1. \A j \in S : n - j \in Nat
    OBVIOUS
  <2> QED BY <2>1
<1>2. PICK d \in D : \A r \in D : d <= r
  <2> HIDE DEF D
  <2> QED BY <1>1, LeastOf
<1>3. PICK m \in S : d = n - m
  BY <1>2
<1>4. \A j \in S : m >= j
  <2>1. ASSUME NEW j \in S PROVE m >= j
    <3>1. d <= n - j
      BY <1>2
    <3> QED BY <1>3, <3>1
  <2> QED BY <2>1
<1>5. Max(S) \in S /\ \A j \in S : Max(S) >= j
  BY <1>4 DEF Max
<1> QED BY <1>5

LEMMA MinOf ==
    ASSUME NEW S \in SUBSET Nat, S # {}
    PROVE  Min(S) \in S /\ \A j \in S : Min(S) <= j
<1>1. PICK m \in S : \A j \in S : m <= j
  BY LeastOf
<1> QED BY <1>1 DEF Min

\* An element that no other exceeds is the greatest, and so for the least.
LEMMA MaxIs ==
    ASSUME NEW S \in SUBSET Nat, NEW m \in S, \A j \in S : j <= m
    PROVE  Max(S) = m
<1>1. \A j \in S : m >= j
  OBVIOUS
<1>2. Max(S) \in S /\ \A j \in S : Max(S) >= j
  BY <1>1 DEF Max
<1>3. Max(S) >= m /\ Max(S) <= m /\ m \in Nat /\ Max(S) \in Nat
  BY <1>2
<1> QED BY <1>3

LEMMA MinIs ==
    ASSUME NEW S \in SUBSET Nat, NEW m \in S, \A j \in S : m <= j
    PROVE  Min(S) = m
<1>1. Min(S) \in S /\ \A j \in S : Min(S) <= j
  BY MinOf
<1>2. Min(S) <= m /\ m <= Min(S) /\ m \in Nat /\ Min(S) \in Nat
  BY <1>1
<1> QED BY <1>2

-----------------------------------------------------------------------------
(* The statements before a statement. *)

\* What the proofs need to know of a program.
Program(prog) ==
    /\ Len(prog) \in Nat /\ DOMAIN prog = 1..Len(prog)
    /\ \A i \in Of(prog, "data") :
        prog[i].type \in DOMAIN DataSize /\ prog[i].val \in Int
    /\ \A i \in Of(prog, "instr") : prog[i].src.val \in Int

LEMMA StatementsProgram ==
    ASSUME NEW prog \in Seq(Statements)
    PROVE  Program(prog)
<1>1. Len(prog) \in Nat /\ DOMAIN prog = 1..Len(prog)
  OBVIOUS
<1>2. ASSUME NEW i \in Of(prog, "data")
      PROVE  prog[i].type \in DOMAIN DataSize /\ prog[i].val \in Int
  <2>1. i \in 1..Len(prog) /\ prog[i].kind = "data"
    BY <1>1 DEF Of
  <2>2. prog[i] \in Statements
    BY <2>1
  <2> QED BY <2>1, <2>2 DEF Statements
<1>3. ASSUME NEW i \in Of(prog, "instr") PROVE prog[i].src.val \in Int
  <2>1. i \in 1..Len(prog) /\ prog[i].kind = "instr"
    BY <1>1 DEF Of
  <2>2. prog[i] \in Statements
    BY <2>1
  <2>3. prog[i].src \in Operands
    BY <2>1, <2>2 DEF Statements
  <2> QED BY <2>3 DEF Operands
<1> QED BY <1>1, <1>2, <1>3 DEF Program

LEMMA BeforeType ==
    ASSUME NEW prog, Program(prog), NEW i \in Nat, NEW kind
    PROVE  /\ Before(prog, i, kind) \in SUBSET (1..Len(prog))
           /\ IsFiniteSet(Before(prog, i, kind))
           /\ Cardinality(Before(prog, i, kind)) \in Nat
<1>1. Before(prog, i, kind) \in SUBSET (1..Len(prog))
  BY DEF Before, Of, Program
<1>2. IsFiniteSet(1..Len(prog))
  BY FS_Interval DEF Program
<1>3. IsFiniteSet(Before(prog, i, kind))
  BY <1>1, <1>2, FS_Subset
<1> QED BY <1>1, <1>3, FS_CardinalityType

LEMMA BeforeStep ==
    ASSUME NEW prog, Program(prog), NEW i \in 1..Len(prog), NEW kind
    PROVE  /\ i \notin Before(prog, i, kind)
           /\ prog[i].kind = kind =>
                Before(prog, i + 1, kind) = Before(prog, i, kind) \cup {i}
           /\ prog[i].kind # kind =>
                Before(prog, i + 1, kind) = Before(prog, i, kind)
<1>1. \A j \in 1..Len(prog) : j < i + 1 <=> j < i \/ j = i
  BY DEF Program
<1> QED BY <1>1 DEF Before, Of, Program

LEMMA BeforeEnds ==
    ASSUME NEW prog, Program(prog), NEW kind
    PROVE  /\ Before(prog, 1, kind) = {}
           /\ Before(prog, Len(prog) + 1, kind) = Of(prog, kind)
BY DEF Before, Of, Program

\* Counting them: the statements of one kind are numbered in their order.
LEMMA CountStep ==
    ASSUME NEW prog, Program(prog), NEW i \in 1..Len(prog), NEW kind
    PROVE  Cardinality(Before(prog, i + 1, kind)) =
             Cardinality(Before(prog, i, kind))
                + (IF prog[i].kind = kind THEN 1 ELSE 0)
<1>1. i \in Nat /\ IsFiniteSet(Before(prog, i, kind))
  BY BeforeType
<1>2. Cardinality(Before(prog, i, kind)) \in Nat
  BY BeforeType
<1>3. CASE prog[i].kind = kind
  <2>1. Before(prog, i + 1, kind) = Before(prog, i, kind) \cup {i}
    BY <1>3, BeforeStep
  <2>2. i \notin Before(prog, i, kind)
    BY BeforeStep
  <2>3. Cardinality(Before(prog, i, kind) \cup {i}) =
            Cardinality(Before(prog, i, kind)) + 1
    BY <1>1, <2>2, FS_AddElement
  <2> QED BY <1>3, <2>1, <2>3
<1>4. CASE prog[i].kind # kind
  <2>1. Before(prog, i + 1, kind) = Before(prog, i, kind)
    BY <1>4, BeforeStep
  <2> QED BY <1>2, <1>4, <2>1
<1> QED BY <1>3, <1>4

LEMMA CountOrder ==
    ASSUME NEW prog, Program(prog), NEW kind,
           NEW i \in 1..Len(prog) + 1, NEW j \in i..Len(prog) + 1
    PROVE  /\ Cardinality(Before(prog, i, kind)) <=
                Cardinality(Before(prog, j, kind))
           /\ i < j /\ prog[i].kind = kind =>
                Cardinality(Before(prog, i, kind)) <
                    Cardinality(Before(prog, j, kind))
<1> USE DEF Program
<1>1. i \in Nat /\ j \in Nat /\ i <= j /\ j <= Len(prog) + 1
  OBVIOUS
<1>2. ASSUME NEW k \in 1..Len(prog) + 1, k <= j
      PROVE  Cardinality(Before(prog, k, kind)) <=
                Cardinality(Before(prog, j, kind))
  <2>1. Before(prog, k, kind) \in SUBSET Before(prog, j, kind)
    BY <1>1, <1>2 DEF Before, Of
  <2>2. IsFiniteSet(Before(prog, j, kind))
    BY <1>1, BeforeType
  <2> QED BY <2>1, <2>2, FS_Subset
<1>3. ASSUME i < j, prog[i].kind = kind
      PROVE  Cardinality(Before(prog, i, kind)) <
                Cardinality(Before(prog, j, kind))
  <2>1. i \in 1..Len(prog) /\ i + 1 \in 1..Len(prog) + 1 /\ i + 1 <= j
    BY <1>1, <1>3
  <2>2. Cardinality(Before(prog, i + 1, kind)) =
            Cardinality(Before(prog, i, kind)) + 1
    BY <1>3, <2>1, CountStep
  <2>3. /\ Cardinality(Before(prog, i, kind)) \in Nat
        /\ Cardinality(Before(prog, j, kind)) \in Nat
    BY <1>1, BeforeType
  <2> QED BY <1>2, <2>1, <2>2, <2>3
<1> QED BY <1>1, <1>2, <1>3

\* Which section a statement is in follows from the statement above.
LEMMA SectionStep ==
    ASSUME NEW prog, Program(prog), NEW i \in 1..Len(prog)
    PROVE  SectionOf(prog, i + 1) =
             IF prog[i].kind = "section" THEN prog[i].name
             ELSE SectionOf(prog, i)
<1> DEFINE heads == Before(prog, i, "section")
<1>1. CASE prog[i].kind = "section"
  <2>1. Before(prog, i + 1, "section") = heads \cup {i}
    BY <1>1, BeforeStep, SMTT(30)
  <2>2. heads \cup {i} \in SUBSET Nat /\ \A j \in heads \cup {i} : j <= i
    <3>1. i \in Nat /\ Len(prog) \in Nat
      BY DEF Program
    <3>2. \A j \in heads : j \in 1..Len(prog) /\ j < i
      BY <3>1, BeforeType DEF Before
    <3>3. ASSUME NEW j \in heads \cup {i} PROVE j \in Nat /\ j <= i
      <4> HIDE DEF heads
      <4> QED BY <3>1, <3>2
    <3> QED BY <3>3
  <2> HIDE DEF heads
  <2>3. Max(heads \cup {i}) = i
    BY <2>2, MaxIs
  <2> QED BY <1>1, <2>1, <2>3 DEF SectionOf
<1>2. CASE prog[i].kind # "section"
  <2>1. Before(prog, i + 1, "section") = heads
    BY <1>2, BeforeStep
  <2> QED BY <1>2, <2>1 DEF SectionOf
<1> QED BY <1>1, <1>2

\* The definition of n that counts in statement i (LabelTarget).
LabelDef(prog, i, n) ==
    LET defs == Named(prog, "label", n)
        above == {j \in defs : j < i}
    IN  Max(IF above # {} THEN above ELSE defs)

LEMMA LabelDefStep ==
    ASSUME NEW prog, Program(prog), NEW i \in 1..Len(prog), NEW n
    PROVE  LabelDef(prog, i + 1, n) =
             IF prog[i].kind = "label" /\ prog[i].name = n THEN i
             ELSE LabelDef(prog, i, n)
<1> DEFINE defs == Named(prog, "label", n)
           above(k) == {j \in defs : j < k}
<1>1. defs \in SUBSET (1..Len(prog)) /\ Len(prog) \in Nat
  BY DEF Named, Of, Program
<1>2. CASE prog[i].kind = "label" /\ prog[i].name = n
  <2>1. i \in defs
    BY <1>2 DEF Named, Of, Program
  <2> HIDE DEF defs
  <2>2. /\ above(i + 1) \in SUBSET Nat /\ i \in above(i + 1)
        /\ \A j \in above(i + 1) : j <= i
    <3>1. i \in Nat /\ \A j \in defs : j \in Nat
      BY <1>1
    <3>2. \A j \in defs : j < i + 1 => j <= i
      BY <3>1
    <3>3. i < i + 1
      BY <3>1
    <3> QED BY <2>1, <3>1, <3>2, <3>3
  <2>3. Max(above(i + 1)) = i
    <3> HIDE DEF above
    <3> QED BY <2>2, MaxIs
  <2>4. LabelDef(prog, i + 1, n) = Max(above(i + 1))
    BY <2>2 DEF LabelDef, defs
  <2> QED BY <1>2, <2>3, <2>4
<1>3. CASE ~(prog[i].kind = "label" /\ prog[i].name = n)
  <2>1. i \notin defs
    BY <1>3 DEF Named, Of
  <2> HIDE DEF defs
  <2>2. above(i + 1) = above(i)
    <3>1. ASSUME NEW j \in defs PROVE j < i + 1 <=> j < i
      BY <1>1, <2>1, <3>1
    <3> QED BY <3>1
  <2> QED BY <1>3, <2>2 DEF LabelDef, defs
<1> QED BY <1>2, <1>3

\* Above the first statement all definitions are below, behind the last one all
\* are above: either way the last one counts.
LEMMA LabelDefEnds ==
    ASSUME NEW prog, Program(prog), NEW n
    PROVE  LabelDef(prog, Len(prog) + 1, n) = LabelDef(prog, 1, n)
<1> DEFINE defs == Named(prog, "label", n)
<1>1. defs \in SUBSET (1..Len(prog)) /\ Len(prog) \in Nat
  BY DEF Named, Of, Program
<1> HIDE DEF defs
<1>2. {j \in defs : j < 1} = {} /\ {j \in defs : j < Len(prog) + 1} = defs
  <2>1. \A j \in defs : ~(j < 1) /\ j < Len(prog) + 1
    BY <1>1
  <2> QED BY <2>1
<1> QED BY <1>2 DEF LabelDef, defs

LEMMA LabelDefType ==
    ASSUME NEW prog, Program(prog), NEW i \in Nat, NEW n,
           Named(prog, "label", n) # {}
    PROVE  LabelDef(prog, i, n) \in Named(prog, "label", n)
<1> DEFINE defs == Named(prog, "label", n)
           above == {j \in defs : j < i}
           S == IF above # {} THEN above ELSE defs
<1>1. defs \in SUBSET (1..Len(prog)) /\ Len(prog) \in Nat
  BY DEF Named, Of, Program
<1>2. S \in SUBSET (1..Len(prog)) /\ S # {} /\ S \in SUBSET defs
  BY <1>1
<1> HIDE DEF S
<1>3. Max(S) \in S
  BY <1>1, <1>2, MaxOf
<1> QED BY <1>2, <1>3 DEF S, LabelDef

-----------------------------------------------------------------------------
(* Offsets of data. *)

\* The bytes of the data above statement i, which OffsetOf counts.
Bytes(prog, i) == {jb \in Before(prog, i, "data") \X (0..7) :
                      jb[2] < DataSize[prog[jb[1]].type]}

LEMMA BytesType ==
    ASSUME NEW prog, Program(prog), NEW i \in Nat
    PROVE  /\ IsFiniteSet(Bytes(prog, i))
           /\ OffsetOf(prog, i) = Cardinality(Bytes(prog, i))
           /\ OffsetOf(prog, i) \in Nat
<1>1. IsFiniteSet(Before(prog, i, "data") \X (0..7))
  <2>1. IsFiniteSet(Before(prog, i, "data"))
    BY BeforeType
  <2>2. IsFiniteSet(0..7)
    <3>1. 0 \in Int /\ 7 \in Int
      OBVIOUS
    <3> QED BY <3>1, FS_Interval
  <2> QED BY <2>1, <2>2, FS_Product
<1>2. IsFiniteSet(Bytes(prog, i))
  BY <1>1, FS_Subset DEF Bytes
<1>3. OffsetOf(prog, i) = Cardinality(Bytes(prog, i))
  BY DEF OffsetOf, Bytes
<1> QED BY <1>2, <1>3, FS_CardinalityType

LEMMA DataSizes ==
    ASSUME NEW prog, Program(prog), NEW i \in Of(prog, "data")
    PROVE  DataSize[prog[i].type] \in {1, 2, 4, 8} /\ DataSize[prog[i].type] \in Nat
<1>1. prog[i].type \in {"BYTE", "DBYTE", "WORD", "QWORD"}
  BY DEF Program, DataSize
<1>2. DataSize[prog[i].type] \in {1, 2, 4, 8}
  BY <1>1 DEF DataSize
<1> QED BY <1>2

LEMMA OffsetStep ==
    ASSUME NEW prog, Program(prog), NEW i \in 1..Len(prog)
    PROVE  OffsetOf(prog, i + 1) =
             IF prog[i].kind = "data"
             THEN OffsetOf(prog, i) + DataSize[prog[i].type]
             ELSE OffsetOf(prog, i)
<1> DEFINE size == DataSize[prog[i].type]
           own == {i} \X (0..size - 1)
<1>1. i \in Nat /\ i + 1 \in Nat
  BY DEF Program
<1>2. CASE prog[i].kind = "data"
  <2>1. size \in {1, 2, 4, 8}
    <3>1. i \in Of(prog, "data")
      BY <1>2 DEF Of, Program
    <3> QED BY <3>1, DataSizes
  <2>2. Cardinality(own) = size /\ IsFiniteSet(own)
    <3> HIDE DEF size
    <3>1. IsFiniteSet(0..size - 1) /\ Cardinality(0..size - 1) = size
      BY <2>1, FS_Interval
    <3>2. IsFiniteSet({i}) /\ Cardinality({i}) = 1
      BY FS_Singleton
    <3>3. /\ IsFiniteSet(own)
          /\ Cardinality(own) = Cardinality({i}) * Cardinality(0..size - 1)
      BY <3>1, <3>2, FS_Product
    <3>4. 1 * size = size
      BY <2>1
    <3> QED BY <3>1, <3>2, <3>3, <3>4
  <2>3. Before(prog, i + 1, "data") = Before(prog, i, "data") \cup {i}
    BY <1>2, BeforeStep
  <2>4. \A b \in 0..7 : b < size <=> b \in 0..size - 1
    <3> HIDE DEF size
    <3> QED BY <2>1
  <2>5. 0..size - 1 \in SUBSET (0..7)
    <3> HIDE DEF size
    <3> QED BY <2>1
  <2>6. Bytes(prog, i + 1) = Bytes(prog, i) \cup own
    <3>1. ASSUME NEW jb PROVE jb \in Bytes(prog, i + 1) <=> jb \in Bytes(prog, i) \cup own
      BY <2>3, <2>4, <2>5 DEF Bytes
    <3> QED BY <3>1
  <2>7. Bytes(prog, i) \cap own = {}
    <3>1. i \notin Before(prog, i, "data")
      BY DEF Before
    <3>2. \A jb \in Bytes(prog, i) : jb[1] \in Before(prog, i, "data")
      BY DEF Bytes
    <3>3. \A jb \in own : jb[1] = i
      OBVIOUS
    <3> HIDE DEF own
    <3> QED BY <3>1, <3>2, <3>3
  <2>8. Cardinality(Bytes(prog, i) \cup own) =
            Cardinality(Bytes(prog, i)) + Cardinality(own)
    <3> HIDE DEF own
    <3>1. IsFiniteSet(Bytes(prog, i))
      BY <1>1, BytesType
    <3>2. /\ Cardinality(Bytes(prog, i)) \in Nat /\ Cardinality(own) \in Nat
          /\ Cardinality({}) = 0
      BY <2>2, <3>1, FS_CardinalityType, FS_EmptySet
    <3>3. Cardinality(Bytes(prog, i) \cup own) =
            Cardinality(Bytes(prog, i)) + Cardinality(own) - Cardinality({})
      BY <2>2, <2>7, <3>1, FS_Union
    <3> QED BY <3>2, <3>3
  <2> QED BY <1>1, <1>2, <2>2, <2>6, <2>8, BytesType
<1>3. CASE prog[i].kind # "data"
  <2>1. Before(prog, i + 1, "data") = Before(prog, i, "data")
    BY <1>3, BeforeStep
  <2> QED BY <1>3, <2>1 DEF OffsetOf
<1> QED BY <1>2, <1>3

\* Data do not overlap.
LEMMA OffsetOrder ==
    ASSUME NEW prog, Program(prog),
           NEW i \in 1..Len(prog) + 1, NEW j \in i..Len(prog) + 1
    PROVE  /\ OffsetOf(prog, i) <= OffsetOf(prog, j)
           /\ i < j /\ prog[i].kind = "data" =>
                OffsetOf(prog, i) + DataSize[prog[i].type] <= OffsetOf(prog, j)
<1> USE DEF Program
<1>1. i \in Nat /\ j \in Nat /\ i <= j /\ j <= Len(prog) + 1
  OBVIOUS
<1>2. ASSUME NEW k \in 1..Len(prog) + 1, k <= j
      PROVE  OffsetOf(prog, k) <= OffsetOf(prog, j)
  <2>1. Bytes(prog, k) \in SUBSET Bytes(prog, j)
    BY <1>1, <1>2 DEF Before, Of, Bytes
  <2>2. /\ IsFiniteSet(Bytes(prog, j))
        /\ OffsetOf(prog, j) = Cardinality(Bytes(prog, j))
        /\ OffsetOf(prog, k) = Cardinality(Bytes(prog, k))
    BY <1>1, BytesType
  <2> QED BY <2>1, <2>2, FS_Subset
<1>3. ASSUME i < j, prog[i].kind = "data"
      PROVE  OffsetOf(prog, i) + DataSize[prog[i].type] <= OffsetOf(prog, j)
  <2>1. i \in 1..Len(prog) /\ i + 1 \in 1..Len(prog) + 1 /\ i + 1 <= j
    BY <1>1, <1>3
  <2> QED BY <1>2, <1>3, <2>1, OffsetStep
<1> QED BY <1>1, <1>2, <1>3

LEMMA EndsOf ==
    ASSUME NEW prog, Program(prog)
    PROVE  /\ SectionOf(prog, 1) = "NONE"
           /\ \A kind : Cardinality(Before(prog, 1, kind)) = 0
           /\ OffsetOf(prog, 1) = 0
<1>1. \A kind : Before(prog, 1, kind) = {}
  BY BeforeEnds
<1>2. Bytes(prog, 1) = {}
  BY <1>1 DEF Bytes
<1> QED BY <1>1, <1>2, BytesType, FS_EmptySet DEF SectionOf

-----------------------------------------------------------------------------
(* Where the lexer stops. *)

LEMMA AdvanceTo ==
    ASSUME NEW text \in Seq(Token), NEW lx, Exact(text, lx), NEW n \in Nat,
           lx.position + n <= Len(text)
    PROVE  Advance(text, lx, n).position = lx.position + n
<1> DEFINE one == NextToken(text, lx)
           end == IF one.position + n - 1 < Len(text) THEN one.position + n - 1
                  ELSE Len(text)
           to == [one EXCEPT !.position = end,
                             !.line = @ + Newlines(text, one.position, end)]
<1>1. lx.position \in Nat /\ Len(text) \in Nat
  BY DEF Exact, LexerState
<1>2. CASE n = 0
  BY <1>1, <1>2 DEF Advance
<1>3. CASE n # 0
  <2>1. one.position = PositionAfter(text, lx.position) /\ one \in LexerState
    BY NextExact DEF Exact
  <2>2. Advance(text, lx, n) = to
    BY <1>3 DEF Advance
  <2> HIDE DEF one
  <2>3. one.position = lx.position + 1
    BY <1>1, <1>3, <2>1 DEF PositionAfter
  <2>4. end = lx.position + n
    BY <1>1, <1>3, <2>3
  <2> HIDE DEF end
  <2>5. to.position = end
    BY <2>1 DEF LexerState
  <2> HIDE DEF to
  <2> QED BY <2>2, <2>4, <2>5
<1> QED BY <1>2, <1>3

LEMMA SkipTo ==
    ASSUME NEW text \in Seq(Token), NEW lx, Exact(text, lx),
           NEW r \in lx.position..Len(text), OnlyNewlines(text, lx.position, r),
           ReadToken(text, r).type # "Newline"
    PROVE  SkipNewlines(text, lx).position = r
<1> DEFINE Stops(p) ==
             /\ ReadToken(text, p).type # "Newline"
             /\ \A q \in lx.position + 1..p : text[q].type = "Newline"
           stop == CHOOSE p \in lx.position..Len(text) : Stops(p)
<1>1. lx.position \in Nat /\ Len(text) \in Nat /\ r \in Nat
  BY DEF Exact, LexerState
<1>2. Stops(r)
  BY DEF OnlyNewlines
<1>3. stop \in lx.position..Len(text) /\ Stops(stop)
  <2> HIDE DEF Stops
  <2> QED BY <1>2
<1> HIDE DEF stop
<1>4. ASSUME NEW p \in lx.position..Len(text), NEW q \in lx.position..Len(text),
             Stops(p), Stops(q), p < q
      PROVE  FALSE
  <2>1. p + 1 \in lx.position + 1..q /\ p < Len(text) /\ p \in Nat
    BY <1>1, <1>4
  <2>2. text[p + 1].type = "Newline"
    BY <1>4, <2>1
  <2> QED BY <1>4, <2>1, <2>2 DEF ReadToken
<1>5. stop = r
  <2> HIDE DEF Stops
  <2>1. ~(stop < r) /\ ~(r < stop)
    BY <1>2, <1>3, <1>4
  <2> QED BY <1>1, <1>3, <2>1
<1>6. Advance(text, lx, r - lx.position).position = r
  <2>1. r - lx.position \in Nat /\ lx.position + (r - lx.position) = r
    BY <1>1
  <2>2. lx.position + (r - lx.position) <= Len(text)
    BY <1>1
  <2> QED BY <2>1, <2>2, AdvanceTo
<1>7. SkipNewlines(text, lx) = Peek(text, Advance(text, lx, stop - lx.position))
  BY DEF SkipNewlines, stop
<1>8. Exact(text, Advance(text, lx, r - lx.position))
  <2>1. r - lx.position \in Nat
    BY <1>1
  <2> QED BY <2>1, AdvanceExact
<1> QED BY <1>5, <1>6, <1>7, <1>8, PeekExact

\* The k-th token that next() will return is the k-th one from the cursor on.
LEMMA UpcomingAt ==
    ASSUME NEW c, Text(c) \in Seq(Token), Exact(Text(c), lexer[c]),
           NEW k \in Nat \ {0}
    PROVE  T(c, k) = At(Text(c), lexer[c].position, k)
<1> DEFINE text == Text(c)
           p == lexer[c].position
<1>1. p \in Nat /\ Len(text) \in Nat /\ p <= Len(text)
  BY DEF Exact, CursorExact, LexerState
<1>2. CASE k = 1
  BY <1>1, <1>2, AheadExact DEF T, Upcoming, At
<1>3. CASE k # 1
  <2>1. T(c, k) = ReadToken(text, PositionAfter(text, p) + k - 2)
    BY <1>3, NextExact DEF T, Upcoming
  <2> HIDE DEF text, p
  <2>2. CASE p < Len(text)
    <3>1. PositionAfter(text, p) + k - 2 = p + k - 1
      BY <1>1, <2>2 DEF PositionAfter
    <3> QED BY <2>1, <3>1 DEF At, text, p
  <2>3. CASE ~(p < Len(text))
    <3>1. /\ ~(PositionAfter(text, p) + k - 2 < Len(text))
          /\ ~(p + k - 1 < Len(text))
      BY <1>1, <1>3, <2>3 DEF PositionAfter
    <3>2. ReadToken(text, PositionAfter(text, p) + k - 2) = ReadToken(text, p + k - 1)
      BY <3>1 DEF ReadToken
    <3> QED BY <2>1, <3>2 DEF At, text, p
  <2> QED BY <2>2, <2>3
<1> QED BY <1>2, <1>3

-----------------------------------------------------------------------------
(* What the parser sees is what is written. *)

\* A piece of text that the lexer of c stands before.
LEMMA FollowAt ==
    ASSUME Reading, NEW c \in Callers, NEW types, DOMAIN types \in SUBSET (Nat \ {0})
    PROVE  Follow(c, types) <=> Tokens(Text(c), lexer[c].position, types)
<1>1. ASSUME NEW k \in DOMAIN types
      PROVE  T(c, k) = At(Text(c), lexer[c].position, k)
  BY UpcomingAt DEF Reading
<1> QED BY <1>1 DEF Follow, Tokens

LEMMA ParserView ==
    ASSUME Reading, NEW c \in Callers
    PROVE  LET text == Text(c)  p == lexer[c].position IN
           /\ AtEnd(c) <=> p = Len(text)
           /\ AtSection(c) <=> SectionAt(text, p)
           /\ AtLabel(c) <=> section = "CODE" /\ LabelAt(text, p)
           /\ AtData(c) <=> section = "DATA" /\ DataAt(text, p)
<1> DEFINE text == Text(c)
           p == lexer[c].position
<1>1. ASSUME NEW k \in {1, 2, 3} PROVE T(c, k) = At(text, p, k)
  <2>1. k \in Nat \ {0} /\ text \in Seq(Token) /\ Exact(text, lexer[c])
    BY DEF Reading
  <2> QED BY <2>1, UpcomingAt
<1>2. /\ Follow(c, <<"Identifier", "Colon">>) <=> ColonAt(text, p)
      /\ Follow(c, <<"Identifier", "Identifier", "Number">>) <=>
            Tokens(text, p, <<"Identifier", "Identifier", "Number">>)
  <2>1. /\ DOMAIN <<"Identifier", "Colon">> = {1, 2}
        /\ DOMAIN <<"Identifier", "Identifier", "Number">> = {1, 2, 3}
    OBVIOUS
  <2> QED BY <2>1, FollowAt DEF ColonAt
<1>3. AtEnd(c) <=> p = Len(text)
  <2>1. text \in Seq(Token) /\ p \in 0..Len(text)
    BY DEF Reading, Exact, CursorExact
  <2>2. T(c, 1) = ReadToken(text, p)
    BY <1>1, <2>1 DEF At
  <2> HIDE DEF text, p
  <2>3. CASE p < Len(text)
    <3>1. p + 1 \in 1..Len(text)
      BY <2>1, <2>3
    <3>2. text[p + 1] \in Token
      BY <2>1, <3>1
    <3> QED BY <2>1, <2>2, <2>3, <3>2 DEF AtEnd, ReadToken, Token
  <2>4. CASE p = Len(text)
    <3>1. ~(p < Len(text))
      BY <2>1, <2>4
    <3>2. T(c, 1) = EndToken
      BY <2>2, <3>1 DEF ReadToken
    <3>3. EndToken.type = "End"
      BY DEF EndToken, Tok
    <3>4. T(c, 1).type = "End"
      BY <3>2, <3>3
    <3> QED BY <2>4, <3>4 DEF AtEnd
  <2> QED BY <2>1, <2>3, <2>4
<1> HIDE DEF text, p
<1>4. AtSection(c) <=> SectionAt(text, p)
  BY <1>1, <1>2 DEF AtSection, SectionAt
<1>5. AtLabel(c) <=> section = "CODE" /\ LabelAt(text, p)
  BY <1>2, <1>4 DEF AtLabel, LabelAt
<1>6. AtData(c) <=> section = "DATA" /\ DataAt(text, p)
  BY <1>1, <1>2 DEF AtData, DataAt
<1> QED BY <1>3, <1>4, <1>5, <1>6 DEF text, p

\* The mnemonics are none of the names of data types.
LEMMA DataNoForms ==
    ASSUME NEW m \in DOMAIN DataSize
    PROVE  Forms(m) = {}
<1>1. m \in {"BYTE", "DBYTE", "WORD", "QWORD"}
  BY DEF DataSize
<1> QED BY <1>1 DEF Forms, Branches, Unary

\* The shapes of a mnemonic, rule by rule.
LEMMA ShapeRules ==
    ASSUME NEW m, NEW f
    PROVE  f \in Shapes(m) <=>
             \/ m \in {"halt", "ret"} /\ f = <<>>
             \/ m \in {"inc", "dec", "not", "push", "pop"} /\ f = <<"Register">>
             \/ m = "push" /\ f = <<"Number">>
             \/ m \in Branches \cup {"push", "call"} /\ f = <<"Identifier">>
             \/ m = "call" /\ f = WithNumber("Identifier")
             \/ m = "call" /\ f = WithMemory("Identifier")
             \/ m \in TwoOperands /\ f = <<"Register", "Comma", "Register">>
             \/ m \in TwoOperands \cup {"load", "store"} /\ f = WithNumber("Register")
             \/ m \in {"mov", "load", "store"} /\ f = WithMemory("Register")
<1>1. f \in Shapes(m) <=> \E rule \in Grammar : m \in rule.of /\ f = rule.shape
  BY DEF Shapes
<1> QED BY <1>1 DEF Grammar, Branches, WithNumber, WithMemory

LEMMA DataNoShapes ==
    ASSUME NEW m \in DOMAIN DataSize
    PROVE  Shapes(m) = {}
<1>1. m \in {"BYTE", "DBYTE", "WORD", "QWORD"}
  BY DEF DataSize
<1> QED BY <1>1, ShapeRules DEF Branches, TwoOperands

\* The parser has the instructions of the language but for system calls without
\* an argument, and until it emits them also some that make no sense.
LEMMA FormsShapes ==
    ASSUME NEW m, NEW f
    PROVE  /\ f \in Shapes(m) /\ ~BareCall(m, f) => f \in Forms(m)
           /\ f \in Forms(m) =>
                (f \in Shapes(m) <=>
                    (HasMemory(f) => m \in {"mov", "load", "store", "call"}))
           /\ f \in Forms(m) => ~BareCall(m, f)
<1>1. /\ Len(<<>>) # 5 /\ Len(<<"Register">>) # 5 /\ Len(<<"Number">>) # 5
      /\ Len(<<"Identifier">>) # 5 /\ Len(<<"Register", "Comma", "Register">>) # 5
      /\ \A r : Len(WithNumber(r)) # 5 /\ Len(WithMemory(r)) = 5
  BY DEF WithNumber, WithMemory
<1>2. CASE f \in Forms(m)
  <2>1. CASE m \in TwoOperands
    BY <1>1, <1>2, <2>1, ShapeRules
    DEF Forms, TwoOperands, HasMemory, Branches, Unary, BareCall
  <2>2. CASE m \in {"halt", "ret", "push"} \cup Branches \cup Unary
    BY <1>1, <1>2, <2>2, ShapeRules
    DEF Forms, HasMemory, Branches, Unary, BareCall
  <2>3. CASE m = "call"
    <3>1. f = WithMemory("Identifier") \/ f = WithNumber("Identifier")
      BY <1>2, <2>3 DEF Forms, Branches, Unary
    <3>2. f # <<"Identifier">>
      <4>1. Len(<<"Identifier">>) = 1 /\ Len(f) \in {3, 5}
        BY <3>1 DEF WithNumber, WithMemory
      <4> QED BY <4>1
    <3> QED BY <1>2, <2>3, <3>1, <3>2, ShapeRules DEF BareCall
  <2>4. CASE m \in {"load", "store"}
    BY <1>1, <1>2, <2>4, ShapeRules
    DEF Forms, Branches, Unary, BareCall
  <2>5. m \in TwoOperands \cup {"halt", "ret", "push", "call", "load", "store"}
            \cup Branches \cup Unary
    BY <1>2 DEF Forms, TwoOperands
  <2> QED BY <2>1, <2>2, <2>3, <2>4, <2>5
<1>3. CASE f \in Shapes(m) /\ ~BareCall(m, f)
  BY <1>1, <1>3, ShapeRules
  DEF Forms, TwoOperands, HasMemory, Branches, Unary, BareCall
<1> QED BY <1>2, <1>3

\* The tokens of an instruction.
LEMMA FormTokens ==
    ASSUME NEW text, NEW p, NEW form \in FormsAt(text, p)
    PROVE  /\ form \in Seq(TokenTypes) /\ Len(form) \in Nat
           /\ At(text, p, 1).type = "Identifier"
           /\ \A k \in 1..Len(form) : At(text, p, k + 1).type = form[k]
<1>1. form \in Seq(TokenTypes) /\ Len(form) \in Nat
  BY FormsType DEF FormsAt
<1>2. <<"Identifier">> \in Seq(TokenTypes)
  BY DEF TokenTypes
<1> DEFINE types == <<"Identifier">> \o form
<1>3. /\ DOMAIN types = 1..Len(form) + 1 /\ types[1] = "Identifier"
      /\ \A k \in 1..Len(form) : k + 1 \in DOMAIN types /\ types[k + 1] = form[k]
  BY <1>1, <1>2
<1>4. \A k \in DOMAIN types : At(text, p, k).type = types[k]
  BY DEF FormsAt, Carries, Tokens
<1> HIDE DEF types
<1>5. 1 \in DOMAIN types
  BY <1>1, <1>3
<1> QED BY <1>1, <1>3, <1>4, <1>5

\* No two forms of a mnemonic are alike as far as the shorter one goes.
LEMMA FormsApart ==
    ASSUME NEW m, NEW f \in Forms(m), NEW g \in Forms(m), f # g
    PROVE  \E k \in Nat \ {0} : k <= Len(f) /\ k <= Len(g) /\ f[k] # g[k]
<1>1. CASE m = "push"
  <2>1. f[1] # g[1] /\ Len(f) = 1 /\ Len(g) = 1
    BY <1>1 DEF Forms
  <2> QED BY <2>1
<1>2. CASE m # "push"
  <2>1. PICK r \in {"Register", "Identifier"} :
          {f, g} \subseteq {WithMemory(r), WithNumber(r),
                            <<"Register", "Comma", "Register">>}
    BY <1>2 DEF Forms
  <2>2. /\ WithMemory(r)[3] = "LBracket" /\ Len(WithMemory(r)) = 5
        /\ WithNumber(r)[3] = "Number" /\ Len(WithNumber(r)) = 3
        /\ <<"Register", "Comma", "Register">>[3] = "Register"
        /\ Len(<<"Register", "Comma", "Register">>) = 3
    BY DEF WithMemory, WithNumber
  <2> DEFINE wm == WithMemory(r)
             wn == WithNumber(r)
             rr == <<"Register", "Comma", "Register">>
  <2>3. /\ wm[3] # wn[3] /\ wn[3] # rr[3] /\ wm[3] # rr[3]
        /\ Len(wm) >= 3 /\ Len(wn) >= 3 /\ Len(rr) >= 3
    BY <2>2
  <2>4. f \in {wm, wn, rr} /\ g \in {wm, wn, rr}
    BY <2>1
  <2> HIDE DEF wm, wn, rr
  <2>5. f[3] # g[3] /\ Len(f) >= 3 /\ Len(g) >= 3
    BY <2>3, <2>4
  <2> QED BY <2>5
<1> QED BY <1>1, <1>2

\* The parser has no choice of operands.
LEMMA OneForm ==
    ASSUME NEW text, NEW p, NEW f \in FormsAt(text, p), NEW g \in FormsAt(text, p)
    PROVE  f = g
<1> SUFFICES ASSUME f # g PROVE FALSE
  OBVIOUS
<1>1. PICK k \in Nat \ {0} : k <= Len(f) /\ k <= Len(g) /\ f[k] # g[k]
  BY FormsApart DEF FormsAt
<1>2. k \in 1..Len(f) /\ k \in 1..Len(g)
  BY <1>1, FormTokens
<1> QED BY <1>1, <1>2, FormTokens

\* What the second pass checks besides the tables.
Sensible(text, p, form) ==
    /\ KnownCall(text, p)
    /\ HasMemory(form) =>
        At(text, p, 1).name \in {"mov", "load", "store", "call"}

\* The operands the parser accepts are those of the instruction that is there,
\* if one is there.
LEMMA FormIsShape ==
    ASSUME NEW text, NEW p, NEW form \in FormsAt(text, p)
    PROVE  /\ Sensible(text, p, form) <=> form \in ShapesAt(text, p)
           /\ \A shape \in ShapesAt(text, p) : shape = form
<1> DEFINE m == At(text, p, 1).name
<1>1. form \in Forms(m) /\ Carries(text, p, form) /\ ~BareCall(m, form)
  BY FormsShapes DEF FormsAt
<1>2. form \in Shapes(m) <=> (HasMemory(form) => m \in {"mov", "load", "store", "call"})
  BY <1>1, FormsShapes
<1>3. ASSUME NEW shape \in ShapesAt(text, p) PROVE shape = form
  <2>1. /\ shape \in Shapes(m) /\ Carries(text, p, shape)
        /\ BareCall(m, shape) => At(text, p, 3).type # "Comma"
    BY DEF ShapesAt
  <2>2. CASE BareCall(m, shape)
    <3>1. form \in {WithMemory("Identifier"), WithNumber("Identifier")}
      BY <1>1, <2>2 DEF Forms, BareCall, Branches, Unary
    <3>2. form[2] = "Comma" /\ 2 \in 1..Len(form)
      BY <3>1 DEF WithMemory, WithNumber
    <3>3. At(text, p, 2 + 1).type = "Comma"
      BY <3>2, FormTokens
    <3> QED BY <2>1, <2>2, <3>3
  <2>3. CASE ~BareCall(m, shape)
    <3>1. shape \in FormsAt(text, p)
      BY <2>1, <2>3, FormsShapes DEF FormsAt
    <3> QED BY <3>1, OneForm
  <2> QED BY <2>2, <2>3
<1> QED BY <1>1, <1>2, <1>3 DEF Sensible, ShapesAt

\* A shape is what follows a mnemonic.
LEMMA ShapeTokens ==
    ASSUME NEW text, NEW p, NEW shape \in ShapesAt(text, p)
    PROVE  /\ At(text, p, 1).type = "Identifier"
           /\ shape = <<"Identifier">> => At(text, p, 2).type = "Identifier"
<1> DEFINE types == <<"Identifier">> \o shape
<1>1. <<"Identifier">> \in Seq(TokenTypes)
  BY DEF TokenTypes
<1>2. shape \in Seq(TokenTypes)
  <2>1. CASE BareCall(At(text, p, 1).name, shape)
    BY <1>1, <2>1 DEF BareCall
  <2>2. CASE ~BareCall(At(text, p, 1).name, shape)
    BY <2>2, FormsShapes, FormsType DEF ShapesAt
  <2> QED BY <2>1, <2>2
<1>3. /\ 1 \in DOMAIN types /\ types[1] = "Identifier"
      /\ shape = <<"Identifier">> => 2 \in DOMAIN types /\ types[2] = "Identifier"
  BY <1>1, <1>2
<1>4. \A k \in DOMAIN types : At(text, p, k).type = types[k]
  BY DEF ShapesAt, Carries, Tokens
<1> HIDE DEF types
<1> QED BY <1>3, <1>4

\* The statement that is written at p is the only kind of statement there.
LEMMA StatementAt ==
    ASSUME NEW text, NEW p, NEW q, NEW st, Written(text, p, q, st)
    PROVE  /\ SectionAt(text, p) <=> st.kind = "section"
           /\ LabelAt(text, p) <=> st.kind = "label"
           /\ DataAt(text, p) <=> st.kind = "data"
           /\ st.kind \in {"section", "label", "data"} => FormsAt(text, p) = {}
           /\ At(text, p, 1).type # "Newline"
<1>1. ColonAt(text, p) =>
        ~DataAt(text, p) /\ FormsAt(text, p) = {} /\ ShapesAt(text, p) = {}
  <2>1. ColonAt(text, p) => At(text, p, 2).type = "Colon"
    BY DEF ColonAt, Tokens
  <2>2. DataAt(text, p) => At(text, p, 2).type = "Identifier"
    BY DEF DataAt, Tokens
  <2> QED BY <2>1, <2>2 DEF FormsAt, ShapesAt, Carries
<1>2. DataAt(text, p) => FormsAt(text, p) = {} /\ ShapesAt(text, p) = {}
  BY DataNoForms, DataNoShapes DEF DataAt, FormsAt, ShapesAt
<1>3. /\ SectionAt(text, p) => ColonAt(text, p) /\ ~LabelAt(text, p)
      /\ LabelAt(text, p) => ColonAt(text, p)
      /\ ShapesAt(text, p) # {} => ~ColonAt(text, p) /\ ~DataAt(text, p)
  BY <1>1, <1>2 DEF SectionAt, LabelAt
<1>4. /\ ColonAt(text, p) => At(text, p, 1).type = "Identifier"
      /\ DataAt(text, p) => At(text, p, 1).type = "Identifier"
      /\ ShapesAt(text, p) # {} => At(text, p, 1).type = "Identifier"
  <2>1. ASSUME NEW shape \in ShapesAt(text, p)
        PROVE  At(text, p, 1).type = "Identifier"
    BY ShapeTokens
  <2> QED BY <2>1 DEF ColonAt, DataAt, Tokens
<1>5. \/ st.kind = "section" /\ SectionAt(text, p)
      \/ st.kind = "label" /\ LabelAt(text, p)
      \/ st.kind = "data" /\ DataAt(text, p)
      \/ st.kind = "instr" /\ ShapesAt(text, p) # {}
      \/ /\ st.kind = "junk" /\ At(text, p, 1).type # "Newline"
         /\ ~(SectionAt(text, p) \/ LabelAt(text, p) \/ DataAt(text, p))
  BY DEF Written
<1> QED BY <1>1, <1>2, <1>3, <1>4, <1>5

-----------------------------------------------------------------------------
(* The parser at a statement. *)

\* The lexer of c stands before statement i, or at the end.
Stands(c, i) ==
    /\ source[c] \in Sources /\ i \in 1..Len(source[c].prog) + 1
    /\ lexer[c].position = source[c].start[i]

LEMMA WrittenType ==
    ASSUME NEW s \in Sources
    PROVE  /\ Program(s.prog) /\ SourceWritten(s) /\ Len(s.prog) \in Nat
           /\ s.text \in Seq(Token) /\ Len(s.text) \in Nat
           /\ \A i \in 1..Len(s.prog) + 1 : s.start[i] \in 0..Len(s.text)
<1>1. SourceWritten(s)
  BY SourceAssumption
<1>2. Program(s.prog)
  BY <1>1, StatementsProgram DEF SourceWritten
<1>3. s.text \in Seq(Token) /\ Len(s.text) \in Nat
  BY <1>1 DEF SourceWritten
<1>4. s.start \in [1..Len(s.prog) + 1 -> 0..Len(s.text)]
  BY <1>1 DEF SourceWritten
<1>5. Len(s.prog) \in Nat
  BY <1>2 DEF Program
<1> QED BY <1>1, <1>2, <1>3, <1>4, <1>5

\* A statement does not start with a newline, nor does the end.
LEMMA StartToken ==
    ASSUME NEW s \in Sources, NEW i \in 1..Len(s.prog) + 1
    PROVE  /\ ReadToken(s.text, s.start[i]).type # "Newline"
           /\ s.start[i] = Len(s.text) <=> i = Len(s.prog) + 1
<1> USE WrittenType
<1>1. Len(s.prog) \in Nat /\ Len(s.text) \in Nat
  OBVIOUS
<1>2. CASE i = Len(s.prog) + 1
  <2>1. s.start[i] = Len(s.text)
    BY <1>2 DEF SourceWritten
  <2>2. ~(Len(s.text) < Len(s.text))
    BY <1>1
  <2>3. ReadToken(s.text, s.start[i]) = EndToken
    BY <2>1, <2>2 DEF ReadToken
  <2>4. EndToken.type = "End"
    BY DEF EndToken, Tok
  <2> QED BY <1>2, <2>1, <2>3, <2>4
<1>3. CASE i # Len(s.prog) + 1
  <2>1. i \in 1..Len(s.prog) /\ i + 1 \in 1..Len(s.prog) + 1
    BY <1>1, <1>3
  <2>2. PICK q \in s.start[i] + 1..s.start[i + 1] :
          Written(s.text, s.start[i], q, s.prog[i])
    BY <2>1 DEF SourceWritten
  <2>3. s.start[i] \in 0..Len(s.text) /\ s.start[i + 1] \in 0..Len(s.text)
    BY <2>1
  <2>4. s.start[i] # Len(s.text) /\ s.start[i] + 1 - 1 = s.start[i]
    BY <1>1, <2>2, <2>3
  <2> QED BY <1>3, <2>2, <2>4, StatementAt DEF At
<1> QED BY <1>2, <1>3

\* The operands that the parser accepts are operands that are there.
LEMMA FormsSeen ==
    ASSUME Reading, NEW c \in Callers, AtInstruction(c),
           NEW form \in InstructionForms(c)
    PROVE  form \in FormsAt(Text(c), lexer[c].position)
<1> DEFINE p == lexer[c].position
<1>1. /\ form \in Forms(T(c, 1).name) /\ Legal(c, form)
      /\ Follow(c, <<"Identifier">> \o form)
  BY DEF InstructionForms
<1>2. form \in Seq(TokenTypes) /\ Len(form) \in Nat
  BY <1>1, FormsType
<1>3. DOMAIN (<<"Identifier">> \o form) \in SUBSET (Nat \ {0})
  <2>1. <<"Identifier">> \in Seq(TokenTypes)
    BY DEF TokenTypes
  <2>2. <<"Identifier">> \o form \in Seq(TokenTypes)
    BY <1>2, <2>1
  <2> QED BY <2>2
<1>4. Tokens(Text(c), p, <<"Identifier">> \o form)
  BY <1>1, <1>3, FollowAt
<1>5. ~ColonAt(Text(c), p)
  BY ParserView DEF AtInstruction, LabelAt
<1>6. ASSUME NEW k \in 2..Len(form) + 1 PROVE T(c, k) = At(Text(c), p, k)
  <2>1. k \in Nat \ {0}
    BY <1>2
  <2> QED BY <2>1, UpcomingAt DEF Reading
<1>7. T(c, 1) = At(Text(c), p, 1)
  <2>1. 1 \in Nat \ {0}
    OBVIOUS
  <2> QED BY <2>1, UpcomingAt DEF Reading
<1> QED BY <1>1, <1>4, <1>5, <1>6, <1>7 DEF Legal, FormsAt, Carries

\* What the parser sees tells the kind of statement i.
LEMMA KindSeen ==
    ASSUME Reading, NEW c \in Callers, NEW i, Stands(c, i)
    PROVE  LET prog == source[c].prog
               here == i \in 1..Len(prog) /\ i + 1 \in 1..Len(prog) + 1
           IN  /\ AtEnd(c) <=> i = Len(prog) + 1
               /\ AtEnd(c) \/ here
               /\ AtSection(c) <=> here /\ prog[i].kind = "section"
               /\ AtLabel(c) <=>
                    here /\ prog[i].kind = "label" /\ section = "CODE"
               /\ AtData(c) <=>
                    here /\ prog[i].kind = "data" /\ section = "DATA"
               /\ AtInstruction(c) =>
                    here /\ prog[i].kind \in {"instr", "junk"} /\ section = "CODE"
               /\ here => prog[i].kind \in
                            {"section", "label", "data", "instr", "junk"}
<1> DEFINE s == source[c]
           prog == source[c].prog
           p == lexer[c].position
           here == i \in 1..Len(prog) /\ i + 1 \in 1..Len(prog) + 1
<1>1. s \in Sources /\ i \in 1..Len(prog) + 1 /\ p = s.start[i]
  BY DEF Stands
<1>2. Len(prog) \in Nat
  BY <1>1, WrittenType
<1>3. AtEnd(c) <=> i = Len(prog) + 1
  BY <1>1, ParserView, StartToken DEF Text
<1>4. AtEnd(c) \/ here
  BY <1>1, <1>2, <1>3
<1>5. AtEnd(c) => ~AtSection(c) /\ ~AtLabel(c) /\ ~AtData(c) /\ ~AtInstruction(c)
  <2>1. AtSection(c) \/ AtLabel(c) \/ AtData(c) => T(c, 1).type = "Identifier"
    BY DEF AtSection, AtLabel, AtData, Follow
  <2>2. AtInstruction(c) => T(c, 1).type = "Identifier"
    BY InstructionAhead DEF AtInstruction, T, Upcoming
  <2> QED BY <2>1, <2>2 DEF AtEnd
<1>6. ASSUME here
      PROVE  \E q : Written(Text(c), p, q, prog[i])
  <2>1. SourceWritten(s)
    BY <1>1, WrittenType
  <2>2. \E q : Written(s.text, s.start[i], q, prog[i])
    BY <1>6, <2>1 DEF SourceWritten
  <2> QED BY <1>1, <2>2 DEF Text
<1>7. ASSUME here
      PROVE  /\ SectionAt(Text(c), p) <=> prog[i].kind = "section"
             /\ LabelAt(Text(c), p) <=> prog[i].kind = "label"
             /\ DataAt(Text(c), p) <=> prog[i].kind = "data"
             /\ prog[i].kind \in {"section", "label", "data", "instr", "junk"}
  <2>1. PICK q : Written(Text(c), p, q, prog[i])
    BY <1>6, <1>7
  <2>2. prog[i].kind \in {"section", "label", "data", "instr", "junk"}
    BY <2>1 DEF Written
  <2> HIDE DEF prog, p
  <2> QED BY <2>1, <2>2, StatementAt
<1>8. /\ AtSection(c) <=> SectionAt(Text(c), p)
      /\ AtLabel(c) <=> section = "CODE" /\ LabelAt(Text(c), p)
      /\ AtData(c) <=> section = "DATA" /\ DataAt(Text(c), p)
  BY ParserView
<1>9. AtInstruction(c) => /\ section = "CODE" /\ ~AtSection(c) /\ ~AtLabel(c)
                          /\ InstructionForms(c) \in SUBSET FormsAt(Text(c), p)
  BY FormsSeen DEF AtInstruction
<1>10. AtInstruction(c) /\ here => prog[i].kind \in {"instr", "junk"}
  <2>1. ASSUME AtInstruction(c), here PROVE FormsAt(Text(c), p) # {}
    BY <1>9, <2>1 DEF AtInstruction
  <2>2. ASSUME here, prog[i].kind \in {"section", "label", "data"}
        PROVE  FormsAt(Text(c), p) = {}
    BY <1>6, <2>2, StatementAt
  <2> QED BY <1>7, <2>1, <2>2
<1> HIDE DEF here
<1> QED BY <1>3, <1>4, <1>5, <1>7, <1>8, <1>9, <1>10 DEF here

\* A statement that the parser accepts takes its lexer to the next one.
LEMMA NextStatement ==
    ASSUME Reading, NEW c \in Callers, NEW i, Stands(c, i),
           \/ SwitchSection(c) \/ DefineData(c)
           \/ DefineLabel(c) \/ ParseInstruction(c)
    PROVE  /\ Stands(c, i + 1)'
           /\ i \in 1..Len(source[c].prog)
<1> DEFINE s == source[c]
           text == s.text
           p == lexer[c].position
<1>1. /\ s \in Sources /\ p = s.start[i] /\ text = Text(c)
      /\ lexer = [d \in Callers |-> lexer[d]]
  BY DEF Stands, Text, Reading
<1>2. i \in 1..Len(s.prog) /\ i + 1 \in 1..Len(s.prog) + 1
  BY KindSeen DEF SwitchSection, DefineData, DefineLabel, ParseInstruction
<1>3. /\ text \in Seq(Token) /\ Len(text) \in Nat /\ p \in 0..Len(text)
      /\ s.start[i + 1] \in 0..Len(text) /\ SourceWritten(s)
  BY <1>1, <1>2, WrittenType
<1>4. PICK q \in p + 1..s.start[i + 1] :
        /\ Written(text, p, q, s.prog[i])
        /\ OnlyNewlines(text, q, s.start[i + 1])
  BY <1>1, <1>2, <1>3 DEF SourceWritten
<1>5. Exact(text, lexer[c])
  BY <1>1 DEF Reading
<1>6. ASSUME NEW lx, Exact(text, lx), lx.position = q, LexerAt(c, lx),
             UNCHANGED source
      PROVE  Stands(c, i + 1)'
  <2>1. s.start[i + 1] \in q..Len(text)
    BY <1>3, <1>4
  <2>2. ReadToken(text, s.start[i + 1]).type # "Newline"
    BY <1>1, <1>2, StartToken
  <2>3. SkipNewlines(text, lx).position = s.start[i + 1]
    BY <1>3, <1>4, <1>6, <2>1, <2>2, SkipTo
  <2>4. lexer'[c] = SkipNewlines(text, lx)
    BY <1>1, <1>6 DEF LexerAt
  <2> QED BY <1>1, <1>2, <1>6, <2>3, <2>4 DEF Stands
<1>7. ASSUME NEW n \in Nat, q = p + n
      PROVE  /\ Exact(text, Advance(text, lexer[c], n))
             /\ Advance(text, lexer[c], n).position = q
  <2>1. p + n <= Len(text)
    BY <1>3, <1>4, <1>7
  <2> QED BY <1>3, <1>5, <1>7, <2>1, AdvanceTo, AdvanceExact
<1>8. CASE SwitchSection(c)
  <2>1. s.prog[i].kind = "section"
    BY <1>8, KindSeen DEF SwitchSection
  <2>2. q = p + 2
    BY <1>4, <2>1 DEF Written
  <2> QED BY <1>1, <1>2, <1>6, <1>7, <1>8, <2>2 DEF SwitchSection
<1>9. CASE DefineData(c)
  <2>1. s.prog[i].kind = "data"
    BY <1>9, KindSeen DEF DefineData
  <2>2. q = p + 3
    BY <1>4, <2>1 DEF Written
  <2> QED BY <1>1, <1>2, <1>6, <1>7, <1>9, <2>2 DEF DefineData
<1>10. CASE DefineLabel(c)
  <2>1. s.prog[i].kind = "label"
    BY <1>10, KindSeen DEF DefineLabel
  <2>2. q = p + 2
    BY <1>4, <2>1 DEF Written
  <2>3. /\ Exact(text, AfterLabel(c))
        /\ AfterLabel(c).position = PositionAfter(text, PositionAfter(text, p))
    <3> DEFINE one == NextToken(text, lexer[c])
               two == Peek(text, one)
    <3>1. Exact(text, one) /\ one.position = PositionAfter(text, p)
      BY <1>3, <1>5, NextExact
    <3> HIDE DEF one
    <3>2. Exact(text, two) /\ two.position = PositionAfter(text, p)
      BY <1>3, <3>1, PeekExact
    <3> HIDE DEF two
    <3>3. text \in Seq(Token)
      BY <1>3
    <3>4. /\ Exact(text, NextToken(text, two))
          /\ NextToken(text, two).position = PositionAfter(text, two.position)
      <4> HIDE DEF text, p
      <4> QED BY <3>2, <3>3, NextExact
    <3> QED BY <1>1, <3>2, <3>4 DEF AfterLabel, one, two
  <2>4. AfterLabel(c).position = q
    BY <1>3, <1>4, <2>2, <2>3 DEF PositionAfter
  <2> QED BY <1>2, <1>6, <1>10, <2>3, <2>4 DEF DefineLabel
<1>11. CASE ParseInstruction(c)
  <2>1. PICK form \in InstructionForms(c) :
          LexerAt(c, Advance(Text(c), AtMnemonic(c), Len(form) + 1))
    BY <1>11 DEF ParseInstruction
  <2>2. AtInstruction(c) /\ s.prog[i].kind \in {"instr", "junk"}
    BY <1>11, KindSeen DEF ParseInstruction
  <2>3. form \in FormsAt(text, p) /\ Len(form) \in Nat
    BY <1>1, <2>2, FormsSeen, InstructionAhead
  <2>4. q = p + Len(form) + 1
    <3>1. CASE s.prog[i].kind = "instr"
      <4>1. PICK shape \in ShapesAt(text, p) : q = p + Len(shape) + 1
        BY <1>4, <3>1 DEF Written
      <4> QED BY <2>3, <4>1, FormIsShape
    <3>2. CASE s.prog[i].kind = "junk"
      BY <1>4, <2>3, <3>2 DEF Written
    <3> QED BY <2>2, <3>1, <3>2
  <2>5. Exact(text, AtMnemonic(c)) /\ AtMnemonic(c).position = p
    <3>1. Ahead(text, lexer[c]).type # "Newline"
      BY <1>1, InstructionAhead
    <3>2. Exact(text, AtMnemonic(c))
      BY <1>1, <1>3, <1>5, <3>1, RestoreExact DEF AtMnemonic
    <3>3. Exact(text, Peek(text, NextToken(text, lexer[c])))
      BY <1>3, <1>5, NextExact, PeekExact
    <3>4. AtMnemonic(c).position = p
      BY <1>1, <3>3 DEF AtMnemonic, Restore, Mark, Exact, LexerState
    <3> QED BY <3>2, <3>4
  <2>6. p + (Len(form) + 1) <= Len(text) /\ Len(form) + 1 \in Nat
    <3> HIDE DEF p, text, s
    <3> QED BY <1>3, <1>4, <2>3, <2>4
  <2>7. /\ Exact(text, Advance(text, AtMnemonic(c), Len(form) + 1))
        /\ Advance(text, AtMnemonic(c), Len(form) + 1).position = q
    <3>1. p + (Len(form) + 1) = q
      <4> HIDE DEF p, text, s
      <4> QED BY <1>3, <2>3, <2>4
    <3>2. text \in Seq(Token)
      BY <1>3
    <3> DEFINE n == Len(form) + 1
    <3> HIDE DEF text, p, n
    <3>3. n \in Nat /\ AtMnemonic(c).position + n <= Len(text)
      BY <2>5, <2>6 DEF n
    <3>4. Exact(text, Advance(text, AtMnemonic(c), n))
      BY <2>5, <3>2, <3>3, AdvanceExact
    <3>5. Advance(text, AtMnemonic(c), n).position = AtMnemonic(c).position + n
      BY <2>5, <3>2, <3>3, AdvanceTo
    <3> QED BY <2>5, <3>1, <3>4, <3>5 DEF n
  <2>8. UNCHANGED source
    BY <1>11 DEF ParseInstruction
  <2> QED BY <1>1, <1>2, <1>6, <2>1, <2>7, <2>8
<1> QED BY <1>2, <1>8, <1>9, <1>10, <1>11

-----------------------------------------------------------------------------
(* The tables, as a function of how far the parser has read. *)

\* The address that the parser counts for statement i: until the second pass
\* refuses it, junk may pass for an instruction.
Slot(prog, i) == AddressOf(prog, i) + Cardinality(Before(prog, i, "junk"))

\* The labels entered when the first pass has read the statements before seen
\* and the pass that is running those before i.
LabelsKnown(prog, i, seen, labs) ==
    labs = [n \in {prog[j].name : j \in Before(prog, seen, "label")} |->
                Slot(prog, LabelDef(prog, i, n))]

\* Reading statement i moves the first pass on; the second one has seen it all.
Reads(prog, i, seen, seen2) ==
    \/ seen = i /\ seen2 = i + 1
    \/ seen = Len(prog) + 1 /\ seen2 = seen

\* The statements of data entered then, numbered as they come.
Nth(prog, j) == Cardinality(Before(prog, j, "data")) + 1
SymbolOf(prog, j) == [name |-> prog[j].name, type |-> prog[j].type,
                      value |-> Literal(prog[j].val), offset |-> OffsetOf(prog, j)]
SymbolsKnown(prog, seen, syms, offset) ==
    /\ Len(syms) = Cardinality(Before(prog, seen, "data"))
    /\ \A j \in Before(prog, seen, "data") :
            Nth(prog, j) \in 1..Len(syms) /\ syms[Nth(prog, j)] = SymbolOf(prog, j)
    /\ \A k \in 1..Len(syms) : \E j \in Before(prog, seen, "data") : Nth(prog, j) = k
    /\ offset = OffsetOf(prog, seen)

LEMMA SlotStep ==
    ASSUME NEW prog, Program(prog), NEW i \in 1..Len(prog)
    PROVE  /\ Slot(prog, i) \in Nat
           /\ Slot(prog, i + 1) =
                IF prog[i].kind \in {"instr", "junk"} THEN Slot(prog, i) + 1
                ELSE Slot(prog, i)
<1>1. i \in Nat
  BY DEF Program
<1>2. /\ AddressOf(prog, i) \in Nat
      /\ Cardinality(Before(prog, i, "junk")) \in Nat
  BY <1>1, BeforeType DEF AddressOf
<1>3. AddressOf(prog, i + 1) =
        AddressOf(prog, i) + (IF prog[i].kind = "instr" THEN 1 ELSE 0)
  BY CountStep DEF AddressOf
<1>4. Cardinality(Before(prog, i + 1, "junk")) =
        Cardinality(Before(prog, i, "junk"))
            + (IF prog[i].kind = "junk" THEN 1 ELSE 0)
  BY CountStep
<1> DEFINE a == AddressOf(prog, i)
           j == Cardinality(Before(prog, i, "junk"))
<1> HIDE DEF a, j
<1>5. CASE prog[i].kind = "instr"
  BY <1>2, <1>3, <1>4, <1>5 DEF Slot, a, j
<1>6. CASE prog[i].kind = "junk"
  BY <1>2, <1>3, <1>4, <1>6 DEF Slot, a, j
<1>7. CASE prog[i].kind \notin {"instr", "junk"}
  BY <1>2, <1>3, <1>4, <1>7 DEF Slot, a, j
<1> QED BY <1>5, <1>6, <1>7, <1>2 DEF Slot

LEMMA LabelsStep ==
    ASSUME NEW prog, Program(prog), NEW i \in 1..Len(prog), NEW seen, NEW seen2,
           Reads(prog, i, seen, seen2), NEW labs, LabelsKnown(prog, i, seen, labs)
    PROVE  /\ prog[i].kind # "label" => LabelsKnown(prog, i + 1, seen2, labs)
           /\ prog[i].kind = "label" =>
                LabelsKnown(prog, i + 1, seen2,
                    [n \in DOMAIN labs \cup {prog[i].name} |->
                        IF n = prog[i].name THEN Slot(prog, i) ELSE labs[n]])
<1> DEFINE Names(k) == {prog[j].name : j \in Before(prog, k, "label")}
           name == prog[i].name
<1>1. CASE prog[i].kind # "label"
  <2>1. Before(prog, seen2, "label") = Before(prog, seen, "label")
    <3>1. Before(prog, i + 1, "label") = Before(prog, i, "label")
      BY <1>1, BeforeStep
    <3> QED BY <3>1 DEF Reads
  <2>2. \A n : LabelDef(prog, i + 1, n) = LabelDef(prog, i, n)
    BY <1>1, LabelDefStep
  <2> QED BY <1>1, <2>1, <2>2 DEF LabelsKnown
<1>2. CASE prog[i].kind = "label"
  <2>1. Names(seen2) = Names(seen) \cup {name}
    <3>1. CASE seen = i /\ seen2 = i + 1
      <4>1. Before(prog, seen2, "label") = Before(prog, seen, "label") \cup {i}
        BY <1>2, <3>1, BeforeStep, SMTT(30)
      <4> QED BY <4>1
    <3>2. CASE seen = Len(prog) + 1 /\ seen2 = seen
      <4>1. i \in Before(prog, seen, "label")
        <5>1. i \in Of(prog, "label")
          BY <1>2 DEF Of, Program
        <5> QED BY <3>2, <5>1, BeforeEnds
      <4> QED BY <3>2, <4>1
    <3> QED BY <3>1, <3>2 DEF Reads
  <2>2. \A n : LabelDef(prog, i + 1, n) =
                    IF n = name THEN i ELSE LabelDef(prog, i, n)
    BY <1>2, LabelDefStep
  <2>3. labs = [n \in Names(seen) |-> Slot(prog, LabelDef(prog, i, n))]
    BY DEF LabelsKnown
  <2>4. DOMAIN labs = Names(seen)
    BY <2>3
  <2> HIDE DEF Names
  <2>5. [n \in DOMAIN labs \cup {name} |->
            IF n = name THEN Slot(prog, i) ELSE labs[n]]
        = [n \in Names(seen2) |-> Slot(prog, LabelDef(prog, i + 1, n))]
    <3>1. ASSUME NEW n \in Names(seen2)
          PROVE  (IF n = name THEN Slot(prog, i) ELSE labs[n])
                    = Slot(prog, LabelDef(prog, i + 1, n))
      <4>1. CASE n = name
        BY <2>2, <4>1
      <4>2. CASE n # name
        BY <2>1, <2>2, <2>3, <4>2
      <4> QED BY <4>1, <4>2
    <3> QED BY <2>1, <2>4, <3>1
  <2> QED BY <1>2, <2>5 DEF LabelsKnown, Names
<1> QED BY <1>1, <1>2

\* The data are numbered in their order.
LEMMA NthOrder ==
    ASSUME NEW prog, Program(prog),
           NEW i \in Of(prog, "data"), NEW j \in Of(prog, "data")
    PROVE  /\ Nth(prog, i) \in Nat \ {0} /\ Nth(prog, j) \in Nat \ {0}
           /\ i < j <=> Nth(prog, i) < Nth(prog, j)
           /\ i = j <=> Nth(prog, i) = Nth(prog, j)
<1>1. /\ i \in 1..Len(prog) /\ j \in 1..Len(prog) /\ Len(prog) \in Nat
      /\ prog[i].kind = "data" /\ prog[j].kind = "data"
  BY DEF Of, Program
<1>2. /\ Cardinality(Before(prog, i, "data")) \in Nat
      /\ Cardinality(Before(prog, j, "data")) \in Nat
  BY <1>1, BeforeType
<1>3. i < j => Nth(prog, i) < Nth(prog, j)
  <2>1. ASSUME i < j PROVE i \in 1..Len(prog) + 1 /\ j \in i..Len(prog) + 1
    BY <1>1, <2>1
  <2> QED BY <1>1, <1>2, <2>1, CountOrder DEF Nth
<1>4. j < i => Nth(prog, j) < Nth(prog, i)
  <2>1. ASSUME j < i PROVE j \in 1..Len(prog) + 1 /\ i \in j..Len(prog) + 1
    BY <1>1, <2>1
  <2> QED BY <1>1, <1>2, <2>1, CountOrder DEF Nth
<1>5. Nth(prog, i) \in Nat \ {0} /\ Nth(prog, j) \in Nat \ {0}
  BY <1>2 DEF Nth
<1> QED BY <1>1, <1>3, <1>4, <1>5

LEMMA SymbolsSame ==
    ASSUME NEW prog, Program(prog), NEW i \in 1..Len(prog),
           prog[i].kind # "data", NEW syms, NEW offset,
           SymbolsKnown(prog, i, syms, offset)
    PROVE  SymbolsKnown(prog, i + 1, syms, offset)
<1>1. Before(prog, i + 1, "data") = Before(prog, i, "data")
  BY BeforeStep
<1>2. OffsetOf(prog, i + 1) = OffsetOf(prog, i)
  BY OffsetStep
<1> QED BY <1>1, <1>2 DEF SymbolsKnown

LEMMA SymbolsAdd ==
    ASSUME NEW prog, Program(prog), NEW i \in 1..Len(prog),
           prog[i].kind = "data", NEW S, NEW syms \in Seq(S), NEW offset,
           SymbolsKnown(prog, i, syms, offset)
    PROVE  SymbolsKnown(prog, i + 1, Append(syms, SymbolOf(prog, i)),
                        offset + DataSize[prog[i].type])
<1> DEFINE old == Before(prog, i, "data")
           new == Append(syms, SymbolOf(prog, i))
<1>1. Before(prog, i + 1, "data") = old \cup {i}
  BY BeforeStep, SMTT(30)
<1>2. OffsetOf(prog, i + 1) = OffsetOf(prog, i) + DataSize[prog[i].type]
  BY OffsetStep
<1>3. Cardinality(Before(prog, i + 1, "data")) = Cardinality(old) + 1
  BY CountStep
<1>4. Len(syms) = Cardinality(old) /\ Len(syms) \in Nat
  BY DEF SymbolsKnown
<1>5. /\ Len(new) = Len(syms) + 1 /\ new[Len(syms) + 1] = SymbolOf(prog, i)
      /\ \A k \in 1..Len(syms) : new[k] = syms[k]
  BY <1>4
<1>6. Nth(prog, i) = Len(syms) + 1
  BY <1>4 DEF Nth
<1> HIDE DEF new
<1>7. ASSUME NEW j \in old \cup {i}
      PROVE  Nth(prog, j) \in 1..Len(new) /\ new[Nth(prog, j)] = SymbolOf(prog, j)
  <2>1. CASE j = i
    BY <1>4, <1>5, <1>6, <2>1
  <2>2. CASE j # i
    <3>1. Nth(prog, j) \in 1..Len(syms) /\ syms[Nth(prog, j)] = SymbolOf(prog, j)
      BY <1>7, <2>2 DEF SymbolsKnown
    <3> QED BY <1>4, <1>5, <3>1
  <2> QED BY <2>1, <2>2
<1>8. ASSUME NEW k \in 1..Len(new)
      PROVE  \E j \in old \cup {i} : Nth(prog, j) = k
  <2>1. CASE k = Len(syms) + 1
    BY <1>6, <2>1
  <2>2. CASE k # Len(syms) + 1
    <3>1. k \in 1..Len(syms)
      BY <1>4, <1>5, <2>2
    <3> QED BY <3>1 DEF SymbolsKnown
  <2> QED BY <2>1, <2>2
<1>9. offset = OffsetOf(prog, i)
  BY DEF SymbolsKnown
<1> HIDE DEF old
<1> QED BY <1>1, <1>2, <1>3, <1>4, <1>5, <1>7, <1>8, <1>9 DEF SymbolsKnown, new

-----------------------------------------------------------------------------
(* Numbers and their bytes. *)

LEMMA Division ==
    ASSUME NEW v \in Int, NEW b \in Nat \ {0}
    PROVE  /\ v \div b \in Int /\ v % b \in 0..b - 1
           /\ v = b * (v \div b) + (v % b)
<1>1. v \div b \in Int
  OBVIOUS
<1>2. v % b \in 0..b - 1
  BY RemainderRange
<1>3. \A w, d \in Int : d > 0 => w = d * (w \div d) + (w % d)
  OBVIOUS
<1>4. b \in Int /\ b > 0
  OBVIOUS
<1>5. v = b * (v \div b) + (v % b)
  BY <1>3, <1>4
<1> QED BY <1>1, <1>2, <1>5

\* Quotient and remainder are the only ones.
LEMMA DivisionIs ==
    ASSUME NEW b \in Nat \ {0}, NEW q \in Int, NEW r \in 0..b - 1
    PROVE  (b * q + r) % b = r
<1> DEFINE v == b * q + r
           w == v % b
           d == (v \div b) - q
<1>1. v \in Int
  OBVIOUS
<1>2. v \div b \in Int /\ w \in 0..b - 1 /\ v = b * (v \div b) + w
  BY <1>1, Division
<1>3. b * d = r - w /\ d \in Int
  BY <1>2
<1> HIDE DEF d, v, w
<1>4. w \in Int /\ r \in Int /\ r - w < b /\ -b < r - w
  BY <1>2
<1>5. ~(d >= 1)
  <2>1. d >= 1 => b * d >= b
    BY <1>3
  <2> QED BY <1>3, <1>4, <2>1
<1>6. ~(d <= -1)
  <2>1. d <= -1 => b * d <= -b
    BY <1>3
  <2> QED BY <1>3, <1>4, <2>1
<1>7. d = 0
  BY <1>3, <1>5, <1>6
<1>8. r = w
  BY <1>3, <1>4, <1>7
<1> QED BY <1>8 DEF v, w

\* One digit more.
LEMMA Digit ==
    ASSUME NEW v \in Int, NEW p \in Nat \ {0}, NEW b \in Nat \ {0}
    PROVE  v % (b * p) = (v % p) + (((v \div p) % b) * p)
<1> DEFINE q == v \div p
           r == v % p
           e == q \div b
           d == q % b
<1>1. q \in Int /\ r \in 0..p - 1 /\ v = p * q + r
  BY Division
<1> HIDE DEF q, r
<1>2. e \in Int /\ d \in 0..b - 1 /\ q = b * e + d
  BY <1>1, Division
<1> HIDE DEF e, d
<1>3. v = (b * p) * e + (r + d * p)
  <2>1. p * q = p * (b * e) + p * d
    BY <1>2
  <2>2. p * (b * e) = (b * p) * e /\ p * d = d * p
    BY <1>2
  <2> QED BY <1>1, <1>2, <2>1, <2>2
<1>4. r + d * p \in 0..(b * p) - 1
  <2>1. d * p \in Nat /\ d * p <= (b - 1) * p
    BY <1>2
  <2>2. (b - 1) * p = b * p - p /\ b * p \in Nat
    OBVIOUS
  <2> QED BY <1>1, <2>1, <2>2
<1>5. b * p \in Nat \ {0}
  OBVIOUS
<1>6. ((b * p) * e + (r + d * p)) % (b * p) = r + d * p
  <2> DEFINE bp == b * p
             x == r + d * p
  <2>1. bp \in Nat \ {0} /\ x \in 0..bp - 1
    BY <1>4, <1>5
  <2> HIDE DEF bp, x
  <2>2. (bp * e + x) % bp = x
    BY <1>2, <2>1, DivisionIs
  <2> QED BY <2>2 DEF bp, x
<1>7. v % (b * p) = r + d * p
  BY <1>3, <1>6
<1> QED BY <1>7 DEF q, r, d

\* A function defined by recursion on a number exists.
Iterates(h, n, a, g) == h = [k \in 0..n |-> IF k = 0 THEN a ELSE g[k][h[k - 1]]]

LEMMA Recursion ==
    ASSUME NEW n \in Nat, NEW a \in Int, NEW g \in [1..n -> [Int -> Int]]
    PROVE  \E h \in [0..n -> Int] : Iterates(h, n, a, g)
<1> USE DEF Iterates
<1> DEFINE Solves(h, m) ==
             /\ h \in [0..m -> Int]
             /\ h = [k \in 0..m |-> IF k = 0 THEN a ELSE g[k][h[k - 1]]]
           Bad == {m \in 0..n : ~\E h : Solves(h, m)}
<1>1. SUFFICES Bad = {}
  <2>1. n \in 0..n
    OBVIOUS
  <2> QED BY <1>1, <2>1
<1>2. SUFFICES ASSUME Bad # {} PROVE FALSE
  OBVIOUS
<1>3. PICK m \in Bad : \A r \in Bad : m <= r
  <2>1. Bad \in SUBSET Nat
    OBVIOUS
  <2> HIDE DEF Bad
  <2> QED BY <1>2, <2>1, LeastOf
<1>4. CASE m = 0
  <2> DEFINE h == [k \in 0..0 |-> a]
  <2>1. Solves(h, 0)
    OBVIOUS
  <2> QED BY <1>3, <1>4, <2>1
<1>5. CASE m # 0
  <2>1. m \in 1..n /\ m - 1 \in 0..n /\ ~(m <= m - 1)
    BY <1>3, <1>5
  <2>2. m - 1 \notin Bad
    BY <1>3, <2>1
  <2>3. PICK h : Solves(h, m - 1)
    BY <2>1, <2>2
  <2> DEFINE h2 == [k \in 0..m |-> IF k = m THEN g[m][h[m - 1]] ELSE h[k]]
  <2>4. h[m - 1] \in Int /\ g[m][h[m - 1]] \in Int
    <3>1. m - 1 \in 0..m - 1
      BY <2>1
    <3>2. h[m - 1] \in Int
      BY <2>3, <3>1
    <3> QED BY <2>1, <3>2
  <2>5. ASSUME NEW k \in 0..m, k # m
        PROVE  k \in 0..m - 1 /\ h2[k] = h[k] /\ h[k] \in Int
    <3>1. k \in 0..m - 1
      BY <2>1, <2>5
    <3> QED BY <2>3, <2>5, <3>1
  <2>6. h2 \in [0..m -> Int]
    BY <2>4, <2>5
  <2>7. ASSUME NEW k \in 0..m
        PROVE  h2[k] = IF k = 0 THEN a ELSE g[k][h2[k - 1]]
    <3>1. k # 0 => k - 1 \in 0..m /\ k - 1 # m
      BY <2>1
    <3>2. k # 0 => h2[k - 1] = h[k - 1]
      BY <2>5, <3>1
    <3>3. CASE k = m
      BY <2>1, <3>2, <3>3
    <3>4. CASE k # m
      <4>1. k \in 0..m - 1 /\ h2[k] = h[k]
        BY <2>5, <3>4
      <4>2. h[k] = IF k = 0 THEN a ELSE g[k][h[k - 1]]
        BY <2>3, <4>1
      <4> QED BY <3>2, <4>1, <4>2
    <3> QED BY <3>3, <3>4
  <2>8. Solves(h2, m)
    <3> HIDE DEF h2
    <3>1. h2 = [k \in 0..m |-> h2[k]]
      BY <2>6
    <3> QED BY <2>6, <2>7, <3>1
  <2> HIDE DEF h2, Solves
  <2> QED BY <1>3, <2>8
<1> QED BY <1>4, <1>5

LEMMA PowerOf ==
    /\ Power[0] = 1
    /\ \A k \in 1..8 : Power[k] = ByteBase * Power[k - 1]
    /\ \A k \in 0..8 : Power[k] \in Nat \ {0}
<1> DEFINE g == [k \in 1..8 |-> [x \in Int |-> ByteBase * x]]
           IsPower(h) == h = [k \in 0..8 |-> IF k = 0 THEN 1 ELSE ByteBase * h[k - 1]]
<1>1. ByteBase \in Nat \ {0}
  BY AssemblyAssumption
<1>2. PICK h \in [0..8 -> Int] : Iterates(h, 8, 1, g)
  <2>1. 8 \in Nat /\ 1 \in Int
    OBVIOUS
  <2>2. g \in [1..8 -> [Int -> Int]]
    BY <1>1
  <2> HIDE DEF g
  <2> QED BY <2>1, <2>2, Recursion
<1>3. IsPower(h)
  <2>1. ASSUME NEW k \in 0..8, k # 0 PROVE g[k][h[k - 1]] = ByteBase * h[k - 1]
    <3>1. k \in 1..8 /\ k - 1 \in 0..8
      BY <2>1
    <3>2. h[k - 1] \in Int
      BY <1>2, <3>1
    <3> QED BY <3>1, <3>2
  <2> HIDE DEF g
  <2> QED BY <1>2, <2>1 DEF Iterates
<1>4. IsPower(Power)
  <2>1. Power = CHOOSE f : IsPower(f)
    BY DEF Power
  <2> HIDE DEF IsPower
  <2> QED BY <1>3, <2>1
<1>5. Power[0] = 1
  BY <1>4
<1>6. ASSUME NEW k \in 1..8 PROVE Power[k] = ByteBase * Power[k - 1]
  <2>1. k \in 0..8 /\ k # 0
    OBVIOUS
  <2> QED BY <1>4, <2>1
<1>7. ASSUME NEW x \in Nat \ {0} PROVE ByteBase * x \in Nat \ {0}
  BY <1>1
<1> HIDE DEF IsPower
<1>8. /\ Power[1] \in Nat \ {0} /\ Power[2] \in Nat \ {0}
      /\ Power[3] \in Nat \ {0} /\ Power[4] \in Nat \ {0}
  <2>1. Power[1] \in Nat \ {0}
    BY <1>5, <1>6, <1>7
  <2>2. Power[2] \in Nat \ {0}
    BY <1>6, <1>7, <2>1
  <2>3. Power[3] \in Nat \ {0}
    BY <1>6, <1>7, <2>2
  <2> QED BY <1>6, <1>7, <2>1, <2>2, <2>3
<1>9. /\ Power[5] \in Nat \ {0} /\ Power[6] \in Nat \ {0}
      /\ Power[7] \in Nat \ {0} /\ Power[8] \in Nat \ {0}
  <2>1. Power[5] \in Nat \ {0}
    BY <1>6, <1>7, <1>8
  <2>2. Power[6] \in Nat \ {0}
    BY <1>6, <1>7, <2>1
  <2>3. Power[7] \in Nat \ {0}
    BY <1>6, <1>7, <2>2
  <2> QED BY <1>6, <1>7, <2>1, <2>2, <2>3
<1>10. \A k \in 0..8 : k \in {0, 1, 2, 3, 4, 5, 6, 7, 8}
  OBVIOUS
<1> QED BY <1>5, <1>6, <1>8, <1>9, <1>10

\* The bytes of a value stand for the value, as far as they go.
LEMMA ValueOfBytes ==
    ASSUME NEW v \in Int, NEW n \in 0..8, NEW o \in Nat, NEW bytes,
           \A k \in 0..n - 1 : bytes[o + k + 1] = ByteOf(v, k)
    PROVE  ValueAt(bytes, o, n) = v % Power[n]
<1> DEFINE g == [k \in 1..n |-> [x \in Int |-> x + bytes[o + k] * Power[k - 1]]]
           IsSum(h) == h = [k \in 0..n |-> IF k = 0 THEN 0
                                ELSE h[k - 1] + bytes[o + k] * Power[k - 1]]
<1>1. ASSUME NEW k \in 1..n
      PROVE  /\ bytes[o + k] = (v \div Power[k - 1]) % ByteBase
             /\ bytes[o + k] \in Int /\ Power[k - 1] \in Nat \ {0}
             /\ Power[k] = ByteBase * Power[k - 1]
  <2>1. k - 1 \in 0..n - 1 /\ k - 1 \in 0..8 /\ k \in 1..8
    OBVIOUS
  <2>2. o + (k - 1) + 1 = o + k
    OBVIOUS
  <2>3. bytes[o + k] = (v \div Power[k - 1]) % ByteBase
    BY <2>1, <2>2 DEF ByteOf
  <2>4. Power[k - 1] \in Nat \ {0} /\ Power[k] = ByteBase * Power[k - 1]
    BY <2>1, PowerOf
  <2>5. v \div Power[k - 1] \in Int
    BY <2>4, Division
  <2>6. bytes[o + k] \in Int
    BY <2>3, <2>5, RemainderRange, AssemblyAssumption
  <2> QED BY <2>3, <2>4, <2>6
<1>2. PICK h \in [0..n -> Int] : Iterates(h, n, 0, g)
  <2>1. ASSUME NEW k \in 1..n, NEW x \in Int
        PROVE  x + bytes[o + k] * Power[k - 1] \in Int
    BY <1>1
  <2>2. g \in [1..n -> [Int -> Int]]
    BY <2>1
  <2>3. n \in Nat /\ 0 \in Int
    OBVIOUS
  <2> HIDE DEF g
  <2> QED BY <2>2, <2>3, Recursion
<1>3. IsSum(h)
  <2>1. ASSUME NEW k \in 0..n, k # 0
        PROVE  g[k][h[k - 1]] = h[k - 1] + bytes[o + k] * Power[k - 1]
    <3>1. k \in 1..n /\ k - 1 \in 0..n
      BY <2>1
    <3>2. h[k - 1] \in Int
      BY <1>2, <3>1
    <3> QED BY <3>1, <3>2
  <2> HIDE DEF g
  <2> QED BY <1>2, <2>1 DEF Iterates
<1> DEFINE sum == CHOOSE f : IsSum(f)
<1>4. IsSum(sum)
  <2> HIDE DEF IsSum
  <2> QED BY <1>3
<1>5. ValueAt(bytes, o, n) = sum[n]
  BY DEF ValueAt
<1> HIDE DEF sum
<1> DEFINE Bad == {k \in 0..n : sum[k] # v % Power[k]}
<1>6. SUFFICES Bad = {}
  <2>1. n \in 0..n
    OBVIOUS
  <2> QED BY <1>5, <1>6, <2>1
<1>7. SUFFICES ASSUME Bad # {} PROVE FALSE
  OBVIOUS
<1>8. PICK k \in Bad : \A r \in Bad : k <= r
  <2>1. Bad \in SUBSET Nat
    OBVIOUS
  <2> HIDE DEF Bad
  <2> QED BY <1>7, <2>1, LeastOf
<1>9. CASE k = 0
  <2>1. sum[0] = 0
    BY <1>4
  <2>2. v % 1 \in 0..1 - 1
    BY RemainderRange
  <2>3. v % 1 = 0 /\ Power[0] = 1
    BY <2>2, PowerOf
  <2>4. sum[k] # v % Power[k]
    BY <1>8
  <2> QED BY <1>9, <2>1, <2>3, <2>4
<1>10. CASE k # 0
  <2>1. k \in 1..n /\ k - 1 \in 0..n /\ ~(k <= k - 1)
    BY <1>8, <1>10
  <2>2. sum[k - 1] = v % Power[k - 1]
    BY <1>8, <2>1
  <2>3. sum[k] = sum[k - 1] + bytes[o + k] * Power[k - 1]
    <3>1. k \in 0..n
      BY <2>1
    <3> QED BY <1>4, <1>10, <3>1
  <2>4. v % Power[k] = (v % Power[k - 1])
            + (((v \div Power[k - 1]) % ByteBase) * Power[k - 1])
    <3> DEFINE P == Power[k - 1]
    <3>1. P \in Nat \ {0} /\ Power[k] = ByteBase * P /\ ByteBase \in Nat \ {0}
      BY <1>1, <2>1, AssemblyAssumption
    <3> HIDE DEF P
    <3>2. v % (ByteBase * P) = (v % P) + (((v \div P) % ByteBase) * P)
      BY <3>1, Digit
    <3> QED BY <3>1, <3>2 DEF P
  <2>5. sum[k] = v % Power[k]
    BY <1>1, <2>1, <2>2, <2>3, <2>4
  <2> QED BY <1>8, <2>5
<1> QED BY <1>9, <1>10

\* Numbers with the same remainder differ by a multiple.
LEMMA SameRemainder ==
    ASSUME NEW b \in Nat \ {0}, NEW m \in Int, NEW n \in Int,
           m % b = n % b, m - n < b, n - m < b
    PROVE  m = n
<1> DEFINE d == (m \div b) - (n \div b)
<1>1. d \in Int /\ m - n = b * d
  <2> DEFINE x == m \div b
             y == n \div b
             r == m % b
             s == n % b
  <2>1. x \in Int /\ y \in Int /\ r \in Int /\ m = b * x + r /\ n = b * y + s /\ r = s
    BY Division
  <2> HIDE DEF x, y, r, s
  <2>2. m - n = b * (x - y) /\ x - y \in Int
    BY <2>1
  <2> QED BY <2>2 DEF x, y
<1> HIDE DEF d
<1>2. ~(d >= 1)
  <2>1. d >= 1 => b * d >= b
    BY <1>1
  <2> QED BY <1>1, <2>1
<1>3. ~(d <= -1)
  <2>1. d <= -1 => b * d <= -b
    BY <1>1
  <2> QED BY <1>1, <2>1
<1>4. d = 0
  BY <1>1, <1>2, <1>3
<1> QED BY <1>1, <1>4

\* parseNumberToken keeps the number of 16 bits that the reference means.
LEMMA CutIs ==
    ASSUME NEW n \in Int
    PROVE  Cut(n) = Literal(n) /\ Literal(n) \in Int
<1> DEFINE base == ByteBase * ByteBase
           half == base \div 2
           lit == Literal(n)
<1>1. base \in Nat \ {0} /\ half \in Nat /\ base = 2 * half
  <2>1. PICK b \in Nat : ByteBase = 2 * b /\ b # 0
    BY AssemblyAssumption
  <2> DEFINE k == b * ByteBase
  <2>2. base = 2 * k /\ k \in Nat \ {0}
    BY <2>1, AssemblyAssumption
  <2> HIDE DEF k, base
  <2> QED BY <2>2
<1>2. lit \in Literals /\ Literals = -half..half - 1
  BY LiteralType DEF Literals
<1>3. lit = ((n + half) % base) - half
  BY DEF Literal
<1> HIDE DEF base, half, lit
<1>4. lit \in Int /\ \A m \in Literals : m \in Int /\ m - lit < base /\ lit - m < base
  BY <1>1, <1>2
<1>5. lit % base = n % base
  <2> DEFINE q == (n + half) \div base
             k == n \div base
             s == n % base
  <2>1. q \in Int /\ n + half = base * q + ((n + half) % base)
    <3> DEFINE w == n + half
    <3>1. w \in Int /\ base \in Nat \ {0}
      BY <1>1
    <3> HIDE DEF w
    <3>2. w \div base \in Int
      BY <3>1, Division
    <3>3. w = base * (w \div base) + (w % base)
      BY <3>1, Division
    <3> QED BY <3>2, <3>3 DEF w
  <2>2. k \in Int /\ s \in 0..base - 1 /\ n = base * k + s
    <3>1. base \in Nat \ {0}
      BY <1>1
    <3>2. n \div base \in Int /\ n % base \in 0..base - 1
      BY <3>1, Division
    <3>3. n = base * (n \div base) + (n % base)
      BY <3>1, Division
    <3> QED BY <3>2, <3>3
  <2> HIDE DEF q, k, s
  <2>3. lit = n - base * q
    <3> DEFINE r == (n + half) % base
    <3>1. n + half = base * q + r /\ lit = r - half
      BY <1>3, <2>1
    <3>2. r \in Int
      BY <1>1, RemainderRange
    <3> HIDE DEF r
    <3> QED BY <1>1, <2>1, <3>1, <3>2
  <2>4. lit = base * (k - q) + s /\ k - q \in Int
    BY <1>1, <2>1, <2>2, <2>3
  <2>5. (base * (k - q) + s) % base = s
    <3> DEFINE e == k - q
    <3>1. e \in Int
      BY <2>4
    <3> HIDE DEF e
    <3>2. (base * e + s) % base = s
      BY <1>1, <2>2, <3>1, DivisionIs
    <3> QED BY <3>2 DEF e
  <2> QED BY <2>4, <2>5 DEF s
<1>6. ASSUME NEW m \in Literals, m % base = n % base PROVE m = lit
  <2>1. m % base = lit % base
    BY <1>5, <1>6
  <2> QED BY <1>1, <1>4, <2>1, SameRemainder
<1>7. Cut(n) = CHOOSE m \in Literals : m % base = n % base
  BY DEF Cut, base
<1>8. Cut(n) = lit
  BY <1>2, <1>5, <1>6, <1>7
<1> QED BY <1>4, <1>8 DEF lit

-----------------------------------------------------------------------------
(* What the tables are used for. *)

\* The table has the symbols that are defined in what was read, and finds the
\* first definition of each.
Entries(syms, n) == {k \in DOMAIN syms : syms[k].name = n}
EntersSymbol(prog, seen, n) == \E j \in Named(prog, "data", n) : j < seen

LEMMA SymbolLookup ==
    ASSUME NEW prog, Program(prog), NEW seen \in Nat, NEW S, NEW syms \in Seq(S),
           NEW offset, SymbolsKnown(prog, seen, syms, offset), NEW n
    PROVE  /\ Entries(syms, n) # {} => EntersSymbol(prog, seen, n)
           /\ EntersSymbol(prog, seen, n) => Entries(syms, n) # {}
           /\ Entries(syms, n) # {} =>
                syms[Min(Entries(syms, n))].offset = SymbolOffset(prog, n)
<1> DEFINE found == Entries(syms, n)
<1> USE DEF Entries
<1> DEFINE defs == Named(prog, "data", n)
<1>1. /\ DOMAIN syms = 1..Len(syms) /\ Len(syms) \in Nat
      /\ defs \in SUBSET (1..Len(prog)) /\ Len(prog) \in Nat
      /\ defs \in SUBSET Of(prog, "data")
  BY DEF Named, Of, Program
<1>2. ASSUME NEW j \in defs, j < seen
      PROVE  /\ Nth(prog, j) \in found
             /\ syms[Nth(prog, j)].offset = OffsetOf(prog, j)
  <2>1. j \in Before(prog, seen, "data") /\ prog[j].name = n
    BY <1>2 DEF Named, Before
  <2>2. Nth(prog, j) \in 1..Len(syms) /\ syms[Nth(prog, j)] = SymbolOf(prog, j)
    BY <2>1 DEF SymbolsKnown
  <2> QED BY <1>1, <2>1, <2>2 DEF SymbolOf
<1>3. ASSUME NEW k \in found
      PROVE  \E j \in defs : j < seen /\ Nth(prog, j) = k
  <2>1. k \in 1..Len(syms) /\ syms[k].name = n
    BY <1>1
  <2>2. PICK j \in Before(prog, seen, "data") : Nth(prog, j) = k
    BY <2>1 DEF SymbolsKnown
  <2>3. syms[k] = SymbolOf(prog, j)
    BY <2>2 DEF SymbolsKnown
  <2>4. prog[j].name = n
    BY <2>1, <2>3 DEF SymbolOf
  <2> QED BY <2>2, <2>4 DEF Before, Named
<1>4. ASSUME found # {}
      PROVE  syms[Min(found)].offset = SymbolOffset(prog, n)
  <2>1. PICK j0 \in defs : j0 < seen
    BY <1>3, <1>4
  <2> DEFINE j == Min(defs)
  <2>2. j \in defs /\ \A d \in defs : j <= d
    <3>1. defs \in SUBSET Nat
      BY <1>1
    <3> HIDE DEF defs
    <3> QED BY <2>1, <3>1, MinOf
  <2>3. j < seen
    BY <1>1, <2>1, <2>2
  <2> HIDE DEF j
  <2>4. Nth(prog, j) \in found /\ syms[Nth(prog, j)].offset = OffsetOf(prog, j)
    BY <1>2, <2>2, <2>3
  <2>5. \A k \in found : Nth(prog, j) <= k
    <3>1. ASSUME NEW k \in found PROVE Nth(prog, j) <= k
      <4>1. PICK d \in defs : Nth(prog, d) = k
        BY <1>3
      <4>2. j \in Of(prog, "data") /\ d \in Of(prog, "data")
        BY <1>1, <2>2
      <4>3. j \in Nat /\ d \in Nat /\ j <= d
        BY <1>1, <2>2
      <4> QED BY <4>1, <4>2, <4>3, NthOrder
    <3> QED BY <3>1
  <2>6. found \in SUBSET Nat
    BY <1>1
  <2>7. Min(found) = Nth(prog, j)
    BY <2>4, <2>5, <2>6, MinIs
  <2> QED BY <2>4, <2>7 DEF SymbolOffset, j
<1> HIDE DEF defs
<1>5. found # {} <=> \E j \in defs : j < seen
  BY <1>2, <1>3
<1> QED BY <1>4, <1>5 DEF defs, EntersSymbol

\* Every byte of the data belongs to one symbol.
LEMMA SymbolOfByte ==
    ASSUME NEW prog, Program(prog), NEW S, NEW syms \in Seq(S), NEW offset,
           SymbolsKnown(prog, Len(prog) + 1, syms, offset),
           NEW i \in Of(prog, "data"), NEW k \in 0..DataSize[prog[i].type] - 1
    PROVE  LET b == OffsetOf(prog, i) + k IN
           /\ b + 1 \in 1..offset
           /\ SymbolOf(prog, i) =
                CHOOSE s \in {syms[d] : d \in DOMAIN syms} :
                    b \in s.offset..s.offset + DataSize[s.type] - 1
<1> DEFINE b == OffsetOf(prog, i) + k
           Symbols == {syms[d] : d \in DOMAIN syms}
           Has(s) == b \in s.offset..s.offset + DataSize[s.type] - 1
<1>1. /\ i \in 1..Len(prog) /\ prog[i].kind = "data" /\ Len(prog) \in Nat
      /\ offset = OffsetOf(prog, Len(prog) + 1)
      /\ Before(prog, Len(prog) + 1, "data") = Of(prog, "data")
  <2>1. i \in 1..Len(prog) /\ prog[i].kind = "data" /\ Len(prog) \in Nat
    BY DEF Of, Program
  <2>2. offset = OffsetOf(prog, Len(prog) + 1)
    BY DEF SymbolsKnown
  <2> QED BY <2>1, <2>2, BeforeEnds
<1>2. /\ OffsetOf(prog, i) \in Nat /\ offset \in Nat
      /\ DataSize[prog[i].type] \in Nat
  <2>1. i \in Nat /\ Len(prog) + 1 \in Nat
    BY <1>1
  <2>2. OffsetOf(prog, i) \in Nat /\ OffsetOf(prog, Len(prog) + 1) \in Nat
    BY <2>1, BytesType
  <2>3. DataSize[prog[i].type] \in Nat
    BY DataSizes
  <2> QED BY <1>1, <2>2, <2>3
<1>3. OffsetOf(prog, i) + DataSize[prog[i].type] <= offset
  <2>1. i \in 1..Len(prog) + 1 /\ Len(prog) + 1 \in i..Len(prog) + 1 /\ i < Len(prog) + 1
    BY <1>1
  <2> QED BY <1>1, <2>1, OffsetOrder
<1> DEFINE o == OffsetOf(prog, i)
           z == DataSize[prog[i].type]
<1>4. /\ b \in Nat /\ b + 1 \in 1..offset /\ Has(SymbolOf(prog, i))
      /\ o <= b /\ b < o + z
  <2>1. k \in 0..z - 1 /\ b = o + k
    OBVIOUS
  <2>2. o \in Nat /\ z \in Nat /\ offset \in Nat /\ o + z <= offset
    BY <1>2, <1>3
  <2> HIDE DEF o, z, b
  <2>3. b \in Nat /\ b + 1 \in 1..offset /\ o <= b /\ b < o + z
    BY <2>1, <2>2
  <2>4. b \in o..o + z - 1
    BY <2>1, <2>2
  <2>5. Has(SymbolOf(prog, i))
    BY <2>4 DEF SymbolOf, o, z
  <2> QED BY <2>3, <2>5
<1>5. SymbolOf(prog, i) \in Symbols
  BY <1>1 DEF SymbolsKnown
<1>6. ASSUME NEW s \in Symbols, Has(s)
      PROVE  s = SymbolOf(prog, i)
  <2>1. PICK d \in 1..Len(syms) : s = syms[d]
    OBVIOUS
  <2>2. PICK j \in Of(prog, "data") : Nth(prog, j) = d
    BY <1>1, <2>1 DEF SymbolsKnown
  <2>3. s = SymbolOf(prog, j)
    BY <1>1, <2>1, <2>2 DEF SymbolsKnown
  <2>4. /\ b \in OffsetOf(prog, j)..OffsetOf(prog, j) + DataSize[prog[j].type] - 1
        /\ j \in 1..Len(prog) /\ prog[j].kind = "data"
    BY <1>6, <2>3 DEF SymbolOf, Of, Program
  <2>5. OffsetOf(prog, j) \in Nat /\ DataSize[prog[j].type] \in Nat
    <3>1. j \in Nat
      BY <1>1, <2>4
    <3>2. OffsetOf(prog, j) \in Nat
      BY <3>1, BytesType
    <3>3. DataSize[prog[j].type] \in Nat
      BY DataSizes
    <3> QED BY <3>2, <3>3
  <2>6. ~(i < j)
    <3>1. ASSUME i < j
          PROVE  OffsetOf(prog, i) + DataSize[prog[i].type] <= OffsetOf(prog, j)
      <4>1. i \in 1..Len(prog) + 1 /\ j \in i..Len(prog) + 1
        BY <1>1, <2>4, <3>1
      <4> QED BY <1>1, <3>1, <4>1, OffsetOrder
    <3> DEFINE oj == OffsetOf(prog, j)
               zj == DataSize[prog[j].type]
    <3>2. o <= b /\ b < o + z /\ b \in Nat
      BY <1>4
    <3>3. b \in oj..oj + zj - 1
      BY <2>4
    <3>4. o \in Nat /\ z \in Nat /\ oj \in Nat /\ zj \in Nat
      BY <1>2, <2>5
    <3>5. i < j => o + z <= oj
      BY <3>1
    <3> HIDE DEF o, z, oj, zj, b
    <3> QED BY <3>2, <3>3, <3>4, <3>5
  <2>7. ~(j < i)
    <3>1. ASSUME j < i
          PROVE  OffsetOf(prog, j) + DataSize[prog[j].type] <= OffsetOf(prog, i)
      <4>1. j \in 1..Len(prog) + 1 /\ i \in j..Len(prog) + 1
        BY <1>1, <2>4, <3>1
      <4> QED BY <2>4, <3>1, <4>1, OffsetOrder
    <3> DEFINE oj == OffsetOf(prog, j)
               zj == DataSize[prog[j].type]
    <3>2. o <= b /\ b < o + z /\ b \in Nat
      BY <1>4
    <3>3. b \in oj..oj + zj - 1
      BY <2>4
    <3>4. o \in Nat /\ z \in Nat /\ oj \in Nat /\ zj \in Nat
      BY <1>2, <2>5
    <3>5. j < i => oj + zj <= o
      BY <3>1
    <3> HIDE DEF o, z, oj, zj, b
    <3> QED BY <3>2, <3>3, <3>4, <3>5
  <2>8. i = j
    BY <1>1, <2>4, <2>6, <2>7
  <2> QED BY <2>3, <2>8
<1>7. SymbolOf(prog, i) = CHOOSE s \in Symbols : Has(s)
  <2> HIDE DEF Symbols, Has
  <2>1. \A s \in Symbols : Has(s) <=> s = SymbolOf(prog, i)
    BY <1>4, <1>5, <1>6
  <2> QED BY <1>5, <2>1
<1> QED BY <1>4, <1>7

\* The data segment has every byte of every symbol.
DataRight(prog, bytes) ==
    /\ Len(bytes) = OffsetOf(prog, Len(prog) + 1)
    /\ \A i \in Of(prog, "data") :
        LET n == DataSize[prog[i].type] IN
        ValueAt(bytes, OffsetOf(prog, i), n) = Cut(prog[i].val) % Power[n]

\* BuildImage's image of a table of symbols.
ImageOf(syms, offset) ==
    [b \in 1..offset |->
        LET s == CHOOSE s \in {syms[d] : d \in DOMAIN syms} :
                    b - 1 \in s.offset..s.offset + DataSize[s.type] - 1
        IN  ByteOf(s.value, b - 1 - s.offset)]

LEMMA ImageRight ==
    ASSUME NEW prog, Program(prog), NEW S, NEW syms \in Seq(S), NEW offset,
           SymbolsKnown(prog, Len(prog) + 1, syms, offset)
    PROVE  DataRight(prog, ImageOf(syms, offset))
<1> DEFINE bytes == ImageOf(syms, offset)
<1> DEFINE Sym(b) == CHOOSE s \in {syms[d] : d \in DOMAIN syms} :
                        b \in s.offset..s.offset + DataSize[s.type] - 1
<1>0. bytes = [b \in 1..offset |->
                ByteOf(Sym(b - 1).value, b - 1 - Sym(b - 1).offset)]
  BY DEF ImageOf
<1> HIDE DEF bytes
<1>1. offset = OffsetOf(prog, Len(prog) + 1) /\ offset \in Nat
  <2>1. Len(prog) + 1 \in Nat
    BY DEF Program
  <2> QED BY <2>1, BytesType DEF SymbolsKnown
<1>2. Len(bytes) = offset
  BY <1>0, <1>1
<1>3. ASSUME NEW i \in Of(prog, "data")
      PROVE  ValueAt(bytes, OffsetOf(prog, i), DataSize[prog[i].type]) =
                Cut(prog[i].val) % Power[DataSize[prog[i].type]]
  <2> DEFINE o == OffsetOf(prog, i)
             n == DataSize[prog[i].type]
             v == Literal(prog[i].val)
  <2>1. n \in {1, 2, 4, 8} /\ n \in 0..8
    BY DataSizes
  <2>2. o \in Nat
    <3>1. i \in Nat
      BY DEF Of, Program
    <3> QED BY <3>1, BytesType
  <2>3. v = Cut(prog[i].val) /\ v \in Int
    <3>1. prog[i].val \in Int
      BY DEF Program
    <3> QED BY <3>1, CutIs
  <2>4. ASSUME NEW k \in 0..n - 1
        PROVE  bytes[o + k + 1] = ByteOf(v, k)
    <3>1. o + k + 1 \in 1..offset /\ SymbolOf(prog, i) = Sym(o + k)
      BY SymbolOfByte
    <3>2. k \in Int /\ (o + k) - o = k
      BY <2>1, <2>2
    <3>3. \A b \in 1..offset : bytes[b] = ByteOf(Sym(b - 1).value, b - 1 - Sym(b - 1).offset)
      BY <1>0
    <3> HIDE DEF Sym
    <3> DEFINE b == o + k + 1
    <3>4. bytes[o + k + 1] = ByteOf(Sym(o + k).value, (o + k) - Sym(o + k).offset)
      <4>1. b \in 1..offset
        BY <3>1
      <4>2. b - 1 = o + k
        <5> HIDE DEF o, n
        <5> QED BY <2>2, <3>2
      <4> HIDE DEF b
      <4>3. bytes[b] = ByteOf(Sym(b - 1).value, b - 1 - Sym(b - 1).offset)
        BY <3>3, <4>1
      <4>4. bytes[b] = ByteOf(Sym(o + k).value, (o + k) - Sym(o + k).offset)
        BY <4>2, <4>3
      <4> QED BY <4>4 DEF b
    <3>5. bytes[o + k + 1] = ByteOf(v, (o + k) - o)
      BY <3>1, <3>4 DEF SymbolOf
    <3> QED BY <3>2, <3>5
  <2> HIDE DEF o, n, v
  <2>5. ValueAt(bytes, o, n) = v % Power[n]
    BY <2>1, <2>2, <2>3, <2>4, ValueOfBytes
  <2> QED BY <2>3, <2>5 DEF o, n
<1> QED BY <1>1, <1>2, <1>3 DEF DataRight, bytes

\* Which alternatives a form decides.
LEMMA FormGuards ==
    ASSUME NEW text, NEW p, NEW form \in FormsAt(text, p)
    PROVE  LET m == At(text, p, 1).name
               last == At(text, p, Len(form) + 1)
           IN  /\ HasMemory(form) =>
                    /\ form # <<"Identifier">> /\ form # <<>> /\ m \notin Unary
                    /\ last.type # "Number"
               /\ form = <<"Identifier">> =>
                    ~HasMemory(form) /\ form # <<>> /\ m \notin Unary
               /\ form = <<>> \/ m \in Unary => last.type # "Number"
               /\ m \in DOMAIN Mnemonics \cup {"call"}
<1> DEFINE m == At(text, p, 1).name
           last == At(text, p, Len(form) + 1)
<1>1. form \in Forms(m)
  BY DEF FormsAt
<1>2. /\ At(text, p, 1).type = "Identifier" /\ Len(form) \in Nat
      /\ \A k \in 1..Len(form) : At(text, p, k + 1).type = form[k]
  BY FormTokens
<1>3. m \in Unary => form = <<"Register">>
  BY <1>1 DEF Forms, Unary, Branches
<1>4. HasMemory(form) => form[5] = "RBracket" /\ m \notin Unary
  <2>1. \/ Len(form) <= 3 \/ form = WithMemory("Register")
        \/ form = WithMemory("Identifier")
    <3>1. \/ form \in {WithMemory("Register"), WithMemory("Identifier")}
          \/ form = WithNumber("Register") \/ form = WithNumber("Identifier")
          \/ form \in {<<>>, <<"Register">>, <<"Identifier">>, <<"Number">>}
          \/ form = <<"Register", "Comma", "Register">>
      BY <1>1 DEF Forms
    <3>2. Len(WithNumber("Register")) = 3 /\ Len(WithNumber("Identifier")) = 3
      BY DEF WithNumber
    <3>3. \A f \in {<<>>, <<"Register">>, <<"Identifier">>, <<"Number">>} : Len(f) <= 3
      OBVIOUS
    <3>4. Len(<<"Register", "Comma", "Register">>) = 3
      OBVIOUS
    <3>5. CASE form \in {<<>>, <<"Register">>, <<"Identifier">>, <<"Number">>}
      BY <3>3, <3>5
    <3>6. CASE form = <<"Register", "Comma", "Register">>
      BY <3>4, <3>6
    <3>7. CASE form = WithNumber("Register") \/ form = WithNumber("Identifier")
      <4>1. Len(form) = 3
        BY <3>2, <3>7
      <4> QED BY <4>1
    <3> QED BY <3>1, <3>5, <3>6, <3>7
  <2>2. WithMemory("Register")[5] = "RBracket" /\ WithMemory("Identifier")[5] = "RBracket"
    BY DEF WithMemory
  <2> QED BY <1>3, <2>1, <2>2 DEF HasMemory
<1>5. HasMemory(form) => last.type = "RBracket"
  BY <1>2, <1>4 DEF HasMemory
<1>6. form = <<>> \/ m \in Unary => last.type # "Number"
  <2>1. CASE form = <<>>
    BY <1>2, <2>1
  <2>2. CASE form = <<"Register">>
    <3>1. Len(form) = 1 /\ form[1] = "Register"
      BY <2>2
    <3> QED BY <1>2, <3>1
  <2> QED BY <1>3, <2>1, <2>2
<1>7. m \in DOMAIN Mnemonics \cup {"call"}
  <2>1. Forms(m) # {}
    BY <1>1
  <2> QED BY <2>1 DEF Forms, Mnemonics, Unary, Branches
<1>8. form = <<"Identifier">> => m \notin Unary /\ form # <<>> /\ ~HasMemory(form)
  BY <1>3 DEF HasMemory
<1>9. HasMemory(form) => form # <<"Identifier">> /\ form # <<>>
  <2>1. form = <<"Identifier">> \/ form = <<>> => Len(form) # 5
    OBVIOUS
  <2> QED BY <2>1 DEF HasMemory
<1> QED BY <1>4, <1>5, <1>6, <1>7, <1>8, <1>9

-----------------------------------------------------------------------------
(* The invariant. *)

\* The section, the label addresses and the symbols that statement j needs are
\* those it has; labels of operands are a matter of the second pass.
Placed(prog, j) ==
    /\ prog[j].kind = "data" => SectionOf(prog, j) = "DATA"
    /\ prog[j].kind \in {"label", "instr"} => SectionOf(prog, j) = "CODE"
    /\ prog[j].kind = "instr" /\ prog[j].src.kind = "symbol" =>
        \E k \in Named(prog, "data", prog[j].src.name) : k < j

\* Only a program without junk can be acceptable.
Sound(prog) == Of(prog, "junk") = {}

\* What the second pass has done with the statements before i.
Emitted(prog, i, instrs, bytes) ==
    /\ Before(prog, i, "junk") = {}
    /\ \A j \in Before(prog, i, "instr") :
        prog[j].src.kind = "label" => Named(prog, "label", prog[j].src.name) # {}
    /\ (\E S : instrs \in Seq(S)) /\ Len(instrs) = AddressOf(prog, i)
    /\ Sound(prog) =>
        \A j \in Before(prog, i, "instr") :
            instrs[AddressOf(prog, j) + 1] = Expected(prog, j)
    /\ DataRight(prog, bytes)

\* The first pass has seen the statements before i, the others all.
Seen(c, i) == IF pc[c] = "first" THEN i ELSE Len(source[c].prog) + 1

\* Thread c has come to statement i of its program.
Progress(c, i) ==
    LET prog == source[c].prog IN
    /\ IF pc[c] = "image"
       THEN source[c] \in Sources /\ i = 1 /\ lexer[c].position = 0
       ELSE Stands(c, i)
    /\ section = SectionOf(prog, i)
    /\ codeAddress = Slot(prog, i)
    /\ LabelsKnown(prog, i, Seen(c, i), labels)
    /\ SymbolsKnown(prog, Seen(c, i), dataSymbols, dataOffset)
    /\ \A j \in 1..Len(prog) : j < Seen(c, i) => Placed(prog, j)
    /\ IF pc[c] = "second" THEN Emitted(prog, i, code[c], data[c])
       ELSE code[c] = <<>>
    /\ outcome[c] = "none"

\* The tables are about the program that is being parsed.
Parsed ==
    /\ code = [c \in Callers |-> code[c]] /\ data = [c \in Callers |-> data[c]]
    /\ \A c \in Callers : pc[c] # "idle" => \E i : Progress(c, i)

\* Programs whose system calls have an argument: the parser takes no others.
CallsGiven(prog) ==
    \A i \in Of(prog, "instr") :
        prog[i].op = "CALL" => prog[i].src.kind # "nothing"

\* How the parses have ended.
Answered ==
    \A c \in Callers :
        LET prog == source[c].prog IN
        /\ outcome[c] # "none" => source[c] \in Sources
        /\ outcome[c] = "rejected" /\ CallsGiven(prog) => ~Acceptable(prog)
        /\ outcome[c] = "assembled" =>
            Acceptable(prog) /\ IsAssemblyOf(prog, code[c], data[c])

IInv == TypeOK /\ Reading /\ Parsed /\ Answered

\* No two threads are inside parse.
OneAtATime == \A c, d \in Callers : pc[c] # "idle" /\ pc[d] # "idle" => c = d

\* The operand of a jump is no number.
LEMMA LabelOperand ==
    ASSUME NEW text, NEW p, NEW form \in FormsAt(text, p), form = <<"Identifier">>
    PROVE  At(text, p, Len(form) + 1).type = "Identifier"
<1>1. Len(form) = 1 /\ form[1] = "Identifier"
  OBVIOUS
<1> QED BY <1>1, FormTokens

LEMMA SymbolOffsetType ==
    ASSUME NEW prog, Program(prog), NEW n, Named(prog, "data", n) # {}
    PROVE  SymbolOffset(prog, n) \in Int
<1> DEFINE defs == Named(prog, "data", n)
<1>1. defs \in SUBSET (1..Len(prog)) /\ Len(prog) \in Nat /\ defs # {}
  BY DEF Named, Of, Program
<1> HIDE DEF defs
<1>2. defs \in SUBSET Nat
  BY <1>1
<1>3. Min(defs) \in Nat
  BY <1>1, <1>2, MinOf
<1>4. OffsetOf(prog, Min(defs)) \in Nat
  BY <1>3, BytesType
<1> QED BY <1>4 DEF SymbolOffset, defs

LEMMA SlotOfSound ==
    ASSUME NEW prog, Program(prog), Sound(prog), NEW j \in 1..Len(prog) + 1
    PROVE  Slot(prog, j) = AddressOf(prog, j)
<1>1. Before(prog, j, "junk") = {} /\ j \in Nat
  BY DEF Sound, Before, Program
<1>2. AddressOf(prog, j) \in Nat
  BY <1>1, BeforeType DEF AddressOf
<1>3. Cardinality(Before(prog, j, "junk")) = 0
  BY <1>1, FS_EmptySet
<1> QED BY <1>2, <1>3 DEF Slot

\* The second pass emits the instruction that the statement stands for.
LEMMA InstructionRight ==
    ASSUME TypeOK, Reading, NEW c \in Callers, NEW i, Progress(c, i),
           pc[c] = "second", AtInstruction(c), NEW form \in InstructionForms(c),
           Sound(source[c].prog)
    PROVE  Instruction(c, form) = Expected(source[c].prog, i)
<1> DEFINE s == source[c]
           prog == source[c].prog
           text == Text(c)
           p == lexer[c].position
           st == prog[i]
           m == T(c, 1).name
           last == T(c, Len(form) + 1)
<1>1. Stands(c, i) /\ s \in Sources /\ text = s.text /\ p = s.start[i]
  BY DEF Progress, Stands, Text
<1>2. /\ Program(prog) /\ SourceWritten(s) /\ Len(prog) \in Nat
      /\ i \in 1..Len(prog) /\ st.kind \in {"instr", "junk"}
  BY <1>1, WrittenType, KindSeen
<1>3. st.kind = "instr"
  <2>1. st.kind = "junk" => i \in Of(prog, "junk")
    BY <1>2 DEF Of, Program
  <2> QED BY <1>2, <2>1 DEF Sound
<1>4. /\ form \in FormsAt(text, p) /\ WritesInstruction(text, p, form, st)
      /\ Sensible(text, p, form) /\ ~BareCall(At(text, p, 1).name, form)
  <2>1. PICK q : Written(text, p, q, st)
    BY <1>1, <1>2 DEF SourceWritten
  <2>2. PICK g \in ShapesAt(text, p) : WritesInstruction(text, p, g, st)
    BY <1>3, <2>1 DEF Written
  <2>3. form \in FormsAt(text, p)
    BY FormsSeen
  <2>4. form \in Forms(At(text, p, 1).name)
    BY <2>3 DEF FormsAt
  <2> QED BY <2>2, <2>3, <2>4, FormIsShape, FormsShapes
<1>5. ASSUME NEW k \in Nat \ {0} PROVE T(c, k) = At(text, p, k)
  BY <1>5, UpcomingAt DEF Reading
<1>6. /\ m = At(text, p, 1).name /\ T(c, 2) = At(text, p, 2)
      /\ T(c, 5) = At(text, p, 5) /\ last = At(text, p, Len(form) + 1)
  <2>1. Len(form) \in Nat
    BY <1>4, FormTokens
  <2>2. /\ 1 \in Nat \ {0} /\ 2 \in Nat \ {0} /\ 5 \in Nat \ {0}
        /\ Len(form) + 1 \in Nat \ {0}
    BY <2>1
  <2> QED BY <1>5, <2>2
<1>7. /\ HasMemory(form) =>
            /\ form # <<"Identifier">> /\ form # <<>> /\ m \notin Unary
            /\ last.type # "Number"
      /\ form = <<"Identifier">> =>
            ~HasMemory(form) /\ form # <<>> /\ m \notin Unary
      /\ form = <<>> \/ m \in Unary => last.type # "Number"
      /\ m \in DOMAIN Mnemonics \cup {"call"}
  BY <1>4, <1>6, FormGuards
<1>8. /\ HasMemory(form) => m \in {"mov", "load", "store", "call"}
      /\ st.op = IF m = "call" THEN "CALL" ELSE Mnemonics[m]
      /\ st.dst.val = IF m = "call" THEN Syscalls[T(c, 2).name]
                      ELSE IF form \in {<<>>, <<"Identifier">>} \/ m = "push" THEN 0
                      ELSE T(c, 2).val
      /\ HasMemory(form) => st.src.kind = "symbol" /\ st.src.name = T(c, 5).name
      /\ form = <<"Identifier">> =>
            st.src.kind = "label" /\ st.src.name = last.name
      /\ form = <<>> \/ m \in Unary => st.src.kind = "nothing"
      /\ last.type = "Number" => st.src.kind = "number" /\ st.src.val = last.val
      /\ ~(\/ HasMemory(form) \/ form = <<"Identifier">> \/ form = <<>>
           \/ m \in Unary \/ last.type = "Number")
            => st.src.kind = "reg" /\ st.src.val = last.val
  <2>1. /\ WritesSource(text, p, form, st.src) /\ ~BareCall(m, form)
        /\ st.op = IF m = "call" THEN "CALL" ELSE Mnemonics[m]
        /\ st.dst.val = IF m = "call" THEN Syscalls[T(c, 2).name]
                        ELSE IF form \in {<<>>, <<"Identifier">>} \/ m = "push" THEN 0
                        ELSE T(c, 2).val
    BY <1>4, <1>6 DEF WritesInstruction
  <2>2. HasMemory(form) => m \in {"mov", "load", "store", "call"}
    BY <1>4, <1>6 DEF Sensible
  <2>4. form = <<"Identifier">> => m # "call"
    BY <2>1 DEF BareCall
  <2> HIDE DEF m, last, st
  <2>3. /\ HasMemory(form) => st.src.kind = "symbol" /\ st.src.name = T(c, 5).name
        /\ form = <<"Identifier">> =>
            st.src.kind = "label" /\ st.src.name = last.name
        /\ form = <<>> \/ m \in Unary => st.src.kind = "nothing"
        /\ last.type = "Number" => st.src.kind = "number" /\ st.src.val = last.val
        /\ ~(\/ HasMemory(form) \/ form = <<"Identifier">> \/ form = <<>>
             \/ m \in Unary \/ last.type = "Number")
            => st.src.kind = "reg" /\ st.src.val = last.val
    <3>1. CASE HasMemory(form)
      BY <1>6, <1>7, <2>1, <3>1 DEF WritesSource
    <3>2. CASE form = <<"Identifier">>
      <4>1. last.type # "Number"
        BY <1>4, <1>6, <3>2, LabelOperand
      <4> QED BY <1>6, <1>7, <2>1, <2>4, <3>2, <4>1 DEF WritesSource
    <3>3. CASE form = <<>> \/ m \in Unary
      BY <1>6, <1>7, <2>1, <3>3 DEF WritesSource
    <3>4. CASE last.type = "Number"
      <4>1. ~HasMemory(form) /\ form # <<>> /\ m \notin Unary
        BY <1>7, <3>4
      <4>2. form # <<"Identifier">>
        BY <1>4, <1>6, <3>4, LabelOperand
      <4> QED BY <1>6, <2>1, <3>4, <4>1, <4>2 DEF WritesSource
    <3>5. CASE ~(\/ HasMemory(form) \/ form = <<"Identifier">> \/ form = <<>>
                 \/ m \in Unary \/ last.type = "Number")
      BY <1>6, <2>1, <3>5 DEF WritesSource
    <3> QED BY <3>1, <3>2, <3>3, <3>4, <3>5
  <2> QED BY <2>1, <2>2, <2>3
<1>9. HasMemory(form) =>
        Literal(Resolved(T(c, 5).name)) = Cut(SymbolOffset(prog, st.src.name))
  <2> DEFINE n == T(c, 5).name
             found == {k \in DOMAIN dataSymbols : dataSymbols[k].name = n}
  <2>1. SUFFICES ASSUME HasMemory(form) 
                 PROVE  Literal(Resolved(n)) = Cut(SymbolOffset(prog, n))
    BY <1>8
  <2>2. found # {}
    BY <2>1 DEF InstructionForms, Legal
  <2>3. Len(prog) + 1 \in Nat /\ dataSymbols \in Seq(DataSymbol)
    BY <1>2 DEF TypeOK
  <2>4. SymbolsKnown(prog, Len(prog) + 1, dataSymbols, dataOffset)
    BY DEF Progress, Seen
  <2>5. /\ \E j \in Named(prog, "data", n) : j < Len(prog) + 1
        /\ Resolved(n) = SymbolOffset(prog, n)
    <3>1. /\ found # {} => \E j \in Named(prog, "data", n) : j < Len(prog) + 1
          /\ found # {} =>
                dataSymbols[Min(found)].offset = SymbolOffset(prog, n)
      <4> DEFINE seen == Len(prog) + 1
      <4>1. /\ Program(prog) /\ seen \in Nat /\ dataSymbols \in Seq(DataSymbol)
            /\ SymbolsKnown(prog, seen, dataSymbols, dataOffset)
            /\ found = Entries(dataSymbols, n)
        BY <1>2, <2>3, <2>4 DEF Entries
      <4> HIDE DEF n, prog, seen, found, s, st, m, last, text, p
      <4>2. found # {} => EntersSymbol(prog, seen, n)
        BY <4>1, SymbolLookup
      <4>3. found # {} => dataSymbols[Min(found)].offset = SymbolOffset(prog, n)
        BY <4>1, SymbolLookup
      <4> QED BY <4>2, <4>3 DEF seen, EntersSymbol
    <3> QED BY <2>2, <3>1 DEF Resolved
  <2>6. SymbolOffset(prog, n) \in Int
    BY <1>2, <2>5, SymbolOffsetType
  <2> QED BY <2>5, <2>6, CutIs
<1>10. form = <<"Identifier">> =>
        Literal(labels[last.name]) = Cut(LabelTarget(prog, i, st.src.name))
  <2> DEFINE n == last.name
  <2>1. SUFFICES ASSUME form = <<"Identifier">>
                 PROVE  Literal(labels[n]) = Cut(LabelTarget(prog, i, n))
    BY <1>8
  <2>2. Len(form) + 1 = 2
    BY <2>1
  <2>3. n \in DOMAIN labels
    BY <2>1, <2>2 DEF InstructionForms, Legal, Emit
  <2>4. LabelsKnown(prog, i, Len(prog) + 1, labels)
    BY DEF Progress, Seen
  <2> HIDE DEF n, prog
  <2>5. /\ labels[n] = Slot(prog, LabelDef(prog, i, n))
        /\ Named(prog, "label", n) # {}
    BY <2>3, <2>4 DEF LabelsKnown, Before, Named
  <2>6. LabelDef(prog, i, n) \in 1..Len(prog)
    <3>1. i \in Nat
      BY <1>2
    <3>2. LabelDef(prog, i, n) \in Named(prog, "label", n)
      BY <1>2, <2>5, <3>1, LabelDefType
    <3> QED BY <1>2, <3>2 DEF Named, Of, Program
  <2>7. Slot(prog, LabelDef(prog, i, n)) = AddressOf(prog, LabelDef(prog, i, n))
    BY <1>2, <2>6, SlotOfSound DEF prog
  <2>8. AddressOf(prog, LabelDef(prog, i, n)) \in Nat
    <3>1. LabelDef(prog, i, n) \in Nat
      BY <1>2, <2>6
    <3> QED BY <1>2, <3>1, BeforeType DEF AddressOf, prog
  <2>9. AddressOf(prog, LabelDef(prog, i, n)) = LabelTarget(prog, i, n)
    BY DEF LabelDef, LabelTarget
  <2>10. AddressOf(prog, LabelDef(prog, i, n)) \in Int
    BY <2>8
  <2> QED BY <2>5, <2>7, <2>9, <2>10, CutIs
<1>11. Literal(st.src.val) = Cut(st.src.val)
  <2>1. st.src.val \in Int
    BY <1>2, <1>3 DEF Of, Program
  <2> QED BY <2>1, CutIs
<1> DEFINE op == IF m = "call" THEN "CALL"
                 ELSE IF m = "mov" /\ HasMemory(form) THEN "LOAD"
                 ELSE Mnemonics[m]
           dst == IF m = "call" THEN Syscalls[T(c, 2).name]
                  ELSE IF form = <<>> \/ form = <<"Identifier">> \/ m = "push" THEN 0
                  ELSE T(c, 2).val
           src == CASE HasMemory(form) -> Imm(Literal(Resolved(T(c, 5).name)))
                    [] form = <<"Identifier">> -> Imm(Literal(labels[last.name]))
                    [] form = <<>> \/ m \in Unary -> Imm(0)
                    [] last.type = "Number" -> Imm(Literal(last.val))
                    [] OTHER -> Reg(last.val)
           meant == CASE st.src.kind = "reg" -> Reg(st.src.val)
                      [] st.src.kind = "number" -> Imm(Cut(st.src.val))
                      [] st.src.kind = "label" ->
                            Imm(Cut(LabelTarget(prog, i, st.src.name)))
                      [] st.src.kind = "symbol" ->
                            Imm(Cut(SymbolOffset(prog, st.src.name)))
                      [] st.src.kind = "nothing" -> Imm(0)
<1>12. op = IF st.op = "MOV" /\ st.src.kind = "symbol" THEN "LOAD" ELSE st.op
  <2>1. HasMemory(form) => st.src.kind = "symbol"
    BY <1>8
  <2>2. ~HasMemory(form) => st.src.kind # "symbol"
    BY <1>8
  <2>3. /\ Mnemonics["mov"] = "MOV" /\ Mnemonics["load"] = "LOAD"
        /\ Mnemonics["store"] = "STORE"
    BY DEF Mnemonics
  <2> HIDE DEF m, st
  <2> QED BY <1>8, <2>1, <2>2, <2>3
<1>13. dst = st.dst.val
  BY <1>8
<1>14. src = meant
  <2> HIDE DEF m, st, last
  <2>1. CASE HasMemory(form)
    BY <1>7, <1>8, <1>9, <2>1
  <2>2. CASE form = <<"Identifier">>
    BY <1>7, <1>8, <1>10, <2>2
  <2>3. CASE form = <<>> \/ m \in Unary
    BY <1>7, <1>8, <2>3
  <2>4. CASE last.type = "Number"
    BY <1>7, <1>8, <1>11, <2>4
  <2>5. CASE ~(\/ HasMemory(form) \/ form = <<"Identifier">> \/ form = <<>>
               \/ m \in Unary \/ last.type = "Number")
    BY <1>8, <2>5
  <2> QED BY <2>1, <2>2, <2>3, <2>4, <2>5
<1>15. Instruction(c, form) = [op |-> op, dst |-> dst, src |-> src]
  BY DEF Instruction
<1>16. Expected(prog, i) =
        [op |-> IF st.op = "MOV" /\ st.src.kind = "symbol" THEN "LOAD" ELSE st.op,
         dst |-> st.dst.val, src |-> meant]
  BY DEF Expected
<1> HIDE DEF op, dst, src, meant, st, prog
<1> QED BY <1>12, <1>13, <1>14, <1>15, <1>16 DEF prog

-----------------------------------------------------------------------------
(* The steps of the parser. *)

\* A statement that is no instruction emits nothing, ...
LEMMA EmitsNothing ==
    ASSUME NEW prog, Program(prog), NEW i \in 1..Len(prog),
           prog[i].kind \notin {"instr", "junk"}, NEW instrs, NEW bytes,
           Emitted(prog, i, instrs, bytes)
    PROVE  Emitted(prog, i + 1, instrs, bytes)
<1>1. /\ Before(prog, i + 1, "junk") = Before(prog, i, "junk")
      /\ Before(prog, i + 1, "instr") = Before(prog, i, "instr")
  BY BeforeStep
<1>2. AddressOf(prog, i + 1) = AddressOf(prog, i)
  BY <1>1 DEF AddressOf
<1> QED BY <1>1, <1>2 DEF Emitted

\* ... and an instruction its own.
LEMMA EmitsOne ==
    ASSUME NEW prog, Program(prog), NEW i \in 1..Len(prog),
           prog[i].kind = "instr", NEW instrs, NEW bytes,
           Emitted(prog, i, instrs, bytes),
           prog[i].src.kind = "label" =>
                Named(prog, "label", prog[i].src.name) # {},
           NEW e, Sound(prog) => e = Expected(prog, i)
    PROVE  Emitted(prog, i + 1, Append(instrs, e), bytes)
<1>1. /\ Before(prog, i + 1, "junk") = Before(prog, i, "junk")
      /\ Before(prog, i + 1, "instr") = Before(prog, i, "instr") \cup {i}
  BY BeforeStep
<1>2. PICK S : instrs \in Seq(S)
  BY DEF Emitted
<1> DEFINE more == Append(instrs, e)
<1>3. /\ more \in Seq(S \cup {e}) /\ Len(more) = Len(instrs) + 1
      /\ more[Len(instrs) + 1] = e
      /\ \A k \in 1..Len(instrs) : more[k] = instrs[k]
  <2>1. instrs \in Seq(S \cup {e}) /\ e \in S \cup {e}
    BY <1>2
  <2> QED BY <2>1
<1>4. AddressOf(prog, i) \in Nat /\ AddressOf(prog, i + 1) = AddressOf(prog, i) + 1
  <2>1. i \in Nat
    OBVIOUS
  <2> QED BY <2>1, BeforeType, CountStep DEF AddressOf
<1>5. Len(instrs) = AddressOf(prog, i)
  BY DEF Emitted
<1> HIDE DEF more
<1>6. ASSUME Sound(prog), NEW j \in Before(prog, i + 1, "instr")
      PROVE  more[AddressOf(prog, j) + 1] = Expected(prog, j)
  <2>1. CASE j = i
    BY <1>3, <1>5, <1>6, <2>1
  <2>2. CASE j \in Before(prog, i, "instr")
    <3>1. /\ j \in 1..Len(prog) + 1 /\ i \in j..Len(prog) + 1 /\ j < i
          /\ prog[j].kind = "instr" /\ j \in Nat
      BY <2>2 DEF Before, Of, Program
    <3>2. AddressOf(prog, j) < AddressOf(prog, i)
      BY <3>1, CountOrder DEF AddressOf
    <3>3. AddressOf(prog, j) \in Nat
      BY <3>1, BeforeType DEF AddressOf
    <3>4. AddressOf(prog, j) + 1 \in 1..Len(instrs)
      BY <1>4, <1>5, <3>2, <3>3
    <3>5. instrs[AddressOf(prog, j) + 1] = Expected(prog, j)
      BY <1>6, <2>2 DEF Emitted
    <3> QED BY <1>3, <3>4, <3>5
  <2> QED BY <1>1, <2>1, <2>2
<1>7. ASSUME NEW j \in Before(prog, i + 1, "instr"), prog[j].src.kind = "label"
      PROVE  Named(prog, "label", prog[j].src.name) # {}
  BY <1>1, <1>7 DEF Emitted
<1>8. /\ Before(prog, i + 1, "junk") = {} /\ DataRight(prog, bytes)
      /\ \E R : more \in Seq(R)
      /\ Len(more) = AddressOf(prog, i + 1)
  BY <1>1, <1>3, <1>4, <1>5 DEF Emitted
<1> QED BY <1>6, <1>7, <1>8 DEF Emitted, more

\* A step that reads statement i.
ReadsStatement(c) ==
    SwitchSection(c) \/ DefineData(c) \/ DefineLabel(c) \/ ParseInstruction(c)

\* What all of them have in common.
LEMMA Here ==
    ASSUME Reading, NEW c \in Callers, NEW i, Progress(c, i), ReadsStatement(c)
    PROVE  LET prog == source[c].prog IN
           /\ Stands(c, i) /\ Stands(c, i + 1)' /\ pc[c] \in {"first", "second"}
           /\ Program(prog) /\ i \in 1..Len(prog) /\ Len(prog) \in Nat
           /\ Reads(prog, i, Seen(c, i), Seen(c, i + 1))
           /\ UNCHANGED <<pc, source, outcome>>
<1>1. /\ pc[c] \in {"first", "second"} /\ UNCHANGED <<pc, source, outcome>>
  BY DEF ReadsStatement, SwitchSection, DefineData, DefineLabel, ParseInstruction,
         Parsing
<1>2. Stands(c, i)
  BY <1>1 DEF Progress
<1>3. Stands(c, i + 1)' /\ i \in 1..Len(source[c].prog)
  BY <1>2, NextStatement DEF ReadsStatement
<1>4. Program(source[c].prog) /\ Len(source[c].prog) \in Nat
  BY <1>2, WrittenType DEF Stands
<1>5. Reads(source[c].prog, i, Seen(c, i), Seen(c, i + 1))
  BY <1>1 DEF Reads, Seen
<1> QED BY <1>1, <1>2, <1>3, <1>4, <1>5

\* What is left to show of each.
LEMMA Onward ==
    ASSUME Reading, NEW c \in Callers, NEW i, Progress(c, i), ReadsStatement(c),
           NEW prog, prog = source[c].prog, Placed(prog, i),
           section' = SectionOf(prog, i + 1), codeAddress' = Slot(prog, i + 1),
           LabelsKnown(prog, i + 1, Seen(c, i + 1), labels'),
           SymbolsKnown(prog, Seen(c, i + 1), dataSymbols', dataOffset'),
           IF pc[c] = "second" THEN Emitted(prog, i + 1, code'[c], data'[c])
           ELSE code'[c] = <<>>
    PROVE  Progress(c, i + 1)'
<1>1. /\ Stands(c, i + 1)' /\ pc[c] \in {"first", "second"}
      /\ i \in 1..Len(prog) /\ Len(prog) \in Nat
      /\ Reads(prog, i, Seen(c, i), Seen(c, i + 1))
      /\ UNCHANGED <<pc, source, outcome>>
  BY Here
<1>2. Seen(c, i + 1)' = Seen(c, i + 1)
  BY <1>1 DEF Seen
<1>3. \A j \in 1..Len(prog) : j < Seen(c, i + 1) => Placed(prog, j)
  <2>1. \A j \in 1..Len(prog) : j < Seen(c, i) => Placed(prog, j)
    BY DEF Progress
  <2>2. \/ Seen(c, i) = i /\ Seen(c, i + 1) = i + 1
        \/ Seen(c, i + 1) = Seen(c, i)
    BY <1>1 DEF Reads
  <2>3. CASE Seen(c, i) = i /\ Seen(c, i + 1) = i + 1
    <3>1. ASSUME NEW j \in 1..Len(prog), j < i + 1 PROVE Placed(prog, j)
      <4>1. j = i \/ j < i
        BY <1>1, <3>1
      <4> QED BY <2>1, <2>3, <4>1
    <3> QED BY <2>3, <3>1
  <2> QED BY <2>1, <2>2, <2>3
<1>4. outcome[c] = "none"
  BY DEF Progress
<1> QED BY <1>1, <1>2, <1>3, <1>4 DEF Progress

\* What stands there is what is written there.
LEMMA WrittenHere ==
    ASSUME Reading, NEW c \in Callers, NEW i, Stands(c, i),
           i \in 1..Len(source[c].prog)
    PROVE  /\ \E q : Written(Text(c), lexer[c].position, q, source[c].prog[i])
           /\ \A k \in Nat \ {0} : T(c, k) = At(Text(c), lexer[c].position, k)
<1>1. SourceWritten(source[c])
  BY WrittenType DEF Stands
<1>2. /\ Text(c) = source[c].text /\ lexer[c].position = source[c].start[i]
  BY DEF Stands, Text
<1>3. \E q : Written(Text(c), lexer[c].position, q, source[c].prog[i])
  BY <1>1, <1>2 DEF SourceWritten
<1>4. ASSUME NEW k \in Nat \ {0}
      PROVE  T(c, k) = At(Text(c), lexer[c].position, k)
  BY UpcomingAt DEF Reading
<1> QED BY <1>3, <1>4

\* Statements other than labels, data and instructions leave the tables alone.
LEMMA TablesStay ==
    ASSUME Reading, NEW c \in Callers, NEW i, Progress(c, i), ReadsStatement(c),
           NEW prog, prog = source[c].prog
    PROVE  /\ prog[i].kind # "label" =>
                LabelsKnown(prog, i + 1, Seen(c, i + 1), labels)
           /\ prog[i].kind # "data" =>
                SymbolsKnown(prog, Seen(c, i + 1), dataSymbols, dataOffset)
           /\ prog[i].kind \notin {"instr", "junk"} =>
                /\ codeAddress = Slot(prog, i + 1)
                /\ IF pc[c] = "second"
                   THEN Emitted(prog, i + 1, code[c], data[c])
                   ELSE code[c] = <<>>
           /\ prog[i].kind # "section" => section = SectionOf(prog, i + 1)
<1>1. /\ Program(prog) /\ i \in 1..Len(prog)
      /\ Reads(prog, i, Seen(c, i), Seen(c, i + 1))
  BY Here
<1>2. /\ section = SectionOf(prog, i) /\ codeAddress = Slot(prog, i)
      /\ LabelsKnown(prog, i, Seen(c, i), labels)
      /\ SymbolsKnown(prog, Seen(c, i), dataSymbols, dataOffset)
      /\ IF pc[c] = "second" THEN Emitted(prog, i, code[c], data[c])
         ELSE code[c] = <<>>
  BY DEF Progress
<1>3. prog[i].kind # "label" => LabelsKnown(prog, i + 1, Seen(c, i + 1), labels)
  BY <1>1, <1>2, LabelsStep
<1>4. prog[i].kind # "data" =>
        SymbolsKnown(prog, Seen(c, i + 1), dataSymbols, dataOffset)
  <2>1. CASE Seen(c, i) = i /\ Seen(c, i + 1) = i + 1
    BY <1>1, <1>2, <2>1, SymbolsSame
  <2>2. CASE Seen(c, i + 1) = Seen(c, i)
    BY <1>2, <2>2
  <2> QED BY <1>1, <2>1, <2>2 DEF Reads
<1>5. prog[i].kind \notin {"instr", "junk"} => codeAddress = Slot(prog, i + 1)
  BY <1>1, <1>2, SlotStep
<1>6. prog[i].kind \notin {"instr", "junk"} =>
        IF pc[c] = "second" THEN Emitted(prog, i + 1, code[c], data[c])
        ELSE code[c] = <<>>
  BY <1>1, <1>2, EmitsNothing
<1>7. prog[i].kind # "section" => section = SectionOf(prog, i + 1)
  BY <1>1, <1>2, SectionStep
<1> QED BY <1>3, <1>4, <1>5, <1>6, <1>7

LEMMA SectionRead ==
    ASSUME Reading, NEW c \in Callers, NEW i, Progress(c, i), SwitchSection(c)
    PROVE  Progress(c, i + 1)'
<1> DEFINE prog == source[c].prog
<1>1. /\ Stands(c, i) /\ Program(prog) /\ i \in 1..Len(prog)
      /\ ReadsStatement(c)
  BY Here DEF ReadsStatement
<1>2. prog[i].kind = "section"
  BY <1>1, KindSeen DEF SwitchSection
<1>3. section' = prog[i].name
  <2>1. PICK q : Written(Text(c), lexer[c].position, q, prog[i])
    BY <1>1, WrittenHere
  <2>2. prog[i].name = At(Text(c), lexer[c].position, 1).name
    BY <1>2, <2>1 DEF Written
  <2>3. 1 \in Nat \ {0}
    OBVIOUS
  <2>4. T(c, 1) = At(Text(c), lexer[c].position, 1)
    BY <1>1, <2>3, WrittenHere
  <2> QED BY <2>2, <2>4 DEF SwitchSection
<1>4. section' = SectionOf(prog, i + 1)
  BY <1>1, <1>2, <1>3, SectionStep
<1>5. Placed(prog, i)
  BY <1>2 DEF Placed
<1>6. /\ codeAddress = Slot(prog, i + 1)
      /\ LabelsKnown(prog, i + 1, Seen(c, i + 1), labels)
      /\ SymbolsKnown(prog, Seen(c, i + 1), dataSymbols, dataOffset)
      /\ IF pc[c] = "second" THEN Emitted(prog, i + 1, code[c], data[c])
         ELSE code[c] = <<>>
  BY <1>1, <1>2, TablesStay
<1>7. UNCHANGED <<labels, dataSymbols, codeAddress, dataOffset, code, data>>
  BY DEF SwitchSection
<1> QED BY <1>1, <1>4, <1>5, <1>6, <1>7, Onward

LEMMA DataRead ==
    ASSUME TypeOK, Reading, NEW c \in Callers, NEW i, Progress(c, i), DefineData(c)
    PROVE  Progress(c, i + 1)'
<1> DEFINE prog == source[c].prog
           symbol == [name |-> T(c, 2).name, type |-> T(c, 1).name,
                      value |-> Literal(T(c, 3).val), offset |-> dataOffset]
<1>1. /\ Stands(c, i) /\ Program(prog) /\ i \in 1..Len(prog)
      /\ ReadsStatement(c) /\ pc[c] \in {"first", "second"}
      /\ Reads(prog, i, Seen(c, i), Seen(c, i + 1))
  BY Here DEF ReadsStatement
<1>2. prog[i].kind = "data" /\ section = "DATA"
  BY <1>1, KindSeen DEF DefineData
<1>3. /\ dataSymbols' = IF Emit(c) THEN dataSymbols ELSE Append(dataSymbols, symbol)
      /\ dataOffset' = IF Emit(c) THEN dataOffset
                       ELSE dataOffset + DataSize[symbol.type]
      /\ UNCHANGED <<labels, section, codeAddress, code, data>>
  BY DEF DefineData
<1>4. /\ T(c, 1).name = prog[i].type /\ T(c, 2).name = prog[i].name
      /\ T(c, 3).val = prog[i].val
  <2> DEFINE p == lexer[c].position
  <2>1. PICK q : Written(Text(c), p, q, prog[i])
    BY <1>1, WrittenHere
  <2>2. /\ prog[i].type = At(Text(c), p, 1).name
        /\ prog[i].name = At(Text(c), p, 2).name
        /\ prog[i].val = At(Text(c), p, 3).val
    BY <1>2, <2>1 DEF Written
  <2>3. 1 \in Nat \ {0} /\ 2 \in Nat \ {0} /\ 3 \in Nat \ {0}
    OBVIOUS
  <2>4. /\ T(c, 1) = At(Text(c), p, 1) /\ T(c, 2) = At(Text(c), p, 2)
        /\ T(c, 3) = At(Text(c), p, 3)
    BY <1>1, <2>3, WrittenHere
  <2> QED BY <2>2, <2>4
<1>5. section = SectionOf(prog, i) /\ SymbolsKnown(prog, Seen(c, i), dataSymbols, dataOffset)
  BY DEF Progress
<1>6. Placed(prog, i)
  BY <1>2, <1>5 DEF Placed
<1>7. SymbolsKnown(prog, Seen(c, i + 1), dataSymbols', dataOffset')
  <2>1. CASE pc[c] = "first"
    <3>1. Seen(c, i) = i /\ Seen(c, i + 1) = i + 1 /\ ~Emit(c)
      BY <2>1 DEF Seen, Emit
    <3>2. dataOffset = OffsetOf(prog, i)
      BY <1>5, <3>1 DEF SymbolsKnown
    <3>3. symbol = SymbolOf(prog, i) /\ symbol.type = prog[i].type
      BY <1>4, <3>2 DEF SymbolOf
    <3> HIDE DEF symbol
    <3>4. dataSymbols' = Append(dataSymbols, SymbolOf(prog, i))
          /\ dataOffset' = dataOffset + DataSize[prog[i].type]
      BY <1>3, <3>1, <3>3
    <3>5. dataSymbols \in Seq(DataSymbol)
      BY DEF TypeOK
    <3>6. SymbolsKnown(prog, i + 1, Append(dataSymbols, SymbolOf(prog, i)),
                       dataOffset + DataSize[prog[i].type])
      BY <1>1, <1>2, <1>5, <3>1, <3>5, SymbolsAdd
    <3> QED BY <3>1, <3>4, <3>6
  <2>2. CASE pc[c] = "second"
    <3>1. Seen(c, i + 1) = Seen(c, i) /\ Emit(c)
      BY <2>2 DEF Seen, Emit
    <3> QED BY <1>3, <1>5, <3>1
  <2> QED BY <1>1, <2>1, <2>2
<1>8. /\ codeAddress = Slot(prog, i + 1) /\ section = SectionOf(prog, i + 1)
      /\ LabelsKnown(prog, i + 1, Seen(c, i + 1), labels)
      /\ IF pc[c] = "second" THEN Emitted(prog, i + 1, code[c], data[c])
         ELSE code[c] = <<>>
  BY <1>1, <1>2, TablesStay
<1> QED BY <1>1, <1>3, <1>6, <1>7, <1>8, Onward

LEMMA LabelRead ==
    ASSUME Reading, NEW c \in Callers, NEW i, Progress(c, i), DefineLabel(c)
    PROVE  Progress(c, i + 1)'
<1> DEFINE prog == source[c].prog
           name == T(c, 1).name
<1>1. /\ Stands(c, i) /\ Program(prog) /\ i \in 1..Len(prog)
      /\ ReadsStatement(c) /\ Reads(prog, i, Seen(c, i), Seen(c, i + 1))
  BY Here DEF ReadsStatement
<1>2. prog[i].kind = "label" /\ section = "CODE"
  BY <1>1, KindSeen DEF DefineLabel
<1>3. name = prog[i].name
  <2>1. PICK q : Written(Text(c), lexer[c].position, q, prog[i])
    BY <1>1, WrittenHere
  <2>2. prog[i].name = At(Text(c), lexer[c].position, 1).name
    BY <1>2, <2>1 DEF Written
  <2>3. 1 \in Nat \ {0}
    OBVIOUS
  <2>4. T(c, 1) = At(Text(c), lexer[c].position, 1)
    BY <1>1, <2>3, WrittenHere
  <2> QED BY <2>2, <2>4
<1>4. /\ labels' = [n \in DOMAIN labels \cup {name} |->
                        IF n = name THEN codeAddress ELSE labels[n]]
      /\ UNCHANGED <<dataSymbols, section, codeAddress, dataOffset, code, data>>
  BY DEF DefineLabel
<1>5. /\ section = SectionOf(prog, i) /\ codeAddress = Slot(prog, i)
      /\ LabelsKnown(prog, i, Seen(c, i), labels)
  BY DEF Progress
<1>6. Placed(prog, i)
  BY <1>2, <1>5 DEF Placed
<1>7. LabelsKnown(prog, i + 1, Seen(c, i + 1), labels')
  <2>1. labels' = [n \in DOMAIN labels \cup {prog[i].name} |->
                    IF n = prog[i].name THEN Slot(prog, i) ELSE labels[n]]
    BY <1>3, <1>4, <1>5
  <2>2. LabelsKnown(prog, i + 1, Seen(c, i + 1),
                    [n \in DOMAIN labels \cup {prog[i].name} |->
                        IF n = prog[i].name THEN Slot(prog, i) ELSE labels[n]])
    BY <1>1, <1>2, <1>5, LabelsStep
  <2> QED BY <2>1, <2>2
<1>8. /\ codeAddress = Slot(prog, i + 1) /\ section = SectionOf(prog, i + 1)
      /\ SymbolsKnown(prog, Seen(c, i + 1), dataSymbols, dataOffset)
      /\ IF pc[c] = "second" THEN Emitted(prog, i + 1, code[c], data[c])
         ELSE code[c] = <<>>
  BY <1>1, <1>2, TablesStay
<1> QED BY <1>1, <1>4, <1>6, <1>7, <1>8, Onward

\* Only operands in memory are symbols and only a lone name is a label.
LEMMA SourceKinds ==
    ASSUME NEW text, NEW p, NEW form \in FormsAt(text, p), NEW src,
           WritesSource(text, p, form, src)
    PROVE  /\ src.kind = "symbol" <=> HasMemory(form)
           /\ src.kind = "symbol" => src.name = At(text, p, 5).name
           /\ src.kind = "label" <=> form = <<"Identifier">>
           /\ src.kind = "label" => src.name = At(text, p, 2).name
<1>0. ~BareCall(At(text, p, 1).name, form)
  BY FormsShapes DEF FormsAt
<1>1. CASE HasMemory(form)
  BY <1>0, <1>1, FormGuards DEF WritesSource
<1>2. CASE ~HasMemory(form) /\ form = <<"Identifier">>
  <2>1. Len(form) + 1 = 2
    BY <1>2
  <2>2. src.kind = "label" /\ src.name = At(text, p, Len(form) + 1).name
    BY <1>0, <1>2, FormGuards, LabelOperand DEF WritesSource, BareCall
  <2>3. src.name = At(text, p, 2).name
    BY <2>1, <2>2
  <2> QED BY <1>2, <2>2, <2>3
<1>3. CASE ~HasMemory(form) /\ form # <<"Identifier">>
  BY <1>3 DEF WritesSource
<1> QED BY <1>1, <1>2, <1>3

\* The operands the parser accepts are those of the statement.
LEMMA FormWritten ==
    ASSUME Reading, NEW c \in Callers, NEW i, Stands(c, i), AtInstruction(c),
           NEW form \in InstructionForms(c)
    PROVE  LET st == source[c].prog[i]
               text == Text(c)
               p == lexer[c].position
           IN  /\ form \in FormsAt(text, p)
               /\ st.kind = "instr" => WritesInstruction(text, p, form, st)
               /\ st.kind = "junk" => ~Sensible(text, p, form)
<1> DEFINE st == source[c].prog[i]
           text == Text(c)
           p == lexer[c].position
<1>1. i \in 1..Len(source[c].prog)
  BY KindSeen
<1>2. PICK q : Written(text, p, q, st)
  BY <1>1, WrittenHere
<1>3. form \in FormsAt(text, p)
  BY FormsSeen
<1>4. ASSUME st.kind = "instr" PROVE WritesInstruction(text, p, form, st)
  <2>1. PICK g \in ShapesAt(text, p) : WritesInstruction(text, p, g, st)
    BY <1>2, <1>4 DEF Written
  <2> QED BY <1>3, <2>1, FormIsShape
<1>5. ASSUME st.kind = "junk" PROVE ~Sensible(text, p, form)
  <2>1. ShapesAt(text, p) = {}
    BY <1>2, <1>5 DEF Written
  <2> QED BY <1>3, <2>1, FormIsShape
<1> QED BY <1>3, <1>4, <1>5

LEMMA InstructionRead ==
    ASSUME TypeOK, Reading, NEW c \in Callers, NEW i, Progress(c, i),
           code = [d \in Callers |-> code[d]], ParseInstruction(c)
    PROVE  Progress(c, i + 1)'
<1> DEFINE prog == source[c].prog
           st == prog[i]
           text == Text(c)
           p == lexer[c].position
<1>1. /\ Stands(c, i) /\ Program(prog) /\ i \in 1..Len(prog) /\ Len(prog) \in Nat
      /\ ReadsStatement(c) /\ pc[c] \in {"first", "second"}
  BY Here DEF ReadsStatement
<1>2. AtInstruction(c) /\ st.kind \in {"instr", "junk"} /\ section = "CODE"
  BY <1>1, KindSeen DEF ParseInstruction
<1>3. PICK form \in InstructionForms(c) :
        code' = IF Emit(c)
                THEN [code EXCEPT ![c] = Append(@, Instruction(c, form))]
                ELSE code
  BY DEF ParseInstruction
<1>4. /\ codeAddress' = codeAddress + 1
      /\ UNCHANGED <<labels, dataSymbols, section, dataOffset, data>>
  BY DEF ParseInstruction, NextAddress
<1>5. /\ section = SectionOf(prog, i) /\ codeAddress = Slot(prog, i)
      /\ LabelsKnown(prog, i, Seen(c, i), labels)
      /\ SymbolsKnown(prog, Seen(c, i), dataSymbols, dataOffset)
      /\ \A j \in 1..Len(prog) : j < Seen(c, i) => Placed(prog, j)
      /\ IF pc[c] = "second" THEN Emitted(prog, i, code[c], data[c])
         ELSE code[c] = <<>>
  BY DEF Progress
<1>6. /\ form \in FormsAt(text, p)
      /\ st.kind = "instr" => WritesInstruction(text, p, form, st)
      /\ st.kind = "junk" => ~Sensible(text, p, form)
  BY <1>1, <1>2, FormWritten
<1>7. T(c, 1) = At(text, p, 1) /\ T(c, 2) = At(text, p, 2) /\ T(c, 5) = At(text, p, 5)
  <2>1. 1 \in Nat \ {0} /\ 2 \in Nat \ {0} /\ 5 \in Nat \ {0}
    OBVIOUS
  <2> QED BY <1>1, <2>1, WrittenHere
<1>8. Legal(c, form)
  BY DEF InstructionForms
<1>9. st.kind = "instr" =>
        /\ st.src.kind = "symbol" => /\ HasMemory(form)
                                     /\ st.src.name = T(c, 5).name
        /\ st.src.kind = "label" => /\ form = <<"Identifier">>
                                    /\ st.src.name = T(c, 2).name
  <2>1. st.kind = "instr" => WritesSource(text, p, form, st.src)
    BY <1>6 DEF WritesInstruction
  <2> QED BY <1>6, <1>7, <2>1, SourceKinds
<1> HIDE DEF st, text, p
<1>10. Placed(prog, i)
  <2>1. CASE pc[c] = "second"
    <3>1. Seen(c, i) = Len(prog) + 1 /\ i < Len(prog) + 1
      BY <1>1, <2>1 DEF Seen
    <3> QED BY <1>1, <1>5, <3>1
  <2>2. CASE pc[c] = "first"
    <3>1. Seen(c, i) = i
      BY <2>2 DEF Seen
    <3>2. ASSUME st.kind = "instr", st.src.kind = "symbol"
          PROVE  \E k \in Named(prog, "data", st.src.name) : k < i
      <4>1. Entries(dataSymbols, st.src.name) # {}
        BY <1>8, <1>9, <3>2 DEF Legal, Entries
      <4>2. i \in Nat /\ dataSymbols \in Seq(DataSymbol)
        BY <1>1 DEF TypeOK
      <4>3. EntersSymbol(prog, i, st.src.name)
        BY <1>1, <1>5, <3>1, <4>1, <4>2, SymbolLookup
      <4> QED BY <4>3 DEF EntersSymbol
    <3> QED BY <1>2, <1>5, <3>2 DEF Placed, st
  <2> QED BY <1>1, <2>1, <2>2
<1>11. codeAddress' = Slot(prog, i + 1)
  BY <1>1, <1>2, <1>4, <1>5, SlotStep DEF st
<1>12. IF pc[c] = "second" THEN Emitted(prog, i + 1, code'[c], data'[c])
       ELSE code'[c] = <<>>
  <2>1. CASE pc[c] = "second"
    <3>1. Emit(c) /\ Emitted(prog, i, code[c], data[c])
      BY <1>5, <2>1 DEF Emit
    <3>2. Sensible(text, p, form)
      BY <1>7, <1>8, <3>1 DEF Legal, Sensible, KnownCall
    <3>3. st.kind = "instr"
      BY <1>2, <1>6, <3>2
    <3>4. ASSUME st.src.kind = "label"
          PROVE  Named(prog, "label", st.src.name) # {}
      <4>1. st.src.name \in DOMAIN labels
        BY <1>8, <1>9, <3>1, <3>3, <3>4 DEF Legal
      <4>2. PICK j \in Before(prog, Seen(c, i), "label") : prog[j].name = st.src.name
        BY <1>5, <4>1 DEF LabelsKnown
      <4> QED BY <4>2 DEF Before, Named
    <3>5. Sound(prog) => Instruction(c, form) = Expected(prog, i)
      BY <1>2, <2>1, InstructionRight
    <3> DEFINE e == Instruction(c, form)
    <3> HIDE DEF e
    <3>6. code'[c] = Append(code[c], e)
      BY <1>3, <3>1 DEF e
    <3>7. Emitted(prog, i + 1, Append(code[c], e), data[c])
      BY <1>1, <3>1, <3>3, <3>4, <3>5, EmitsOne DEF e, st
    <3> QED BY <1>4, <2>1, <3>6, <3>7
  <2>2. CASE pc[c] = "first"
    BY <1>3, <1>5, <2>2 DEF Emit
  <2> QED BY <1>1, <2>1, <2>2
<1>13. /\ LabelsKnown(prog, i + 1, Seen(c, i + 1), labels)
       /\ SymbolsKnown(prog, Seen(c, i + 1), dataSymbols, dataOffset)
       /\ section = SectionOf(prog, i + 1)
  BY <1>1, <1>2, TablesStay DEF st
<1> QED BY <1>1, <1>4, <1>10, <1>11, <1>12, <1>13, Onward

LEMMA ParseBegun ==
    ASSUME TypeOK, Reading, Parsed, NEW c \in Callers, NEW s \in Sources, Begin(c, s)
    PROVE  Progress(c, 1)'
<1> DEFINE prog == s.prog
<1>1. /\ source'[c] = s /\ lexer'[c] = SkipNewlines(s.text, FreshLexer)
      /\ code'[c] = <<>> /\ pc'[c] = "first" /\ outcome'[c] = "none"
  BY DEF Begin, TypeOK, Reading, Parsed
<1>2. /\ labels' = Empty /\ dataSymbols' = <<>> /\ section' = "NONE"
      /\ codeAddress' = 0 /\ dataOffset' = 0
  BY DEF Begin, ClearTables
<1>3. /\ Program(prog) /\ SourceWritten(s) /\ Len(prog) \in Nat
      /\ s.text \in Seq(Token) /\ 1 \in 1..Len(prog) + 1
  BY WrittenType
<1>4. Stands(c, 1)'
  <2> DEFINE r == s.start[1]
  <2>1. Exact(s.text, FreshLexer) /\ FreshLexer.position = 0
    BY <1>3, FreshExact DEF FreshLexer
  <2>2. r \in 0..Len(s.text) /\ OnlyNewlines(s.text, 0, r)
    BY <1>3, WrittenType DEF SourceWritten
  <2>3. ReadToken(s.text, r).type # "Newline"
    BY <1>3, StartToken
  <2> HIDE DEF r
  <2>4. SkipNewlines(s.text, FreshLexer).position = r
    BY <1>3, <2>1, <2>2, <2>3, SkipTo
  <2> QED BY <1>1, <1>3, <2>4 DEF Stands, r
<1>5. /\ \A kind : Before(prog, 1, kind) = {}
      /\ SectionOf(prog, 1) = "NONE" /\ OffsetOf(prog, 1) = 0
      /\ \A kind : Cardinality(Before(prog, 1, kind)) = 0
  BY <1>3, BeforeEnds, EndsOf
<1>6. Slot(prog, 1) = 0
  BY <1>5 DEF Slot, AddressOf
<1>7. LabelsKnown(prog, 1, 1, Empty)
  BY <1>5 DEF LabelsKnown, Empty
<1>8. SymbolsKnown(prog, 1, <<>>, 0)
  BY <1>5 DEF SymbolsKnown
<1>9. Seen(c, 1)' = 1 /\ \A j \in 1..Len(prog) : ~(j < 1)
  BY <1>1, <1>3 DEF Seen
<1> QED BY <1>1, <1>2, <1>4, <1>5, <1>6, <1>7, <1>8, <1>9 DEF Progress

LEMMA FirstPassEnded ==
    ASSUME TypeOK, Reading, NEW c \in Callers, NEW i, Progress(c, i), EndFirstPass(c)
    PROVE  Progress(c, 1)'
<1> DEFINE prog == source[c].prog
           end == Len(prog) + 1
<1>1. /\ pc[c] = "first" /\ Stands(c, i) /\ Program(prog) /\ Len(prog) \in Nat
      /\ source[c] \in Sources
  BY WrittenType DEF EndFirstPass, Progress, Stands
<1>2. i = end /\ Seen(c, i) = end
  BY <1>1, KindSeen DEF EndFirstPass, Seen
<1>3. /\ pc'[c] = "image" /\ section' = "NONE" /\ codeAddress' = 0
      /\ lexer'[c].position = 0
      /\ UNCHANGED <<labels, dataSymbols, dataOffset, source, code, outcome>>
  BY DEF EndFirstPass, TypeOK, Reading, Exact, LexerState, Reset
<1>4. /\ \A kind : Cardinality(Before(prog, 1, kind)) = 0
      /\ SectionOf(prog, 1) = "NONE"
  BY <1>1, EndsOf
<1>5. Slot(prog, 1) = 0
  BY <1>4 DEF Slot, AddressOf
<1>6. LabelsKnown(prog, 1, end, labels)
  <2>1. LabelsKnown(prog, end, end, labels)
    BY <1>2 DEF Progress
  <2>2. \A n : LabelDef(prog, end, n) = LabelDef(prog, 1, n)
    BY <1>1, LabelDefEnds
  <2> HIDE DEF end, prog
  <2> QED BY <2>1, <2>2 DEF LabelsKnown
<1>7. Seen(c, 1)' = end
  BY <1>3 DEF Seen
<1>8. /\ SymbolsKnown(prog, end, dataSymbols, dataOffset)
      /\ \A j \in 1..Len(prog) : j < end => Placed(prog, j)
      /\ code[c] = <<>> /\ outcome[c] = "none"
  BY <1>1, <1>2 DEF Progress
<1> QED BY <1>1, <1>3, <1>4, <1>5, <1>6, <1>7, <1>8 DEF Progress

LEMMA ImageBuilt ==
    ASSUME TypeOK, Reading, Parsed, NEW c \in Callers, NEW i, Progress(c, i),
           BuildImage(c)
    PROVE  Progress(c, 1)'
<1> DEFINE s == source[c]
           prog == s.prog
           end == Len(prog) + 1
<1>1. /\ pc[c] = "image" /\ s \in Sources /\ i = 1 /\ lexer[c].position = 0
  BY DEF BuildImage, Progress
<1>2. /\ Program(prog) /\ SourceWritten(s) /\ Len(prog) \in Nat
      /\ s.text \in Seq(Token) /\ 1 \in 1..Len(prog) + 1 /\ Text(c) = s.text
  BY <1>1, WrittenType DEF Text
<1>3. /\ pc'[c] = "second" /\ section' = "NONE" /\ codeAddress' = 0
      /\ lexer'[c] = SkipNewlines(Text(c), lexer[c])
      /\ data'[c] = [b \in 1..dataOffset |->
                        LET sym == SymbolAt(b - 1)
                        IN  ByteOf(sym.value, b - 1 - sym.offset)]
      /\ UNCHANGED <<labels, dataSymbols, dataOffset, source, code, outcome>>
  BY DEF BuildImage, LexerAt, TypeOK, Reading, Parsed
<1>4. Stands(c, 1)'
  <2> DEFINE r == s.start[1]
  <2>1. Exact(s.text, lexer[c])
    BY <1>2 DEF Reading
  <2>2. r \in 0..Len(s.text) /\ OnlyNewlines(s.text, 0, r)
    BY <1>1, <1>2, WrittenType DEF SourceWritten
  <2>3. ReadToken(s.text, r).type # "Newline"
    BY <1>1, <1>2, StartToken
  <2> HIDE DEF r
  <2>4. SkipNewlines(s.text, lexer[c]).position = r
    BY <1>1, <1>2, <2>1, <2>2, <2>3, SkipTo
  <2> QED BY <1>1, <1>2, <1>3, <2>4 DEF Stands, r
<1>5. /\ \A kind : Before(prog, 1, kind) = {}
      /\ SectionOf(prog, 1) = "NONE"
      /\ \A kind : Cardinality(Before(prog, 1, kind)) = 0
  BY <1>2, BeforeEnds, EndsOf
<1>6. Slot(prog, 1) = 0 /\ AddressOf(prog, 1) = 0
  BY <1>5 DEF Slot, AddressOf
<1>7. Seen(c, 1) = end /\ Seen(c, 1)' = end
  BY <1>1, <1>3 DEF Seen
<1>8. /\ LabelsKnown(prog, 1, end, labels)
      /\ SymbolsKnown(prog, end, dataSymbols, dataOffset)
      /\ \A j \in 1..Len(prog) : j < end => Placed(prog, j)
      /\ code[c] = <<>> /\ outcome[c] = "none"
  BY <1>1, <1>7 DEF Progress
<1>9. DataRight(prog, data'[c])
  <2>1. dataSymbols \in Seq(DataSymbol)
    BY DEF TypeOK
  <2>2. data'[c] = ImageOf(dataSymbols, dataOffset)
    BY <1>3 DEF SymbolAt, ImageOf
  <2> HIDE DEF prog
  <2> QED BY <1>2, <1>8, <2>1, <2>2, ImageRight
<1>10. Emitted(prog, 1, <<>>, data'[c])
  <2>1. <<>> \in Seq({}) /\ Len(<<>>) = 0
    OBVIOUS
  <2> HIDE DEF prog
  <2> QED BY <1>5, <1>6, <1>9, <2>1 DEF Emitted
<1> QED BY <1>1, <1>3, <1>4, <1>5, <1>6, <1>7, <1>8, <1>10 DEF Progress

\* A program is rejected because of the statement the parser is at.
LEMMA Refused ==
    ASSUME TypeOK, Reading, NEW c \in Callers, NEW i, Progress(c, i), Reject(c),
           CallsGiven(source[c].prog)
    PROVE  ~Acceptable(source[c].prog)
<1> DEFINE prog == source[c].prog
           st == prog[i]
           text == Text(c)
           p == lexer[c].position
<1>1. pc[c] \in {"first", "second"} /\ Stands(c, i)
  BY DEF Reject, Parsing, Progress
<1>2. /\ ~AtEnd(c) /\ ~AtSection(c) /\ ~AtData(c) /\ ~AtLabel(c)
      /\ ~AtInstruction(c)
  BY DEF Reject
<1>3. /\ i \in 1..Len(prog) /\ Program(prog) /\ Len(prog) \in Nat
      /\ i \in DOMAIN prog
  BY <1>1, <1>2, KindSeen, WrittenType DEF Stands, Program
<1>4. /\ section = SectionOf(prog, i)
      /\ LabelsKnown(prog, i, Seen(c, i), labels)
      /\ SymbolsKnown(prog, Seen(c, i), dataSymbols, dataOffset)
  BY DEF Progress
<1>5. /\ st.kind \in {"data", "label", "instr", "junk"}
      /\ st.kind = "data" => section # "DATA"
      /\ st.kind = "label" => section # "CODE"
  BY <1>1, <1>2, <1>3, KindSeen
<1>6. ASSUME st.kind = "instr", section = "CODE"
      PROVE  ~Resolvable(prog, i, st.src)
  <2>1. PICK q : Written(text, p, q, st)
    BY <1>1, <1>3, WrittenHere
  <2>2. PICK form \in ShapesAt(text, p) : WritesInstruction(text, p, form, st)
    BY <1>6, <2>1 DEF Written
  <2>13. ~BareCall(At(text, p, 1).name, form)
    <3>1. SUFFICES ASSUME BareCall(At(text, p, 1).name, form) PROVE FALSE
      OBVIOUS
    <3>2. st.op = "CALL"
      BY <2>2, <3>1 DEF WritesInstruction, BareCall
    <3>3. ~HasMemory(form)
      <4>1. Len(<<"Identifier">>) # 5
        OBVIOUS
      <4> QED BY <3>1, <4>1 DEF HasMemory, BareCall
    <3>4. st.src.kind = "nothing"
      <4>1. form = <<"Identifier">> /\ Len(form) + 1 = 2
        BY <3>1 DEF BareCall
      <4>2. At(text, p, Len(form) + 1).type = "Identifier"
        BY <4>1, ShapeTokens
      <4>3. ~(form = <<"Identifier">> /\ At(text, p, 1).name # "call")
        BY <3>1 DEF BareCall
      <4> QED BY <2>2, <3>1, <3>3, <4>2, <4>3 DEF WritesInstruction, WritesSource
    <3>5. i \in Of(prog, "instr")
      BY <1>3, <1>6 DEF Of
    <3> QED BY <3>2, <3>4, <3>5 DEF CallsGiven
  <2>14. form \in FormsAt(text, p)
    BY <2>13, FormsShapes DEF FormsAt, ShapesAt
  <2>3. form \in Forms(At(text, p, 1).name) /\ Tokens(text, p, <<"Identifier">> \o form)
    BY <2>14 DEF FormsAt, Carries
  <2>4. ASSUME NEW k \in Nat \ {0} PROVE T(c, k) = At(text, p, k)
    BY <1>1, <1>3, <2>4, WrittenHere
  <2>5. T(c, 1) = At(text, p, 1) /\ T(c, 2) = At(text, p, 2) /\ T(c, 5) = At(text, p, 5)
    <3>1. 1 \in Nat \ {0} /\ 2 \in Nat \ {0} /\ 5 \in Nat \ {0}
      OBVIOUS
    <3> QED BY <2>4, <3>1
  <2>6. form \in Forms(T(c, 1).name) /\ Follow(c, <<"Identifier">> \o form)
    <3>1. form \in Seq(TokenTypes)
      BY <2>14, FormTokens
    <3>2. DOMAIN (<<"Identifier">> \o form) \in SUBSET (Nat \ {0})
      BY <3>1
    <3> QED BY <2>3, <2>5, <3>2, FollowAt
  <2>7. ~Legal(c, form)
    <3>1. form \notin InstructionForms(c)
      BY <1>2, <1>6 DEF AtInstruction
    <3> QED BY <2>6, <3>1 DEF InstructionForms
  <2>8. Sensible(text, p, form) /\ WritesSource(text, p, form, st.src)
    BY <2>2, <2>14, FormIsShape DEF WritesInstruction
  <2>9. \A k \in 2..Len(form) + 1 :
            /\ T(c, k).type = "Register" => T(c, k).val < NumRegs
            /\ T(c, k).type = "Number" => T(c, k).name # "-"
    <3>1. ASSUME NEW k \in 2..Len(form) + 1
          PROVE  /\ T(c, k).type = "Register" => T(c, k).val < NumRegs
                 /\ T(c, k).type = "Number" => T(c, k).name # "-"
      <4>1. k \in Nat \ {0}
        BY <2>14, FormTokens
      <4>2. T(c, k) = At(text, p, k)
        BY <2>4, <4>1
      <4> QED BY <2>14, <4>2 DEF FormsAt, Carries
    <3> QED BY <3>1
  <2> HIDE DEF st, text, p
  <2>10. CASE HasMemory(form) /\ Entries(dataSymbols, T(c, 5).name) = {}
    <3>1. st.src.kind = "symbol" /\ st.src.name = T(c, 5).name
      BY <2>5, <2>8, <2>10, <2>14, SourceKinds
    <3>2. Seen(c, i) \in Nat /\ i <= Seen(c, i) /\ dataSymbols \in Seq(DataSymbol)
      BY <1>3 DEF Seen, TypeOK
    <3>3. ~EntersSymbol(prog, Seen(c, i), T(c, 5).name)
      BY <1>3, <1>4, <2>10, <3>2, SymbolLookup
    <3>4. \A j \in Named(prog, "data", st.src.name) : ~(j < i)
      <4>1. ASSUME NEW j \in Named(prog, "data", st.src.name), j < i PROVE FALSE
        <5>1. j \in Nat /\ i \in Nat
          BY <1>3 DEF Named, Of, Program
        <5>2. j < Seen(c, i)
          BY <3>2, <4>1, <5>1
        <5> QED BY <3>1, <3>3, <5>2 DEF EntersSymbol
      <4> QED BY <4>1
    <3> QED BY <3>1, <3>4 DEF Resolvable
  <2>11. CASE Emit(c) /\ form = <<"Identifier">> /\ T(c, 2).name \notin DOMAIN labels
    <3>2. st.src.kind = "label" /\ st.src.name = T(c, 2).name
      BY <2>5, <2>8, <2>11, <2>14, SourceKinds
    <3>3. Seen(c, i) = Len(prog) + 1
      BY <2>11 DEF Seen, Emit
    <3>4. DOMAIN labels = {prog[j].name : j \in Of(prog, "label")}
      BY <1>3, <1>4, <3>3, BeforeEnds DEF LabelsKnown
    <3> QED BY <2>11, <3>2, <3>4 DEF Resolvable, Named
  <2>12. CASE ~(HasMemory(form) /\ Entries(dataSymbols, T(c, 5).name) = {})
              /\ ~(Emit(c) /\ form = <<"Identifier">> /\ T(c, 2).name \notin DOMAIN labels)
    BY <2>5, <2>7, <2>8, <2>9, <2>12 DEF Legal, Sensible, KnownCall, Entries
  <2> QED BY <2>10, <2>11, <2>12
<1>7. CASE st.kind = "instr"
  BY <1>3, <1>4, <1>6, <1>7 DEF Acceptable
<1>8. CASE st.kind # "instr"
  BY <1>3, <1>4, <1>5, <1>8 DEF Acceptable
<1> QED BY <1>7, <1>8

\* At the end, the program was acceptable, and what was emitted is its assembly.
LEMMA Accepted ==
    ASSUME Reading, NEW c \in Callers, NEW i, Progress(c, i), EndSecondPass(c)
    PROVE  LET prog == source[c].prog IN
           /\ Acceptable(prog)
           /\ IsAssemblyOf(prog, code[c], data[c])
<1> DEFINE prog == source[c].prog
           end == Len(prog) + 1
<1>1. /\ pc[c] = "second" /\ Stands(c, i) /\ Program(prog) /\ Len(prog) \in Nat
  BY WrittenType DEF EndSecondPass, Progress, Stands
<1>2. i = end /\ Seen(c, i) = end
  BY <1>1, KindSeen DEF EndSecondPass, Seen
<1>3. /\ \A j \in 1..Len(prog) : Placed(prog, j)
      /\ Emitted(prog, end, code[c], data[c])
  <2>1. \A j \in 1..Len(prog) : j < end
    BY <1>1
  <2> QED BY <1>1, <1>2, <2>1 DEF Progress
<1>4. /\ Of(prog, "junk") = {} /\ DataRight(prog, data[c])
      /\ \A j \in Of(prog, "instr") :
            prog[j].src.kind = "label" => Named(prog, "label", prog[j].src.name) # {}
      /\ Len(code[c]) = AddressOf(prog, end)
      /\ Sound(prog) => \A j \in Of(prog, "instr") :
            code[c][AddressOf(prog, j) + 1] = Expected(prog, j)
      /\ AddressOf(prog, end) = Cardinality(Of(prog, "instr"))
  BY <1>1, <1>3, BeforeEnds DEF Emitted, AddressOf
<1> HIDE DEF prog
<1>5. Acceptable(prog)
  <2>1. ASSUME NEW j \in DOMAIN prog
        PROVE  /\ prog[j].kind # "junk"
               /\ prog[j].kind = "data" => SectionOf(prog, j) = "DATA"
               /\ prog[j].kind \in {"label", "instr"} => SectionOf(prog, j) = "CODE"
               /\ prog[j].kind = "instr" => Resolvable(prog, j, prog[j].src)
    <3>1. Placed(prog, j) /\ j \notin Of(prog, "junk")
      BY <1>1, <1>3, <1>4 DEF Program
    <3>2. prog[j].kind = "instr" => j \in Of(prog, "instr")
      BY DEF Of
    <3>3. prog[j].kind = "instr" => Resolvable(prog, j, prog[j].src)
      BY <1>4, <3>1, <3>2 DEF Placed, Resolvable
    <3> QED BY <3>1, <3>3 DEF Placed, Of
  <2> QED BY <2>1 DEF Acceptable
<1>6. IsAssemblyOf(prog, code[c], data[c])
  BY <1>4 DEF Sound, DataRight, IsAssemblyOf
<1> QED BY <1>5, <1>6 DEF prog

-----------------------------------------------------------------------------
(* The theorems. *)

LEMMA ParsedInit == Init => Parsed /\ Answered
<1> SUFFICES ASSUME Init PROVE Parsed /\ Answered
  OBVIOUS
<1>1. \A c \in Callers : outcome[c] = "none" /\ pc[c] = "idle"
  BY DEF Init
<1>2. /\ code = [c \in Callers |-> code[c]] /\ data = [c \in Callers |-> data[c]]
  BY DEF Init
<1> QED BY <1>1, <1>2 DEF Parsed, Answered

\* A step of c concerns c and the tables.
LEMMA OthersKept ==
    ASSUME TypeOK, Reading, Parsed, NEW c \in Callers,
           Parse(c) \/ \E s \in Sources : Begin(c, s)
    PROVE  /\ code' = [d \in Callers |-> code'[d]]
           /\ data' = [d \in Callers |-> data'[d]]
           /\ \A d \in Callers : d # c =>
                /\ pc'[d] = pc[d] /\ outcome'[d] = outcome[d]
                /\ source'[d] = source[d]
                /\ code'[d] = code[d] /\ data'[d] = data[d]
<1>1. /\ pc = [d \in Callers |-> pc[d]] /\ outcome = [d \in Callers |-> outcome[d]]
      /\ source = [d \in Callers |-> source[d]]
      /\ code = [d \in Callers |-> code[d]] /\ data = [d \in Callers |-> data[d]]
  BY DEF TypeOK, Reading, Parsed
<1>2. /\ pc' = pc \/ \E e : pc' = [pc EXCEPT ![c] = e]
      /\ outcome' = outcome \/ \E e : outcome' = [outcome EXCEPT ![c] = e]
      /\ source' = source \/ \E e : source' = [source EXCEPT ![c] = e]
      /\ code' = code \/ \E e : code' = [code EXCEPT ![c] = e]
      /\ data' = data \/ \E e : data' = [data EXCEPT ![c] = e]
  <2>1. ASSUME NEW s \in Sources, Begin(c, s) PROVE <1>2
    BY <2>1 DEF Begin
  <2>2. CASE SwitchSection(c)
    BY <2>2 DEF SwitchSection
  <2>3. CASE DefineData(c)
    BY <2>3 DEF DefineData
  <2>4. CASE DefineLabel(c)
    BY <2>4 DEF DefineLabel
  <2>5. CASE ParseInstruction(c)
    BY <2>5 DEF ParseInstruction
  <2>6. CASE Reject(c)
    BY <2>6 DEF Reject
  <2>7. CASE EndFirstPass(c)
    BY <2>7 DEF EndFirstPass
  <2>8. CASE BuildImage(c)
    BY <2>8 DEF BuildImage
  <2>9. CASE EndSecondPass(c)
    BY <2>9 DEF EndSecondPass
  <2> QED BY <2>1, <2>2, <2>3, <2>4, <2>5, <2>6, <2>7, <2>8, <2>9 DEF Parse
<1> QED BY <1>1, <1>2

\* A step that leaves c inside parse.
LEMMA StillParsing ==
    ASSUME IInv, OneAtATime', NEW c \in Callers, NEW i, Progress(c, i)',
           pc'[c] # "idle", Parse(c) \/ \E s \in Sources : Begin(c, s)
    PROVE  Parsed' /\ Answered'
<1>1. /\ code' = [d \in Callers |-> code'[d]]
      /\ data' = [d \in Callers |-> data'[d]]
      /\ \A d \in Callers : d # c =>
            /\ pc'[d] = pc[d] /\ outcome'[d] = outcome[d]
            /\ source'[d] = source[d]
            /\ code'[d] = code[d] /\ data'[d] = data[d]
  BY OthersKept DEF IInv
<1>2. Parsed'
  BY <1>1 DEF Parsed, OneAtATime
<1>3. outcome'[c] = "none"
  BY DEF Progress
<1>4. Answered'
  BY <1>1, <1>3 DEF Answered, IInv
<1> QED BY <1>2, <1>4

\* Every step carries the invariant on.
LEMMA ParsedStep ==
    ASSUME IInv, OneAtATime, OneAtATime', Next
    PROVE  Parsed' /\ Answered'
<1> USE DEF IInv
<1>1. PICK c \in Callers : Parse(c) \/ \E s \in Sources : Begin(c, s)
  BY DEF Next
<1>2. /\ code' = [d \in Callers |-> code'[d]]
      /\ data' = [d \in Callers |-> data'[d]]
      /\ \A d \in Callers : d # c =>
            /\ pc'[d] = pc[d] /\ outcome'[d] = outcome[d]
            /\ source'[d] = source[d]
            /\ code'[d] = code[d] /\ data'[d] = data[d]
  BY <1>1, OthersKept
<1>3. ASSUME NEW i, Progress(c, i)', pc'[c] # "idle"
      PROVE  Parsed' /\ Answered'
  BY <1>1, <1>3, StillParsing
<1>4. ASSUME NEW s \in Sources, Begin(c, s)
      PROVE  Parsed' /\ Answered'
  <2>1. Progress(c, 1)' /\ pc'[c] = "first"
    BY <1>4, ParseBegun DEF Begin, TypeOK
  <2> QED BY <1>3, <2>1
<1>5. ASSUME pc[c] # "idle" PROVE \E i : Progress(c, i)
  BY <1>5 DEF Parsed
<1>6. ASSUME ReadsStatement(c)
      PROVE  Parsed' /\ Answered'
  <2>1. pc[c] # "idle" /\ pc' = pc
    BY <1>6 DEF ReadsStatement, SwitchSection, DefineData, DefineLabel,
                ParseInstruction, Parsing
  <2>2. PICK i : Progress(c, i)
    BY <1>5, <2>1
  <2>3. code = [d \in Callers |-> code[d]]
    BY DEF Parsed
  <2>4. Progress(c, i + 1)'
    BY <1>6, <2>2, <2>3, SectionRead, DataRead, LabelRead, InstructionRead
       DEF ReadsStatement
  <2> QED BY <1>3, <2>1, <2>4
<1>7. ASSUME EndFirstPass(c)
      PROVE  Parsed' /\ Answered'
  <2>1. PICK i : Progress(c, i)
    BY <1>5, <1>7 DEF EndFirstPass
  <2>2. Progress(c, 1)' /\ pc'[c] = "image"
    BY <1>7, <2>1, FirstPassEnded DEF EndFirstPass, TypeOK
  <2> QED BY <1>3, <2>2
<1>8. ASSUME BuildImage(c)
      PROVE  Parsed' /\ Answered'
  <2>1. PICK i : Progress(c, i)
    BY <1>5, <1>8 DEF BuildImage
  <2>2. Progress(c, 1)' /\ pc'[c] = "second"
    BY <1>8, <2>1, ImageBuilt DEF BuildImage, TypeOK
  <2> QED BY <1>3, <2>2
<1>9. ASSUME pc[c] # "idle", pc'[c] = "idle" PROVE Parsed'
  BY <1>2, <1>9 DEF Parsed, OneAtATime
<1>10. ASSUME Reject(c)
       PROVE  Parsed' /\ Answered'
  <2>1. PICK i : Progress(c, i)
    BY <1>5, <1>10 DEF Reject, Parsing
  <2>2. CallsGiven(source[c].prog) => ~Acceptable(source[c].prog)
    BY <1>10, <2>1, Refused
  <2>3. /\ pc[c] # "idle" /\ pc'[c] = "idle" /\ outcome'[c] = "rejected"
        /\ UNCHANGED <<source, code, data>>
    BY <1>10 DEF Reject, Parsing, TypeOK
  <2>4. Answered'
    BY <1>2, <2>2, <2>3 DEF Answered, TypeOK
  <2> QED BY <1>9, <2>3, <2>4
<1>11. ASSUME EndSecondPass(c)
       PROVE  Parsed' /\ Answered'
  <2>1. PICK i : Progress(c, i)
    BY <1>5, <1>11 DEF EndSecondPass
  <2>2. LET prog == source[c].prog IN
        /\ Acceptable(prog)
        /\ IsAssemblyOf(prog, code[c], data[c])
    BY <1>11, <2>1, Accepted
  <2>3. /\ pc[c] # "idle" /\ pc'[c] = "idle" /\ outcome'[c] = "assembled"
        /\ UNCHANGED <<source, code, data>>
    BY <1>11 DEF EndSecondPass, TypeOK
  <2>4. Answered'
    BY <1>2, <2>2, <2>3 DEF Answered, TypeOK
  <2> QED BY <1>9, <2>3, <2>4
<1> QED BY <1>1, <1>4, <1>6, <1>7, <1>8, <1>10, <1>11 DEF Parse, ReadsStatement

LEMMA AlwaysParsed == Spec /\ []OneAtATime => []IInv
<1>1. Init => IInv
  BY TypeInit, ReadingInit, ParsedInit DEF IInv
<1>2. ASSUME IInv, OneAtATime, OneAtATime', Next PROVE IInv'
  BY <1>2, TypeStep, ReadingStep, ParsedStep DEF IInv
<1>3. ASSUME IInv, UNCHANGED vars PROVE IInv'
  <2>1. TypeOK' /\ Reading' /\ Answered'
    BY <1>3, ReadingKept DEF IInv, vars, tables, locals, TypeOK, Answered
  <2>2. Parsed'
    BY <1>3 DEF IInv, vars, tables, locals, Parsed, Progress, Stands, Seen
  <2> QED BY <2>1, <2>2 DEF IInv
<1>4. IInv /\ OneAtATime /\ OneAtATime' /\ [Next]_vars => IInv'
  BY <1>2, <1>3
<1> QED BY <1>1, <1>4, PTL DEF Spec

\* For every set of programs, however long and however laid out, whose system
\* calls have an argument (the run bare_call shows what becomes of one without),
\* and any number of threads that do not enter parse together: on whatever
\* tables the last one left, what parse returns is the assembly of its program,
\* code and data, and a program that it throws at is none that it should take.
THEOREM AssemblyCorrect ==
    ASSUME \A s \in Sources : CallsGiven(s.prog)
    PROVE  Spec /\ []OneAtATime => []AssemblesSource
<1>1. IInv => AssemblesSource
  BY DEF IInv, Answered, AssemblesSource
<1> QED BY <1>1, AlwaysParsed, PTL

\* For every set of programs and such threads: a label that is defined once has
\* its address from the first pass, and the second one, which enters it again,
\* finds it there.
THEOREM PassesAgreed == Spec /\ []OneAtATime => PassesAgree
<1> DEFINE Unique(c) == \A n \in DOMAIN labels :
                            Cardinality(Named(source[c].prog, "label", n)) = 1
<1>1. ASSUME IInv, NEW c \in Callers, Emit(c), DefineLabel(c), Unique(c)
      PROVE  labels' = labels
  <2> DEFINE prog == source[c].prog
             name == T(c, 1).name
  <2>1. PICK i : Progress(c, i)
    BY <1>1 DEF IInv, Parsed, Emit
  <2>2. /\ Stands(c, i) /\ Program(prog) /\ i \in 1..Len(prog)
        /\ Seen(c, i) = Len(prog) + 1
    BY <1>1, <2>1, Here DEF IInv, ReadsStatement, Emit, Seen
  <2>3. prog[i].kind = "label"
    BY <1>1, <2>2, KindSeen DEF IInv, DefineLabel
  <2>4. name = prog[i].name
    <3>1. PICK q : Written(Text(c), lexer[c].position, q, prog[i])
      BY <1>1, <2>2, WrittenHere DEF IInv
    <3>2. prog[i].name = At(Text(c), lexer[c].position, 1).name
      BY <2>3, <3>1 DEF Written
    <3>3. 1 \in Nat \ {0}
      OBVIOUS
    <3>4. T(c, 1) = At(Text(c), lexer[c].position, 1)
      BY <1>1, <2>2, <3>3, WrittenHere DEF IInv
    <3> QED BY <3>2, <3>4
  <2>5. /\ LabelsKnown(prog, i, Seen(c, i), labels)
        /\ codeAddress = Slot(prog, i)
    BY <2>1 DEF Progress
  <2>6. labels' = [n \in DOMAIN labels \cup {name} |->
                    IF n = name THEN codeAddress ELSE labels[n]]
    BY <1>1 DEF DefineLabel
  <2> HIDE DEF prog, name
  <2>7. /\ i \in Named(prog, "label", name) /\ i \in Before(prog, Seen(c, i), "label")
        /\ Named(prog, "label", name) # {}
    BY <2>2, <2>3, <2>4 DEF Named, Of, Before, Program
  <2>8. name \in DOMAIN labels
    BY <2>4, <2>5, <2>7 DEF LabelsKnown
  <2>9. LabelDef(prog, i, name) = i
    <3>1. Cardinality(Named(prog, "label", name)) = 1
      BY <1>1, <2>8 DEF prog
    <3>2. LabelDef(prog, i, name) \in Named(prog, "label", name)
      BY <2>2, <2>7, LabelDefType
    <3>3. Named(prog, "label", name) \in SUBSET (1..Len(prog)) /\ Len(prog) \in Nat
      BY <2>2 DEF Named, Of, Program
    <3>4. IsFiniteSet(Named(prog, "label", name))
      <4>1. IsFiniteSet(1..Len(prog))
        BY <3>3, FS_Interval
      <4> QED BY <3>3, <4>1, FS_Subset
    <3>5. \E x : Named(prog, "label", name) = {x}
      BY <3>1, <3>4, FS_Singleton
    <3> QED BY <2>7, <3>2, <3>5
  <2>10. labels[name] = codeAddress
    BY <2>5, <2>8, <2>9 DEF LabelsKnown
  <2>11. labels = [n \in DOMAIN labels |-> labels[n]]
    BY <2>5 DEF LabelsKnown
  <2> QED BY <2>6, <2>8, <2>10, <2>11
<1>2. IInv => [\A c \in Callers :
                /\ Emit(c) /\ DefineLabel(c)
                /\ \A n \in DOMAIN labels :
                        Cardinality(Named(source[c].prog, "label", n)) = 1
                => labels' = labels]_vars
  BY <1>1
<1> QED BY <1>2, AlwaysParsed, PTL DEF PassesAgree

\* One thread, the owner of a machine without load calls, never meets another.
LEMMA AloneInTurn ==
    ASSUME \A c, d \in Callers : c = d
    PROVE  []OneAtATime
<1>1. OneAtATime
  BY DEF OneAtATime
<1> QED BY <1>1, PTL

\* What that thread loads is what it wrote, whatever it loaded before.
THEOREM OneThreadAssembles ==
    ASSUME \A c, d \in Callers : c = d,
           \A s \in Sources : CallsGiven(s.prog)
    PROVE  Spec => []AssemblesSource /\ PassesAgree
BY AloneInTurn, AssemblyCorrect, PassesAgreed, PTL
=============================================================================
