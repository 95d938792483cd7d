----------------------------- MODULE SourceText -----------------------------
(***************************************************************************)
(* How a program of module Assembly is written down: which tokens make up  *)
(* which statement.  This ties the two halves of a source together, the    *)
(* program that AssemblesSource speaks of and the text that the parser     *)
(* reads; nothing here is code.  The grammar is the documented one, not    *)
(* the one parseInstruction has.                                           *)
(*                                                                         *)
(* Statement i of a program starts behind start[i] tokens of its text, and *)
(* only newlines stand between statements.                                 *)
(***************************************************************************)
EXTENDS Assembler

Operands ==
    [kind : {"reg", "number", "label", "symbol", "syscall", "nothing"},
     name : STRING, val : Int]

Statements ==
    [kind : {"section"}, name : {"DATA", "CODE"}]
    \cup [kind : {"data"}, type : DOMAIN DataSize, name : STRING, val : Int]
    \cup [kind : {"label"}, name : STRING]
    \cup [kind : {"instr"}, op : STRING, dst : Operands, src : Operands]
    \cup [kind : {"junk"}, tokens : Seq(Token)]

-----------------------------------------------------------------------------

\* The k-th token behind position p, and the types of the first ones.
At(text, p, k) == ReadToken(text, p + k - 1)
Tokens(text, p, types) == \A k \in DOMAIN types : At(text, p, k).type = types[k]

OnlyNewlines(text, from, to) == \A k \in from + 1..to : text[k].type = "Newline"

ColonAt(text, p) == Tokens(text, p, <<"Identifier", "Colon">>)

SectionAt(text, p) == ColonAt(text, p) /\ At(text, p, 1).name \in {"DATA", "CODE"}

LabelAt(text, p) == ColonAt(text, p) /\ ~SectionAt(text, p)

DataAt(text, p) ==
    /\ Tokens(text, p, <<"Identifier", "Identifier", "Number">>)
    /\ At(text, p, 1).name \in DOMAIN DataSize /\ At(text, p, 3).name # "-"

TwoOperands == {"mov", "add", "sub", "mul", "div", "mod", "and", "or", "xor",
                "cmp", "nop"}

\* The instructions of the language: mnemonics, and the tokens that may follow
\* them, as ISA.md and the programs under examples/ have them.  What these leave
\* open (nop, numbers as addresses) is as the parser has it.
Grammar ==
    {[of |-> {"halt", "ret"}, shape |-> <<>>],
     [of |-> {"inc", "dec", "not", "push", "pop"}, shape |-> <<"Register">>],
     [of |-> {"push"}, shape |-> <<"Number">>],
     [of |-> {"push", "jmp", "je", "jne", "jg", "jge", "jl", "jle", "call"},
      shape |-> <<"Identifier">>],
     [of |-> {"call"}, shape |-> <<"Identifier", "Comma", "Number">>],
     [of |-> {"call"},
      shape |-> <<"Identifier", "Comma", "LBracket", "Identifier", "RBracket">>],
     [of |-> TwoOperands, shape |-> <<"Register", "Comma", "Register">>],
     [of |-> TwoOperands \cup {"load", "store"},
      shape |-> <<"Register", "Comma", "Number">>],
     [of |-> {"mov", "load", "store"},
      shape |-> <<"Register", "Comma", "LBracket", "Identifier", "RBracket">>]}

Shapes(m) == {rule.shape : rule \in {r \in Grammar : m \in r.of}}

\* A system call that is given no argument.
BareCall(m, shape) == m = "call" /\ shape = <<"Identifier">>

\* The mnemonic at p is followed by tokens of these types, with registers and
\* numbers that exist.
Carries(text, p, types) ==
    /\ Tokens(text, p, <<"Identifier">> \o types) /\ ~ColonAt(text, p)
    /\ \A k \in 2..Len(types) + 1 :
        /\ At(text, p, k).type = "Register" => At(text, p, k).val < NumRegs
        /\ At(text, p, k).type = "Number" => At(text, p, k).name # "-"

KnownCall(text, p) ==
    At(text, p, 1).name = "call" => At(text, p, 2).name \in DOMAIN Syscalls

\* The operands of the instruction at p.
ShapesAt(text, p) ==
    LET m == At(text, p, 1).name IN
    {shape \in Shapes(m) :
        /\ Carries(text, p, shape) /\ KnownCall(text, p)
        /\ BareCall(m, shape) => At(text, p, 3).type # "Comma"}

\* The source operand that these operands have.
WritesSource(text, p, shape, src) ==
    LET m == At(text, p, 1).name
        last == At(text, p, Len(shape) + 1)
    IN  CASE HasMemory(shape) ->
                src.kind = "symbol" /\ src.name = At(text, p, 5).name
          [] shape = <<>> \/ m \in Unary \/ BareCall(m, shape) ->
                src.kind = "nothing"
          [] shape = <<"Identifier">> /\ m # "call" ->
                src.kind = "label" /\ src.name = last.name
          [] last.type = "Number" -> src.kind = "number" /\ src.val = last.val
          [] OTHER -> src.kind = "reg" /\ src.val = last.val

\* The instruction at p, with these operands, is st.
WritesInstruction(text, p, shape, st) ==
    LET m == At(text, p, 1).name IN
    /\ st.op = IF m = "call" THEN "CALL" ELSE Mnemonics[m]
    /\ st.dst.val = IF m = "call" THEN Syscalls[At(text, p, 2).name]
                    ELSE IF shape \in {<<>>, <<"Identifier">>} \/ m = "push" THEN 0
                    ELSE At(text, p, 2).val
    /\ WritesSource(text, p, shape, st.src)

\* What parseInstruction takes for operands in its first pass, whether or not
\* the language has them.
FormsAt(text, p) ==
    {form \in Forms(At(text, p, 1).name) : Carries(text, p, form)}

\* The tokens from position p to q write the statement st.  Junk is whatever is
\* none of the other statements; where the first pass takes it for an
\* instruction it is as long as that.
Written(text, p, q, st) ==
    \/ /\ st.kind = "section" /\ SectionAt(text, p)
       /\ st.name = At(text, p, 1).name /\ q = p + 2
    \/ /\ st.kind = "label" /\ LabelAt(text, p)
       /\ st.name = At(text, p, 1).name /\ q = p + 2
    \/ /\ st.kind = "data" /\ DataAt(text, p)
       /\ st.type = At(text, p, 1).name /\ st.name = At(text, p, 2).name
       /\ st.val = At(text, p, 3).val /\ q = p + 3
    \/ /\ st.kind = "instr"
       /\ \E shape \in ShapesAt(text, p) :
            WritesInstruction(text, p, shape, st) /\ q = p + Len(shape) + 1
    \/ /\ st.kind = "junk"
       /\ ~(SectionAt(text, p) \/ LabelAt(text, p) \/ DataAt(text, p))
       /\ ShapesAt(text, p) = {} /\ At(text, p, 1).type # "Newline"
       /\ \A form \in FormsAt(text, p) : q = p + Len(form) + 1

\* The text of s is its program, written down.
SourceWritten(s) ==
    /\ s.prog \in Seq(Statements) /\ s.text \in Seq(Token)
    /\ s.start \in [1..Len(s.prog) + 1 -> 0..Len(s.text)]
    /\ OnlyNewlines(s.text, 0, s.start[1])
    /\ s.start[Len(s.prog) + 1] = Len(s.text)
    /\ \A i \in 1..Len(s.prog) :
        \E q \in s.start[i] + 1..s.start[i + 1] :
            /\ Written(s.text, s.start[i], q, s.prog[i])
            /\ OnlyNewlines(s.text, q, s.start[i + 1])

ASSUME SourceAssumption == \A s \in Sources : SourceWritten(s)
=============================================================================
