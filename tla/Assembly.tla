------------------------------ MODULE Assembly ------------------------------
(***************************************************************************)
(* What a program in the assembly language means, statement by statement   *)
(* and without any passes: the reference the assembler is compared with.   *)
(*                                                                         *)
(* A program is a sequence of statements:                                  *)
(*   [kind |-> "section", name]        DATA: or CODE:                      *)
(*   [kind |-> "data", type, name, val]                                    *)
(*   [kind |-> "label", name]                                              *)
(*   [kind |-> "instr", op, dst, src]  operands as below                   *)
(*   [kind |-> "junk", tokens]         anything the language does not have *)
(* An operand is [kind, name, val]: a register or number val, a label or   *)
(* data symbol name, a system call name of number val, or nothing.         *)
(***************************************************************************)
EXTENDS Integers, Sequences, FiniteSetsExt

CONSTANTS
    ByteBase,  \* values of a byte: 256 in the code
    NumRegs    \* kRegisterCount

ASSUME AssemblyAssumption ==
    /\ ByteBase \in Nat \ {0} /\ ByteBase % 2 = 0
    /\ NumRegs \in Nat \ {0}

Imm(n) == [kind |-> "imm", val |-> n]
Reg(n) == [kind |-> "reg", val |-> n]

\* dataTypeSize
DataSize == [BYTE |-> 1, DBYTE |-> 2, WORD |-> 4, QWORD |-> 8]

\* The values of up to eight bytes.
Power[k \in 0..8] == IF k = 0 THEN 1 ELSE ByteBase * Power[k - 1]

\* The numbers of two bytes, with a sign, and the one that n is cut to.
Literals == LET half == (ByteBase * ByteBase) \div 2 IN -half..half - 1
Cut(n) ==
    CHOOSE m \in Literals : m % (ByteBase * ByteBase) = n % (ByteBase * ByteBase)

-----------------------------------------------------------------------------

Of(prog, kind) == {i \in DOMAIN prog : prog[i].kind = kind}
Before(prog, i, kind) == {j \in Of(prog, kind) : j < i}
Named(prog, kind, n) == {i \in Of(prog, kind) : prog[i].name = n}

\* The section statement i is in.
SectionOf(prog, i) ==
    LET heads == Before(prog, i, "section") IN
    IF heads = {} THEN "NONE" ELSE prog[Max(heads)].name

\* The address of the first instruction from statement i on, and the offset of
\* the data from statement i on.
AddressOf(prog, i) == Cardinality(Before(prog, i, "instr"))
OffsetOf(prog, i) ==
    LET bytes == {jb \in Before(prog, i, "data") \X (0..7) :
                    jb[2] < DataSize[prog[jb[1]].type]}
    IN  Cardinality(bytes)

\* A label means its definition.  If it has several, the nearest one above the
\* instruction counts, and the last one if all are below.
LabelTarget(prog, i, n) ==
    LET defs == Named(prog, "label", n)
        above == {j \in defs : j < i}
    IN  AddressOf(prog, Max(IF above # {} THEN above ELSE defs))

\* A symbol means its first definition.
SymbolOffset(prog, n) == OffsetOf(prog, Min(Named(prog, "data", n)))

\* Labels may be used before their definition, data symbols may not.
Resolvable(prog, i, operand) ==
    /\ operand.kind = "label" => Named(prog, "label", operand.name) # {}
    /\ operand.kind = "symbol" =>
        \E j \in Named(prog, "data", operand.name) : j < i

Acceptable(prog) ==
    \A i \in DOMAIN prog :
        /\ prog[i].kind # "junk"
        /\ prog[i].kind = "data" => SectionOf(prog, i) = "DATA"
        /\ prog[i].kind \in {"label", "instr"} => SectionOf(prog, i) = "CODE"
        /\ prog[i].kind = "instr" => Resolvable(prog, i, prog[i].src)

-----------------------------------------------------------------------------

\* The instruction statement i stands for, in the form Cpu encodes.  A number,
\* address or offset of more than two bytes is cut.
Expected(prog, i) ==
    LET src == prog[i].src IN
    [op |-> IF prog[i].op = "MOV" /\ src.kind = "symbol" THEN "LOAD"
            ELSE prog[i].op,
     dst |-> prog[i].dst.val,
     src |-> CASE src.kind = "reg" -> Reg(src.val)
               [] src.kind = "number" -> Imm(Cut(src.val))
               [] src.kind = "label" ->
                    Imm(Cut(LabelTarget(prog, i, src.name)))
               [] src.kind = "symbol" ->
                    Imm(Cut(SymbolOffset(prog, src.name)))
               [] src.kind = "nothing" -> Imm(0)]

\* The number n bytes stand for from offset o on, least significant first.
ValueAt(data, o, n) ==
    LET sum[k \in 0..n] == IF k = 0 THEN 0
                           ELSE sum[k - 1] + data[o + k] * Power[k - 1]
    IN  sum[n]

\* code and data are the program: its instructions in order, and its data laid
\* out without gaps, each item with the number it was given, cut to two bytes
\* and extended to its size.
IsAssemblyOf(prog, code, data) ==
    /\ Len(code) = Cardinality(Of(prog, "instr"))
    /\ \A i \in Of(prog, "instr") :
        code[AddressOf(prog, i) + 1] = Expected(prog, i)
    /\ Len(data) = OffsetOf(prog, Len(prog) + 1)
    /\ \A i \in Of(prog, "data") :
        LET n == DataSize[prog[i].type] IN
        ValueAt(data, OffsetOf(prog, i), n) = Cut(prog[i].val) % Power[n]
=============================================================================
