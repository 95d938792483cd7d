---------------------------- MODULE MCAssembler ----------------------------
(***************************************************************************)
(* Instances of Assembler for TLC: programs and the texts they are written *)
(* as.  Bytes have eight values, so that numbers are cut to -32..31.       *)
(***************************************************************************)
EXTENDS SourceText, SequencesExt

-----------------------------------------------------------------------------
(* Programs. *)

Operand(kind, name, val) == [kind |-> kind, name |-> name, val |-> val]
R(n) == Operand("reg", "", n)
N(n) == Operand("number", "", n)
L(name) == Operand("label", name, 0)
S(name) == Operand("symbol", name, 0)
None == Operand("nothing", "", 0)
Sys(name) == Operand("syscall", name, Syscalls[name])

DataSection == [kind |-> "section", name |-> "DATA"]
CodeSection == [kind |-> "section", name |-> "CODE"]
Data(type, name, val) ==
    [kind |-> "data", type |-> type, name |-> name, val |-> val]
Label(name) == [kind |-> "label", name |-> name]
Op(op, dst, src) == [kind |-> "instr", op |-> op, dst |-> dst, src |-> src]
Halt == Op("HALT", None, None)
Junk(tokens) == [kind |-> "junk", tokens |-> tokens]

-----------------------------------------------------------------------------
(* How a program is written. *)

Id(name) == Tok("Identifier", name, 0)
Mnemonic(op) ==
    IF op = "CALL" THEN "call"
    ELSE CHOOSE m \in DOMAIN Mnemonics : Mnemonics[m] = op

OperandText(o) ==
    CASE o.kind = "reg" -> <<Tok("Register", "", o.val)>>
      [] o.kind = "number" -> <<Tok("Number", "", o.val)>>
      [] o.kind \in {"label", "syscall"} -> <<Id(o.name)>>
      [] o.kind = "symbol" ->
            <<Tok("LBracket", "", 0), Id(o.name), Tok("RBracket", "", 0)>>
      [] o.kind = "nothing" -> <<>>

StatementText(st) ==
    CASE st.kind \in {"section", "label"} -> <<Id(st.name), Tok("Colon", "", 0)>>
      [] st.kind = "data" ->
            <<Id(st.type), Id(st.name), Tok("Number", "", st.val)>>
      [] st.kind = "junk" -> st.tokens
      [] st.kind = "instr" ->
            <<Id(Mnemonic(st.op))>> \o OperandText(st.dst)
            \o (IF None \in {st.dst, st.src} THEN <<>>
                ELSE <<Tok("Comma", "", 0)>>)
            \o OperandText(st.src)

\* Newlines may be left out or doubled.
Source(prog, newlines) ==
    LET lines == [i \in DOMAIN prog |->
                    StatementText(prog[i])
                    \o [k \in 1..newlines |-> Tok("Newline", "", 0)]]
    IN  [prog |-> prog, text |-> FlattenSeq(lines),
         start |-> [i \in 1..Len(prog) + 1 |->
                        Len(FlattenSeq(SubSeq(lines, 1, i - 1)))]]

-----------------------------------------------------------------------------
(* The programs of the runs. *)

\* Forward and backward jumps, data of several sizes.
Loop ==
    <<DataSection, Data("WORD", "x", 30), Data("DBYTE", "y", -20),
      CodeSection, Label("a"), Op("MOV", R(1), S("x")), Op("CMP", R(1), N(2)),
      Op("JE", None, L("b")), Op("DEC", R(1), None), Op("JMP", None, L("a")),
      Label("b"), Op("CALL", Sys("print"), S("y")), Halt>>

\* Every kind of operand; sections that alternate.
Mixed ==
    <<CodeSection, Op("PUSH", None, L("f")), Op("PUSH", None, R(2)),
      Op("PUSH", None, N(-32)), DataSection, Data("QWORD", "q", -1),
      CodeSection, Label("f"), Op("STORE", R(0), S("q")),
      Op("LOAD", R(3), N(2)), Op("ADD", R(1), R(2)), Op("CALL", Sys("exit"), N(0)),
      Op("POP", R(1), None), Op("RET", None, None),
      DataSection, Data("BYTE", "z", 7)>>

\* Labels and symbols defined more than once.
Twice ==
    <<DataSection, Data("BYTE", "x", 1), Data("BYTE", "x", 2),
      CodeSection, Op("JMP", None, L("a")), Label("a"), Op("JNE", None, L("a")),
      Halt, Label("a"), Op("STORE", R(1), S("x")), Op("JL", None, L("a"))>>

\* Names only the programs above define.
ForeignLabel == <<CodeSection, Halt, Op("JMP", None, L("a"))>>
ForeignSymbol == <<CodeSection, Op("MOV", R(1), S("x")), Halt>>

\* A symbol used above its definition.
LateSymbol ==
    <<CodeSection, Op("MOV", R(1), S("x")), DataSection, Data("BYTE", "x", 1)>>

\* Numbers longer than two bytes.
Wide ==
    <<DataSection, Data("WORD", "w", 40), CodeSection, Op("ADD", R(1), N(-40)),
      Halt>>

\* A system call without operand.
Yielding == <<CodeSection, Op("CALL", Sys("yield"), None), Halt>>

\* Statements the parser must refuse: operands no opcode takes; system calls,
\* registers, numbers, mnemonics, data types and characters that do not exist;
\* a section without its colon.
JunkStatements ==
    {<<Id("call"), Id("stop"), Tok("Comma", "", 0), Tok("Number", "", 0)>>,
     <<Id("inc"), Tok("Number", "", 1)>>,
     <<Id("push"), Tok("Register", "", 99)>>, <<Id("push"), Tok("Number", "-", 0)>>,
     <<Id("add"), Tok("Register", "", 1), Tok("Comma", "", 0),
       Tok("LBracket", "", 0), Id("x"), Tok("RBracket", "", 0)>>,
     <<Id("jump"), Id("a")>>, <<Tok("Bad", "", 0)>>, <<Id("CODE")>>}

Refused ==
    {<<CodeSection, Halt, Junk(j)>> : j \in JunkStatements}
    \cup {<<DataSection, Data("BYTE", "x", 1), CodeSection, Junk(j)>> :
            j \in JunkStatements}
    \cup {<<DataSection, Junk(<<Id("BITS"), Id("x"), Tok("Number", "", 1)>>)>>,
          <<Halt>>, <<DataSection, Halt>>, <<DataSection, Label("a")>>,
          <<CodeSection, Data("BYTE", "x", 1)>>}

ManySources ==
    {Source(prog, n) : prog \in {Loop, Mixed, Twice, ForeignLabel, ForeignSymbol,
                                 LateSymbol, Wide}, n \in 0..2}
    \cup {Source(prog, 1) : prog \in Refused}

YieldingSources == {Source(Yielding, 1)}

\* Two programs that use the same names.
TwoSources ==
    {Source(<<CodeSection, Label("a"), Op("JMP", None, L("a"))>>, 1),
     Source(<<CodeSection, Op("INC", R(1), None), Label("a"),
              Op("JMP", None, L("a"))>>, 1)}
=============================================================================
