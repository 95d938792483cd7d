----------------------------- MODULE Assembler -----------------------------
(***************************************************************************)
(* Assembler and Parser: two passes over a source text.  VirtualOS has one *)
(* Assembler, and so one set of tables, for all its callers: the client's  *)
(* thread and, for CALL load, the core threads.  No mutex protects it.     *)
(*                                                                         *)
(* A step is one statement; it is atomic although the tables are shared,   *)
(* which leaves out only worse outcomes (races inside the containers).  An *)
(* emitted instruction is the record [op, dst, src] that module Cpu        *)
(* encodes.                                                                *)
(***************************************************************************)
EXTENDS Lexer, Assembly

CONSTANTS
    Callers,   \* threads that load programs
    Sources,   \* [prog, text, start]: a program, the tokens of its text, and
               \* where in them its statements start, which no code looks at
    MaxParses  \* bound: calls of parse by one thread

ASSUME AssemblerAssumption ==
    /\ MaxParses \in Nat
    /\ \A s \in Sources : s.text \in Seq(Token)

VARIABLES
    labels,       \* labels_: from names to code addresses
    dataSymbols,  \* dataSymbols_
    section,      \* section_
    codeAddress,  \* codeAddress_
    dataOffset,   \* dataOffset_
    pc,           \* pc[c]: the pass caller c is in
    source,       \* source[c]: what it assembles
    lexer,        \* lexer[c]: its Lexer, a local of parse
    code, data,   \* code[c], data[c]: its AssembledProgram
    outcome,      \* outcome[c]: how its last parse ended
    parses        \* parses[c]: how many it has begun

tables == <<labels, dataSymbols, section, codeAddress, dataOffset>>
locals == <<pc, source, lexer, code, data, outcome, parses>>
vars == <<tables, locals>>

DataSymbol == [name : STRING, type : DOMAIN DataSize, value : Literals,
               offset : Nat]

TypeOK ==
    /\ DOMAIN labels \subseteq STRING /\ \A n \in DOMAIN labels : labels[n] \in Nat
    /\ dataSymbols \in Seq(DataSymbol)
    /\ section \in {"NONE", "DATA", "CODE"}
    /\ codeAddress \in Nat /\ dataOffset \in Nat
    /\ pc \in [Callers -> {"idle", "first", "image", "second"}]
    /\ outcome \in [Callers -> {"none", "rejected", "assembled"}]
    /\ parses \in [Callers -> 0..MaxParses]
    /\ \A c \in Callers : pc[c] # "idle" => source[c] \in Sources

Empty == [n \in {} |-> 0]

Init ==
    /\ labels = Empty /\ dataSymbols = <<>> /\ section = "NONE"
    /\ codeAddress = 0 /\ dataOffset = 0
    /\ pc = [c \in Callers |-> "idle"]
    /\ source = [c \in Callers |-> [prog |-> <<>>, text |-> <<>>,
                                 start |-> <<0>>]]
    /\ lexer = [c \in Callers |-> FreshLexer]
    /\ code = [c \in Callers |-> <<>>] /\ data = [c \in Callers |-> <<>>]
    /\ outcome = [c \in Callers |-> "none"]
    /\ parses = [c \in Callers |-> 0]

-----------------------------------------------------------------------------
(* The grammar. *)

\* OpcodeTable::mnemonicToOpcode
Mnemonics ==
    [mov |-> "MOV", add |-> "ADD", sub |-> "SUB", mul |-> "MUL", div |-> "DIV",
     mod |-> "MOD", inc |-> "INC", dec |-> "DEC", and |-> "AND", or |-> "OR",
     xor |-> "XOR", not |-> "NOT", cmp |-> "CMP", jmp |-> "JMP", je |-> "JE",
     jne |-> "JNE", jg |-> "JG", jge |-> "JGE", jl |-> "JL", jle |-> "JLE",
     load |-> "LOAD", store |-> "STORE", push |-> "PUSH", pop |-> "POP",
     ret |-> "RET", halt |-> "HALT", nop |-> "NOP"]

\* parseSyscall
Syscalls == [print |-> 0, scan |-> 1, exit |-> 2, yield |-> 3, load |-> 4]

Branches == {"jmp", "je", "jne", "jg", "jge", "jl", "jle"}
Unary == {"inc", "dec", "not", "pop"}

WithMemory(first) == <<first, "Comma", "LBracket", "Identifier", "RBracket">>
WithNumber(first) == <<first, "Comma", "Number">>

\* The token types parseInstruction accepts after mnemonic m.
Forms(m) ==
    CASE m \in {"halt", "ret"} -> {<<>>}
      [] m = "push" -> {<<"Register">>, <<"Identifier">>, <<"Number">>}
      [] m = "call" -> {WithMemory("Identifier"), WithNumber("Identifier")}
      [] m \in Branches -> {<<"Identifier">>}
      [] m \in Unary -> {<<"Register">>}
      [] m \in {"load", "store"} -> {WithMemory("Register"), WithNumber("Register")}
      [] m \in {"mov", "add", "sub", "mul", "div", "mod", "and", "or", "xor",
                "cmp", "nop"} ->
            {WithMemory("Register"), WithNumber("Register"),
             <<"Register", "Comma", "Register">>}
      [] OTHER -> {}

HasMemory(form) == Len(form) = 5

LiteralUncut(n) == n                                               \* mutant

\* parseNumberToken keeps 16 bits.
Literal(n) ==
    LET base == ByteBase * ByteBase half == base \div 2 IN
    ((n + half) % base) - half

-----------------------------------------------------------------------------
(* What is ahead of the lexer of caller c. *)

Text(c) == source[c].text
Emit(c) == pc[c] = "second"
Parsing(c) == pc[c] \in {"first", "second"}

T(c, k) == Upcoming(Text(c), lexer[c], k)
Follow(c, types) == \A k \in DOMAIN types : T(c, k).type = types[k]

AtEnd(c) == T(c, 1).type = "End"

AtSection(c) ==
    Follow(c, <<"Identifier", "Colon">>) /\ T(c, 1).name \in {"DATA", "CODE"}

AtData(c) ==
    /\ section = "DATA" /\ Follow(c, <<"Identifier", "Identifier", "Number">>)
    /\ T(c, 1).name \in DOMAIN DataSize /\ T(c, 3).name # "-"

AtLabel(c) ==
    /\ section = "CODE" /\ Follow(c, <<"Identifier", "Colon">>)
    /\ ~AtSection(c)

ResolvedLast(n) ==                                                 \* mutant
    dataSymbols[Max({i \in DOMAIN dataSymbols : dataSymbols[i].name = n})].offset

\* resolveDataSymbol
Resolved(n) ==
    dataSymbols[Min({i \in DOMAIN dataSymbols : dataSymbols[i].name = n})].offset

\* The register and number tokens of the operands, stol and stoi succeeding;
\* symbols are looked up in both passes, labels and system calls, and whether a
\* memory operand makes sense, only when emitting.
Legal(c, form) ==
    LET m == T(c, 1).name IN
    /\ \A k \in 2..Len(form) + 1 :
        /\ T(c, k).type = "Register" => T(c, k).val < NumRegs
        /\ T(c, k).type = "Number" => T(c, k).name # "-"
    /\ HasMemory(form) =>
        \E i \in DOMAIN dataSymbols : dataSymbols[i].name = T(c, 5).name
    /\ Emit(c) =>
        /\ form = <<"Identifier">> => T(c, 2).name \in DOMAIN labels
        /\ m = "call" => T(c, 2).name \in DOMAIN Syscalls
        /\ HasMemory(form) => m \in {"mov", "load", "store", "call"}

InstructionForms(c) ==
    {form \in Forms(T(c, 1).name) :
        Follow(c, <<"Identifier">> \o form) /\ Legal(c, form)}

AtInstruction(c) ==
    /\ section = "CODE" /\ ~AtLabel(c) /\ ~AtSection(c)
    /\ InstructionForms(c) # {}

\* The instruction parseInstruction emits.
Instruction(c, form) ==
    LET m == T(c, 1).name
        last == T(c, Len(form) + 1)
        labelled == form = <<"Identifier">>
    IN  [op |-> IF m = "call" THEN "CALL"
                ELSE IF m = "mov" /\ HasMemory(form) THEN "LOAD"
                ELSE Mnemonics[m],
         dst |-> IF m = "call" THEN Syscalls[T(c, 2).name]
                 ELSE IF form = <<>> \/ labelled \/ m = "push" THEN 0
                 ELSE T(c, 2).val,
         src |-> CASE HasMemory(form) -> Imm(Literal(Resolved(T(c, 5).name)))
                   [] labelled -> Imm(Literal(labels[last.name]))
                   [] form = <<>> \/ m \in Unary -> Imm(0)
                   [] last.type = "Number" -> Imm(Literal(last.val))
                   [] OTHER -> Reg(last.val)]

-----------------------------------------------------------------------------
(* The steps of Parser::parse. *)

\* The lexer of c is now lx, past the newlines that follow.
LexerAt(c, lx) == lexer' = [lexer EXCEPT ![c] = SkipNewlines(Text(c), lx)]

ClearTablesNot ==                                                  \* mutant
    /\ labels' = Empty /\ section' = "NONE" /\ codeAddress' = 0
    /\ dataOffset' = 0 /\ UNCHANGED dataSymbols

ClearTables ==
    /\ labels' = Empty /\ dataSymbols' = <<>>
    /\ section' = "NONE" /\ codeAddress' = 0 /\ dataOffset' = 0

\* parse, up to the loop of parseProgram in the first pass.
Begin(c, s) ==
    /\ pc[c] = "idle" /\ parses[c] < MaxParses
    /\ ClearTables
    /\ source' = [source EXCEPT ![c] = s]
    /\ lexer' = [lexer EXCEPT ![c] = SkipNewlines(s.text, FreshLexer)]
    /\ code' = [code EXCEPT ![c] = <<>>] /\ data' = [data EXCEPT ![c] = <<>>]
    /\ pc' = [pc EXCEPT ![c] = "first"]
    /\ outcome' = [outcome EXCEPT ![c] = "none"]
    /\ parses' = [parses EXCEPT ![c] = @ + 1]

SwitchSection(c) ==
    /\ Parsing(c) /\ AtSection(c)
    /\ section' = T(c, 1).name
    /\ LexerAt(c, Advance(Text(c), lexer[c], 2))
    /\ UNCHANGED <<labels, dataSymbols, codeAddress, dataOffset, pc, source,
                   code, data, outcome, parses>>

\* Only the first pass enters the symbol.
DefineData(c) ==
    LET symbol == [name |-> T(c, 2).name, type |-> T(c, 1).name,
                   value |-> Literal(T(c, 3).val), offset |-> dataOffset]
    IN
    /\ Parsing(c) /\ AtData(c)
    /\ dataSymbols' = IF Emit(c) THEN dataSymbols ELSE Append(dataSymbols, symbol)
    /\ dataOffset' = IF Emit(c) THEN dataOffset
                     ELSE dataOffset + DataSize[symbol.type]
    /\ LexerAt(c, Advance(Text(c), lexer[c], 3))
    /\ UNCHANGED <<labels, section, codeAddress, pc, source, code, data,
                   outcome, parses>>

AfterLabelAgain(c) == lexer[c]                                     \* mutant

\* the lexer behind a label and its colon, which was peeked at
AfterLabel(c) ==
    NextToken(Text(c), Peek(Text(c), NextToken(Text(c), lexer[c])))

\* Both passes enter the label.
DefineLabel(c) ==
    LET name == T(c, 1).name IN
    /\ Parsing(c) /\ AtLabel(c)
    /\ labels' = [n \in DOMAIN labels \cup {name} |->
                    IF n = name THEN codeAddress ELSE labels[n]]
    /\ LexerAt(c, AfterLabel(c))
    /\ UNCHANGED <<dataSymbols, section, codeAddress, dataOffset, pc, source,
                   code, data, outcome, parses>>

\* the lexer at the mnemonic again, after the look for a colon behind it
AtMnemonic(c) ==
    Restore(Peek(Text(c), NextToken(Text(c), lexer[c])), Mark(lexer[c]))

NextAddressEmitted(c) == IF Emit(c) THEN codeAddress + 1 ELSE 0    \* mutant

NextAddress(c) == codeAddress + 1

ParseInstruction(c) ==
    /\ Parsing(c) /\ AtInstruction(c)
    /\ \E form \in InstructionForms(c) :
        /\ code' = IF Emit(c)
                   THEN [code EXCEPT ![c] = Append(@, Instruction(c, form))]
                   ELSE code
        /\ LexerAt(c, Advance(Text(c), AtMnemonic(c), Len(form) + 1))
    /\ codeAddress' = NextAddress(c)
    /\ UNCHANGED <<labels, dataSymbols, section, dataOffset, pc, source, data,
                   outcome, parses>>

\* AssemblerError, or an exception of stol: nothing is returned, and the
\* tables keep what is in them.
Reject(c) ==
    /\ Parsing(c)
    /\ ~(AtEnd(c) \/ AtSection(c) \/ AtData(c) \/ AtLabel(c) \/ AtInstruction(c))
    /\ pc' = [pc EXCEPT ![c] = "idle"]
    /\ outcome' = [outcome EXCEPT ![c] = "rejected"]
    /\ UNCHANGED <<tables, source, lexer, code, data, parses>>

\* Back in parse after the first pass.
EndFirstPass(c) ==
    /\ pc[c] = "first" /\ AtEnd(c)
    /\ section' = "NONE" /\ codeAddress' = 0
    /\ lexer' = [lexer EXCEPT ![c] = Reset(@)]
    /\ pc' = [pc EXCEPT ![c] = "image"]
    /\ UNCHANGED <<labels, dataSymbols, dataOffset, source, code, data, outcome,
                   parses>>

\* The symbol that byte b of the data belongs to.
SymbolAt(b) ==
    CHOOSE s \in {dataSymbols[i] : i \in DOMAIN dataSymbols} :
        b \in s.offset..s.offset + DataSize[s.type] - 1

\* byte k of a value, in two's complement
ByteOf(value, k) == (value \div Power[k]) % ByteBase

\* secondPass, up to the loop of parseProgram.
BuildImage(c) ==
    /\ pc[c] = "image"
    /\ data' = [data EXCEPT ![c] = [b \in 1..dataOffset |->
                    LET s == SymbolAt(b - 1) IN ByteOf(s.value, b - 1 - s.offset)]]
    /\ codeAddress' = 0 /\ section' = "NONE"
    /\ LexerAt(c, lexer[c])
    /\ pc' = [pc EXCEPT ![c] = "second"]
    /\ UNCHANGED <<labels, dataSymbols, dataOffset, source, code, outcome, parses>>

EndSecondPass(c) ==
    /\ pc[c] = "second" /\ AtEnd(c)
    /\ pc' = [pc EXCEPT ![c] = "idle"]
    /\ outcome' = [outcome EXCEPT ![c] = "assembled"]
    /\ UNCHANGED <<tables, source, lexer, code, data, parses>>

Parse(c) ==
    \/ SwitchSection(c) \/ DefineData(c) \/ DefineLabel(c)
    \/ ParseInstruction(c) \/ Reject(c)
    \/ EndFirstPass(c) \/ BuildImage(c) \/ EndSecondPass(c)

Next == \E c \in Callers : Parse(c) \/ \E s \in Sources : Begin(c, s)

Spec == Init /\ [][Next]_vars

\* A thread inside parse keeps running.
FairSpec == Spec /\ \A c \in Callers : WF_vars(Parse(c))

-----------------------------------------------------------------------------
(* Properties. *)

\* ARCHITECTURE.md: "ASM file -> `Assembler` (2 passes) -> bytecode + data": a
\* parse that returns has assembled its own source text, whatever was assembled
\* or rejected before, and one that throws had a reason to.
AssemblesSource ==
    \A c \in Callers :
        LET prog == source[c].prog IN
        /\ outcome[c] = "rejected" => ~Acceptable(prog)
        /\ outcome[c] = "assembled" =>
            Acceptable(prog) /\ IsAssemblyOf(prog, code[c], data[c])

\* The lookahead kept by peek is never that of another position, although
\* restore moves the position under it, and the line errors are reported for is
\* the line of the position, although restore leaves it alone.
LexerExact == \A c \in Callers : CursorExact(Text(c), lexer[c])

\* The passes agree on addresses: when every label is defined once, the second
\* pass finds every label where the first one put it.
PassesAgree ==
    [][\A c \in Callers :
        /\ Emit(c) /\ DefineLabel(c)
        /\ \A n \in DOMAIN labels : Cardinality(Named(source[c].prog, "label", n)) = 1
        => labels' = labels]_vars

\* Every parse ends, whatever the text.
ParseEnds == \A c \in Callers : (pc[c] # "idle") ~> (pc[c] = "idle")
=============================================================================
