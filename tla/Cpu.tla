-------------------------------- MODULE Cpu --------------------------------
(***************************************************************************)
(* One process on a core: its register file, the encoding the assembler    *)
(* gives to an instruction, and the handler that executes what the decoder *)
(* makes of it.                                                            *)
(*                                                                         *)
(* A source instruction is [op, dst, src]: dst a register, src an operand  *)
(* [kind |-> "reg", val |-> r] or [kind |-> "imm", val |-> n]; labels and  *)
(* data symbols are numbers by then.  Memory is left open: a LOAD or POP   *)
(* may deliver any word, and every access may fail (module Memory).        *)
(***************************************************************************)
EXTENDS Integers, Sequences

CONSTANTS
    Bits, Half,   \* bits of a Word or Address, and 2^(Bits - 1)
    ImmHalf,      \* 2^11: half the range of the immediate field
    ArgModulus,   \* 2^16: the range of a system call's argument
    NumRegs,      \* kRegisterCount, also the range of a register field
    Source        \* the instructions of the guest's source text

\* enum Opcode, in the order of its numbers.
Opcodes == <<"MOV", "ADD", "SUB", "MUL", "DIV", "MOD", "INC", "DEC", "AND",
             "OR", "XOR", "NOT", "CMP", "JMP", "JE", "JNE", "JG", "JGE", "JL",
             "JLE", "LOAD", "STORE", "CALL", "HALT", "NOP", "PUSH", "POP",
             "RET">>
Conditional == {"JE", "JNE", "JG", "JGE", "JL", "JLE"}
Jumps == Conditional \cup {"JMP"}
Binary == {"ADD", "SUB", "MUL", "DIV", "MOD", "AND", "OR", "XOR", "NOP"}

\* enum SyscallId
Exit == 2
Yield == 3

Modulus == 2 * Half
ImmModulus == 2 * ImmHalf
Word == 0..Modulus - 1
Registers == 0..NumRegs - 1

ASSUME CpuAssumption ==
    /\ Half \in Nat \ {0} /\ Bits \in Nat /\ 2 * Half = 2 ^ Bits
    /\ ImmHalf \in Nat \ {0} /\ ImmHalf <= Half
    /\ ArgModulus \in Nat \ {0}
    /\ NumRegs \in Nat \ {0}
    /\ Source \subseteq [op : {Opcodes[k] : k \in DOMAIN Opcodes},
                         dst : Registers,
                         src : [kind : {"reg", "imm"}, val : Int]]
    /\ \A s \in Source :
        s.op \in Jumps \cup {"LOAD", "STORE", "CALL"} => s.src.kind = "imm"
    /\ \A s \in Source : s.src.kind = "reg" => s.src.val \in Registers

VARIABLES
    gpr,       \* gpr_
    flags,     \* flags_
    pc,        \* pc_
    status,    \* "running", "halted", "error", or "thrown" by an exception
    compared   \* history: what the last subtraction compared, if it was the
               \* last instruction to set the flags

vars == <<gpr, flags, pc, status, compared>>

Flags == [zero : BOOLEAN, sign : BOOLEAN, carry : BOOLEAN, overflow : BOOLEAN]
Comparison == [less : BOOLEAN, equal : BOOLEAN, below : BOOLEAN,
               exact : BOOLEAN, known : BOOLEAN]
Unknown == [less |-> FALSE, equal |-> FALSE, below |-> FALSE, exact |-> FALSE,
            known |-> FALSE]

TypeOK ==
    /\ gpr \in [Registers -> Word]
    /\ flags \in Flags
    /\ pc \in Word
    /\ status \in {"running", "halted", "error", "thrown"}
    /\ compared \in Comparison

Init ==
    /\ gpr = [r \in Registers |-> 0]
    /\ flags = [zero |-> FALSE, sign |-> FALSE, carry |-> FALSE,
                overflow |-> FALSE]
    /\ pc = 0 /\ status = "running" /\ compared = Unknown

-----------------------------------------------------------------------------
(* Encoding and decoding. *)

kImmediateMarker == NumRegs - 1

Number(op) == CHOOSE n \in 0..Len(Opcodes) - 1 : Opcodes[n + 1] = op

\* encodeInstruction: fields side by side, the immediate cut to its field.
\* (parseNumberToken cuts a literal to 16 bits first, which changes nothing.)
EncodeInstruction(op, rd, rs1, rs2, imm) ==
    (((Number(op) * NumRegs + rd) * NumRegs + rs1) * NumRegs + rs2) * ImmModulus
        + (imm % ImmModulus)

SignExtendNot(n) == n                                              \* mutant

\* decodeInstruction extends the immediate by its sign bit.
SignExtend(n) == IF n >= ImmHalf THEN n - ImmModulus ELSE n

DecodeInstruction(raw) ==
    LET f == raw \div ImmModulus IN
    [op |-> Opcodes[f \div (NumRegs * NumRegs * NumRegs) + 1],
     rd |-> (f \div (NumRegs * NumRegs)) % NumRegs,
     rs1 |-> (f \div NumRegs) % NumRegs,
     rs2 |-> f % NumRegs,
     imm |-> SignExtend(raw % ImmModulus)]

\* The fields Parser::parseInstruction chooses for a source instruction.
Assemble(s) ==
    LET n == s.src.val IN
    CASE s.op \in Jumps -> EncodeInstruction(s.op, 0, 0, 0, n)
      [] s.op \in {"LOAD", "STORE"} -> EncodeInstruction(s.op, s.dst, 0, 0, n)
      [] s.op = "CALL" -> EncodeInstruction(s.op, 0, s.dst, 0, n)
      [] s.op \in {"HALT", "RET"} -> EncodeInstruction(s.op, 0, 0, 0, 0)
      [] s.op \in {"INC", "DEC", "NOT", "POP"} ->
            EncodeInstruction(s.op, s.dst, 0, 0, 0)
      [] s.op = "PUSH" /\ s.src.kind = "imm" ->
            EncodeInstruction(s.op, 0, 0, kImmediateMarker, n)
      [] s.op = "PUSH" /\ s.src.kind = "reg" ->
            EncodeInstruction(s.op, n, n, n, 0)
      [] s.op = "MOV" /\ s.src.kind = "reg" ->
            EncodeInstruction(s.op, s.dst, n, n, 0)
      [] s.op = "MOV" /\ s.src.kind = "imm" ->
            EncodeInstruction(s.op, s.dst, 0, kImmediateMarker, n)
      [] s.op = "CMP" /\ s.src.kind = "imm" ->
            EncodeInstruction(s.op, 0, s.dst, kImmediateMarker, n)
      [] s.op \in Binary /\ s.src.kind = "imm" ->
            EncodeInstruction(s.op, s.dst, s.dst, kImmediateMarker, n)
      [] s.op \in Binary \cup {"CMP"} /\ s.src.kind = "reg" ->
            EncodeInstruction(s.op, s.dst, s.dst, n, 0)

-----------------------------------------------------------------------------
(* RegisterFile and the instruction helpers. *)

Signed(x) == IF x >= Half THEN x - Modulus ELSE x

ToWordNot(n) == n                                                  \* mutant

\* arithmetic of a fixed width
ToWord(n) == n % Modulus

\* readOperand
Operand(i) ==
    IF i.rs2 = kImmediateMarker THEN ToWord(i.imm) ELSE gpr[i.rs2]

\* updateFlags leaves carry and overflow as they are.
UpdateFlags(x) ==
    [zero |-> x = 0, sign |-> Signed(x) < 0, carry |-> flags.carry,
     overflow |-> flags.overflow]

OverflowSameSign(x, y, d) ==                                       \* mutant
    Signed(x) < 0 /\ Signed(d) >= 0

\* the overflow flag of updateFlagsSub
Overflow(x, y, d) ==
    LET neg(w) == Signed(w) < 0 IN neg(x) # neg(y) /\ neg(x) # neg(d)

UpdateFlagsSub(x, y, d) ==
    [zero |-> d = 0, sign |-> Signed(d) < 0, carry |-> x < y,
     overflow |-> Overflow(x, y, d)]

TakeJumpStrict(f, op) == op = "JMP" \/ (op = "JE" /\ f.zero)       \* mutant
    \/ (op = "JL" /\ f.sign) \/ (op = "JLE" /\ f.sign)
    \/ (op = "JNE" /\ ~f.zero) \/ (op \in {"JG", "JGE"} /\ ~f.sign)

\* takeJump, and JMP, which always jumps
TakeJump(f, op) ==
    \/ op = "JMP"
    \/ op = "JE" /\ f.zero
    \/ op = "JNE" /\ ~f.zero
    \/ op = "JG" /\ ~f.zero /\ ~f.sign
    \/ op = "JGE" /\ ~f.sign
    \/ op = "JL" /\ f.sign
    \/ op = "JLE" /\ (f.zero \/ f.sign)

\* What a subtraction of y from x compares, in numbers.
Compare(x, y) ==
    [less |-> Signed(x) < Signed(y), equal |-> x = y, below |-> x < y,
     exact |-> Signed(x) - Signed(y) \in -Half..Half - 1, known |-> TRUE]

-----------------------------------------------------------------------------
(* The handlers. *)

AdvancePc == pc' = ToWord(pc + 1)

\* the one bits of every word
Ones == [x \in Word |-> {k \in 0..Bits - 1 : (x \div 2 ^ k) % 2 = 1}]

\* z is the result of a handler that goes through updateFlags.
Computes(op, x, y, z) ==
    \/ op = "ADD" /\ z = ToWord(x + y)
    \/ op = "MUL" /\ z = ToWord(x * y)
    \/ op = "DIV" /\ y # 0 /\ z = x \div y
    \/ op = "MOD" /\ y # 0 /\ z = x % y
    \/ op = "AND" /\ Ones[z] = Ones[x] \cap Ones[y]
    \/ op = "OR"  /\ Ones[z] = Ones[x] \cup Ones[y]
    \/ op = "XOR" /\ Ones[z] = (Ones[x] \ Ones[y]) \cup (Ones[y] \ Ones[x])

\* INC and NOT work on rd, the others on rs1 and their operand.
Computing == (Binary \ {"SUB", "NOP"}) \cup {"INC", "NOT"}

Compute(i) ==
    /\ i.op \in Computing
    /\ compared' = Unknown
    /\ AdvancePc /\ UNCHANGED status
    /\ \E z \in Word :
        /\ \/ Computes(i.op, gpr[i.rs1], Operand(i), z)
           \/ i.op = "INC" /\ z = ToWord(gpr[i.rd] + 1)
           \/ i.op = "NOT" /\ Ones[z] = (0..Bits - 1) \ Ones[gpr[i.rd]]
        /\ gpr' = [gpr EXCEPT ![i.rd] = z]
        /\ flags' = UpdateFlags(z)

DivideByZero(i) ==
    /\ i.op \in {"DIV", "MOD"} /\ Operand(i) = 0
    /\ status' = "error"
    /\ UNCHANGED <<gpr, flags, pc, compared>>

\* SUB and DEC keep the difference, CMP does not.
Subtract(i) ==
    LET x == IF i.op = "DEC" THEN gpr[i.rd] ELSE gpr[i.rs1]
        y == IF i.op = "DEC" THEN 1 ELSE Operand(i)
        d == ToWord(x - y) IN
    /\ i.op \in {"SUB", "DEC", "CMP"}
    /\ gpr' = IF i.op = "CMP" THEN gpr ELSE [gpr EXCEPT ![i.rd] = d]
    /\ flags' = UpdateFlagsSub(x, y, d)
    /\ compared' = Compare(x, y)
    /\ AdvancePc /\ UNCHANGED status

Move(i) ==
    /\ i.op = "MOV"
    /\ gpr' = [gpr EXCEPT ![i.rd] = Operand(i)]
    /\ AdvancePc /\ UNCHANGED <<flags, status, compared>>

Jump(i) ==
    /\ i.op \in Jumps
    /\ IF TakeJump(flags, i.op) THEN pc' = ToWord(i.imm) ELSE AdvancePc
    /\ UNCHANGED <<gpr, flags, status, compared>>

\* LOAD and POP fill rd with what memory holds.
Fill(i) ==
    /\ i.op \in {"LOAD", "POP"}
    /\ \E w \in Word : gpr' = [gpr EXCEPT ![i.rd] = w]
    /\ AdvancePc /\ UNCHANGED <<flags, status, compared>>

\* STORE, PUSH, NOP and every system call but exit leave the registers alone.
Proceed(i) ==
    /\ i.op \in {"STORE", "PUSH", "NOP"} \/ (i.op = "CALL" /\ i.rs1 # Exit)
    /\ AdvancePc /\ UNCHANGED <<gpr, flags, status, compared>>

Return(i) ==
    /\ i.op = "RET"
    /\ pc' \in Word
    /\ UNCHANGED <<gpr, flags, status, compared>>

\* HALT stays on its instruction, exit goes past it.
Stop(i) ==
    /\ i.op = "HALT" \/ (i.op = "CALL" /\ i.rs1 = Exit)
    /\ status' = "halted"
    /\ IF i.op = "CALL" THEN AdvancePc ELSE UNCHANGED pc
    /\ UNCHANGED <<gpr, flags, compared>>

\* A failed stack access is reported; a failed data access or system call
\* throws.
MemoryFails(i) ==
    /\ \/ i.op \in {"PUSH", "POP", "RET", "LOAD", "STORE"}
       \/ i.op = "CALL" /\ i.rs1 \notin {Exit, Yield}
    /\ status' = IF i.op \in {"PUSH", "POP", "RET"} THEN "error" ELSE "thrown"
    /\ UNCHANGED <<gpr, flags, pc, compared>>

\* What executing i asks of ProcessMemory or of SyscallHandler::handle.
Request(i) ==
    CASE i.op = "LOAD"  -> <<"readDataWord", ToWord(i.imm)>>
      [] i.op = "STORE" -> <<"writeDataWord", ToWord(i.imm), gpr[i.rd]>>
      [] i.op = "PUSH"  -> <<"pushWord", Operand(i)>>
      [] i.op \in {"POP", "RET"} -> <<"popWord">>
      [] i.op = "CALL"  -> <<"handle", i.rs1, i.imm % ArgModulus>>
      [] OTHER -> <<>>

\* InstructionRegistry::execute, and the CALL branch of executeInstruction.
Execute(i) ==
    \/ Compute(i) \/ DivideByZero(i) \/ Subtract(i) \/ Move(i) \/ Jump(i)
    \/ Fill(i) \/ Proceed(i) \/ Return(i) \/ Stop(i) \/ MemoryFails(i)

\* What the core decodes of the word the assembler made of s.
Decoded == [s \in Source |-> DecodeInstruction(Assemble(s))]

\* The next instruction is s.
Step(s) == status = "running" /\ Execute(Decoded[s])

Next == \E s \in Source : Step(s)

Spec == Init /\ [][Next]_vars

-----------------------------------------------------------------------------
(* Properties. *)

\* After a subtraction, and until another instruction sets the flags, they
\* tell how the operands compare: ZF as equal, CF as unsigned less, OF when
\* the difference has no signed representation, and SF differs from OF
\* exactly when the first is the smaller signed number.
FlagsTell ==
    compared.known =>
        /\ flags.zero <=> compared.equal
        /\ flags.carry <=> compared.below
        /\ flags.overflow <=> ~compared.exact
        /\ compared.less <=> ~(flags.sign <=> flags.overflow)

\* The relation a conditional jump is named after.
Relation(op) ==
    \/ op = "JE" /\ compared.equal
    \/ op = "JNE" /\ ~compared.equal
    \/ op = "JG" /\ ~compared.less /\ ~compared.equal
    \/ op = "JGE" /\ ~compared.less
    \/ op = "JL" /\ compared.less
    \/ op = "JLE" /\ (compared.less \/ compared.equal)

Immediate(n) == n \in -ImmHalf..ImmHalf - 1

\* s has no literal or label the immediate field cannot hold as a signed number,
\* and no second operand in the register whose number marks immediates, although
\* ISA.md:16 and ARCHITECTURE.md:67 allow both: such an instruction is executed
\* with another operand or address.
Plain(s) ==
    IF s.src.kind = "imm" THEN Immediate(s.src.val)
    ELSE s.src.val # kImmediateMarker

\* takeJump never looks at the overflow flag; still a conditional jump after
\* a comparison is taken exactly when the signed relation it is named after
\* holds, unless the difference of the operands overflowed.
JumpsCompare ==
    [][\A s \in Source :
        /\ s.op \in Conditional /\ Plain(s)
        /\ compared.known /\ compared.exact /\ Step(s)
        => pc' = IF Relation(s.op) THEN ToWord(s.src.val) ELSE ToWord(pc + 1)]_vars

\* The operand as the source text has it.
Written(s) ==
    IF s.src.kind = "imm" THEN ToWord(s.src.val) ELSE gpr[s.src.val]

\* The operations that leave a result in their register.
Subtractions == {"SUB", "DEC", "CMP"}
Results == {"MOV", "LOAD", "POP", "SUB", "DEC"} \cup Computing

\* The text of s allows z in the register it names.
Result(s, z) ==
    LET x == gpr[s.dst]
        y == Written(s) IN
    \/ s.op = "MOV" /\ z = y
    \/ s.op = "SUB" /\ z = ToWord(x - y)
    \/ s.op = "INC" /\ z = ToWord(x + 1)
    \/ s.op = "DEC" /\ z = ToWord(x - 1)
    \/ s.op = "NOT" /\ Ones[z] = (0..Bits - 1) \ Ones[x]
    \/ s.op \in {"LOAD", "POP"}
    \/ Computes(s.op, x, y, z)

\* The registers after s: its own has its result, every other is untouched.
RegistersMeant(s) ==
    IF s.op \in Results
    THEN \E z \in Word : Result(s, z) /\ gpr' = [gpr EXCEPT ![s.dst] = z]
    ELSE gpr' = gpr

\* The flags after s: of a subtraction they tell how its operands compare
\* (FlagsTell), of another result its zero and sign.
FlagsMeant(s) ==
    IF s.op \in Subtractions
    THEN compared' = Compare(gpr[s.dst], IF s.op = "DEC" THEN 1 ELSE Written(s))
    ELSE IF s.op \in Computing
    THEN /\ flags'.zero <=> gpr'[s.dst] = 0
         /\ flags'.sign <=> Signed(gpr'[s.dst]) < 0
         /\ flags'.carry = flags.carry /\ flags'.overflow = flags.overflow
    ELSE flags' = flags

\* The next instruction: a jump's label, what RET finds on the stack, HALT
\* itself, or the one that follows.
PcMeant(s) ==
    \/ s.op \in Jumps /\ TakeJump(flags, s.op) /\ pc' = ToWord(s.src.val)
    \/ s.op = "RET" /\ pc' \in Word
    \/ s.op = "HALT" /\ pc' = pc
    \/ /\ s.op \notin {"JMP", "RET", "HALT"}
       /\ ~(s.op \in Jumps /\ TakeJump(flags, s.op))
       /\ pc' = ToWord(pc + 1)

Ends(s) == s.op = "HALT" \/ (s.op = "CALL" /\ s.dst = Exit)

\* s cannot be done: the registers stay, and the process ends in an error or
\* with an exception.
FailureMeant(s) ==
    /\ \/ s.op \in {"DIV", "MOD"} /\ Written(s) = 0 /\ status' = "error"
       \/ s.op \in {"PUSH", "POP", "RET"} /\ status' = "error"
       \/ s.op \in {"LOAD", "STORE"} /\ status' = "thrown"
       \/ s.op = "CALL" /\ s.dst \notin {Exit, Yield} /\ status' = "thrown"
    /\ UNCHANGED <<gpr, flags, pc>>

\* What the text of s asks of memory or of the system, and with what.
Asked(s) ==
    CASE s.op = "LOAD"  -> <<"readDataWord", ToWord(s.src.val)>>
      [] s.op = "STORE" -> <<"writeDataWord", ToWord(s.src.val), gpr[s.dst]>>
      [] s.op = "PUSH"  -> <<"pushWord", Written(s)>>
      [] s.op \in {"POP", "RET"} -> <<"popWord">>
      [] s.op = "CALL"  -> <<"handle", s.dst, s.src.val % ArgModulus>>
      [] OTHER -> <<>>

\* What any instruction does according to its source text: to the registers,
\* the flags, the program counter and the process, and which access to memory
\* or system call it makes.  Encoding, decoding and the handler together
\* neither mix up fields nor lose the sign of an immediate.
Meaning(s) ==
    /\ Request(Decoded[s]) = Asked(s)
    /\ \/ FailureMeant(s)
       \/ /\ RegistersMeant(s) /\ FlagsMeant(s) /\ PcMeant(s)
          /\ status' = IF Ends(s) THEN "halted" ELSE "running"

\* Instructions with encodable operands mean what their source text says.
SourceFaithful ==
    [][\A s \in Source : Plain(s) /\ Step(s) => Meaning(s)]_vars
=============================================================================
