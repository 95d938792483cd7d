----------------------------- MODULE CpuProofs -----------------------------
(***************************************************************************)
(* Proofs about Cpu for every width of words and immediates and every      *)
(* number of registers: what the handlers preserve, and that an            *)
(* instruction means the same to the core as to its source text.           *)
(***************************************************************************)
EXTENDS Cpu, TLAPS

\* Words are the residues of the modulus.
LEMMA ToWordType == \A n \in Int : ToWord(n) \in Word
BY CpuAssumption DEF ToWord, Word, Modulus

\* A difference of words wraps at most once.
LEMMA ToWordSub ==
    ASSUME NEW x \in Word, NEW y \in Word
    PROVE  ToWord(x - y) = IF x >= y THEN x - y ELSE x - y + Modulus
BY CpuAssumption DEF ToWord, Word, Modulus

\* Whatever an instruction word is, its fields name registers.
LEMMA DecodeType ==
    ASSUME NEW raw \in Int
    PROVE  /\ DecodeInstruction(raw).rd \in Registers
           /\ DecodeInstruction(raw).rs1 \in Registers
           /\ DecodeInstruction(raw).rs2 \in Registers
           /\ DecodeInstruction(raw).imm \in Int
<1>. DEFINE f == raw \div ImmModulus
<1>1. ImmModulus \in Nat \ {0} /\ NumRegs \in Nat \ {0}
    BY CpuAssumption DEF ImmModulus
<1>2. f \in Int BY <1>1
<1>3. \A n \in Int : n % NumRegs \in Registers BY <1>1 DEF Registers
<1>4. raw % ImmModulus \in Int BY <1>1
<1>5. SignExtend(raw % ImmModulus) \in Int
    BY <1>1, <1>4, CpuAssumption DEF SignExtend
<1>6. NumRegs * NumRegs \in Nat \ {0} BY <1>1
<1>7. f \div NumRegs \in Int BY <1>1, <1>2
<1>8. f \div (NumRegs * NumRegs) \in Int BY <1>2, <1>6
<1>. QED BY <1>2, <1>3, <1>5, <1>7, <1>8 DEF DecodeInstruction

\* What the assembler produces for any source instruction is a number.
LEMMA AssembleType == \A s \in Source : Assemble(s) \in Int
<1>. SUFFICES ASSUME NEW s \in Source PROVE Assemble(s) \in Int OBVIOUS
<1>1. s.dst \in Int /\ s.src.val \in Int
    BY CpuAssumption DEF Registers
<1>2. Number(s.op) \in Int
    <2>1. \E n \in 0..Len(Opcodes) - 1 : Opcodes[n + 1] = s.op
        <3>1. PICK k \in DOMAIN Opcodes : s.op = Opcodes[k] BY CpuAssumption
        <3>2. k \in 1..Len(Opcodes) /\ Len(Opcodes) \in Nat
            BY <3>1 DEF Opcodes
        <3>3. k - 1 \in 0..Len(Opcodes) - 1 /\ (k - 1) + 1 = k BY <3>2
        <3>. QED BY <3>1, <3>3
    <2>2. Number(s.op) \in 0..Len(Opcodes) - 1 BY <2>1, Zenon DEF Number
    <2>3. Len(Opcodes) \in Nat BY DEF Opcodes
    <2>. QED BY <2>2, <2>3
<1>3. kImmediateMarker \in Int BY CpuAssumption DEF kImmediateMarker
<1>4. ASSUME NEW rd \in Int, NEW rs1 \in Int, NEW rs2 \in Int, NEW imm \in Int
      PROVE  EncodeInstruction(s.op, rd, rs1, rs2, imm) \in Int
    <2>1. ImmModulus \in Nat \ {0} /\ NumRegs \in Int
        BY CpuAssumption DEF ImmModulus
    <2>2. imm % ImmModulus \in Int BY <2>1
    <2>. QED BY <1>2, <2>1, <2>2 DEF EncodeInstruction
<1>. DEFINE E(rd, rs1, rs2, imm) == EncodeInstruction(s.op, rd, rs1, rs2, imm)
<1>5. \A rd, rs1, rs2, imm \in Int : E(rd, rs1, rs2, imm) \in Int BY <1>4
<1>6. /\ E(0, 0, 0, s.src.val) \in Int /\ E(s.dst, 0, 0, s.src.val) \in Int
      /\ E(0, s.dst, 0, s.src.val) \in Int /\ E(0, 0, 0, 0) \in Int
      /\ E(s.dst, 0, 0, 0) \in Int
      /\ E(0, 0, kImmediateMarker, s.src.val) \in Int
      /\ E(s.src.val, s.src.val, s.src.val, 0) \in Int
      /\ E(s.dst, s.src.val, s.src.val, 0) \in Int
      /\ E(s.dst, 0, kImmediateMarker, s.src.val) \in Int
      /\ E(0, s.dst, kImmediateMarker, s.src.val) \in Int
      /\ E(s.dst, s.dst, kImmediateMarker, s.src.val) \in Int
      /\ E(s.dst, s.dst, s.src.val, 0) \in Int
    <2>1. 0 \in Int OBVIOUS
    <2>. HIDE DEF E
    <2>. QED BY <1>1, <1>3, <1>5, <2>1, Zenon
<1>7. \/ s.op \in Jumps \cup Binary
      \/ s.op \in {"MOV", "INC", "DEC", "NOT", "CMP", "LOAD", "STORE", "CALL",
                   "HALT", "PUSH", "POP", "RET"}
    <2>1. PICK k \in DOMAIN Opcodes : s.op = Opcodes[k] BY CpuAssumption
    <2>2. k \in 1..28 BY <2>1 DEF Opcodes
    <2>. QED BY <2>1, <2>2 DEF Opcodes, Jumps, Conditional, Binary
<1>8. s.src.kind = "reg" \/ s.src.kind = "imm" BY CpuAssumption
<1>. HIDE DEF E
<1>9. CASE s.op \in Jumps \cup Binary
    BY <1>6, <1>8, <1>9 DEF Assemble, Jumps, Conditional, Binary, E
<1>10. CASE s.op \in {"MOV", "INC", "DEC", "NOT", "CMP", "LOAD", "STORE", "CALL",
                     "HALT", "PUSH", "POP", "RET"}
    BY <1>6, <1>8, <1>10 DEF Assemble, Jumps, Conditional, Binary, E
<1>. QED BY <1>7, <1>9, <1>10

\* An operand is a word (readOperand).
LEMMA OperandType ==
    ASSUME TypeOK, NEW i, i.rs2 \in Registers, i.imm \in Int
    PROVE  Operand(i) \in Word
BY ToWordType DEF Operand, TypeOK

\* The flags updateFlagsSub computes from the bits of the operands and of the
\* difference are those of the numbers the operands stand for.
LEMMA SubtractionFlags ==
    ASSUME NEW x \in Word, NEW y \in Word
    PROVE  LET d == ToWord(x - y) IN
           /\ (d = 0) <=> (x = y)
           /\ Overflow(x, y, d) <=>
                ~(Signed(x) - Signed(y) \in -Half..Half - 1)
           /\ (Signed(x) < Signed(y)) <=>
                ~((Signed(d) < 0) <=> Overflow(x, y, d))
<1>. DEFINE d == IF x >= y THEN x - y ELSE x - y + Modulus
<1>1. ToWord(x - y) = d BY ToWordSub
<1>2. Half \in Nat \ {0} BY CpuAssumption
<1>3. (d = 0) <=> (x = y) BY <1>2 DEF Word, Modulus
<1>4. Overflow(x, y, d) <=> ~(Signed(x) - Signed(y) \in -Half..Half - 1)
    BY <1>2 DEF Word, Modulus, Overflow, Signed
<1>5. (Signed(x) < Signed(y)) <=> ~((Signed(d) < 0) <=> Overflow(x, y, d))
    BY <1>2 DEF Word, Modulus, Overflow, Signed
<1>. QED BY <1>1, <1>3, <1>4, <1>5

Inv == TypeOK /\ FlagsTell

LEMMA InitInv == Init => Inv
<1>. SUFFICES ASSUME Init PROVE Inv OBVIOUS
<1>1. 0 \in Word BY CpuAssumption DEF Word, Modulus
<1>2. TypeOK BY <1>1 DEF Init, TypeOK, Flags, Comparison, Unknown
<1>3. FlagsTell BY DEF Init, FlagsTell, Unknown
<1>. QED BY <1>2, <1>3 DEF Inv

\* The comparison a subtraction leaves behind and its flags agree.
LEMMA SubtractFlagsTell ==
    ASSUME NEW x \in Word, NEW y \in Word,
           flags' = UpdateFlagsSub(x, y, ToWord(x - y)),
           compared' = Compare(x, y)
    PROVE  FlagsTell' /\ flags' \in Flags /\ compared' \in Comparison
<1>. DEFINE d == ToWord(x - y)
<1>1. /\ (d = 0) <=> (x = y)
      /\ Overflow(x, y, d) <=> ~(Signed(x) - Signed(y) \in -Half..Half - 1)
      /\ (Signed(x) < Signed(y)) <=> ~((Signed(d) < 0) <=> Overflow(x, y, d))
    BY SubtractionFlags
<1>2. /\ flags'.zero <=> (d = 0)
      /\ flags'.sign <=> (Signed(d) < 0)
      /\ flags'.carry <=> (x < y)
      /\ flags'.overflow <=> Overflow(x, y, d)
    BY DEF UpdateFlagsSub
<1>3. /\ compared'.less <=> (Signed(x) < Signed(y))
      /\ compared'.equal <=> (x = y)
      /\ compared'.below <=> (x < y)
      /\ compared'.exact <=> (Signed(x) - Signed(y) \in -Half..Half - 1)
    BY DEF Compare
<1>4. flags' \in Flags BY DEF UpdateFlagsSub, Flags, Overflow
<1>5. compared' \in Comparison BY DEF Compare, Comparison
<1>. HIDE DEF d
<1>6. FlagsTell' BY <1>1, <1>2, <1>3, Zenon DEF FlagsTell
<1>. QED BY <1>4, <1>5, <1>6

\* One executed instruction, whatever word it was decoded from.
LEMMA ExecuteInv ==
    ASSUME Inv, NEW i, i.rd \in Registers, i.rs1 \in Registers,
           i.rs2 \in Registers, i.imm \in Int, status = "running", Execute(i)
    PROVE  Inv'
<1>. USE DEF Inv
<1>1. Operand(i) \in Word BY OperandType
<1>2. gpr[i.rd] \in Word /\ gpr[i.rs1] \in Word BY DEF TypeOK
<1>3. Word \subseteq Int /\ 1 \in Word
    BY CpuAssumption DEF Word, Modulus
<1>4. pc \in Int /\ ToWord(pc + 1) \in Word /\ ToWord(i.imm) \in Word
    BY <1>3, ToWordType DEF TypeOK
<1>5. CASE Compute(i)
    <2>1. PICK z \in Word : /\ gpr' = [gpr EXCEPT ![i.rd] = z]
                            /\ flags' = UpdateFlags(z)
        BY <1>5 DEF Compute
    <2>2. flags' \in Flags BY <2>1 DEF UpdateFlags, Flags, TypeOK
    <2>3. compared' \in Comparison /\ compared'.known = FALSE
        BY <1>5 DEF Compute, Unknown, Comparison
    <2>4. TypeOK' BY <1>4, <1>5, <2>1, <2>2, <2>3 DEF Compute, AdvancePc, TypeOK
    <2>5. FlagsTell' BY <2>3 DEF FlagsTell
    <2>. QED BY <2>4, <2>5
<1>6. CASE DivideByZero(i)
    BY <1>6 DEF DivideByZero, TypeOK, FlagsTell
<1>7. CASE Subtract(i)
    <2>. DEFINE x == IF i.op = "DEC" THEN gpr[i.rd] ELSE gpr[i.rs1]
                y == IF i.op = "DEC" THEN 1 ELSE Operand(i)
    <2>1. x \in Word /\ y \in Word BY <1>1, <1>2, <1>3
    <2>2. /\ flags' = UpdateFlagsSub(x, y, ToWord(x - y))
          /\ compared' = Compare(x, y)
          /\ gpr' = IF i.op = "CMP" THEN gpr
                    ELSE [gpr EXCEPT ![i.rd] = ToWord(x - y)]
          /\ pc' = ToWord(pc + 1) /\ status' = status
        BY <1>7 DEF Subtract, AdvancePc
    <2>. HIDE DEF x, y
    <2>3. ToWord(x - y) \in Word BY <2>1, <1>3, ToWordType
    <2>4. FlagsTell' /\ flags' \in Flags /\ compared' \in Comparison
        BY <2>1, <2>2, SubtractFlagsTell
    <2>5. TypeOK' BY <1>4, <2>2, <2>3, <2>4 DEF TypeOK
    <2>. QED BY <2>4, <2>5
<1>8. CASE Move(i)
    BY <1>1, <1>4, <1>8 DEF Move, AdvancePc, TypeOK, FlagsTell
<1>9. CASE Jump(i)
    BY <1>4, <1>9 DEF Jump, AdvancePc, TypeOK, FlagsTell
<1>10. CASE Fill(i)
    BY <1>4, <1>10 DEF Fill, AdvancePc, TypeOK, FlagsTell
<1>11. CASE Proceed(i)
    BY <1>4, <1>11 DEF Proceed, AdvancePc, TypeOK, FlagsTell
<1>12. CASE Return(i) BY <1>12 DEF Return, TypeOK, FlagsTell
<1>13. CASE Stop(i) BY <1>4, <1>13 DEF Stop, AdvancePc, TypeOK, FlagsTell
<1>14. CASE MemoryFails(i) BY <1>14 DEF MemoryFails, TypeOK, FlagsTell
<1>. QED BY <1>5, <1>6, <1>7, <1>8, <1>9, <1>10, <1>11, <1>12, <1>13, <1>14
    DEF Execute

LEMMA NextInv == Inv /\ [Next]_vars => Inv'
<1>. SUFFICES ASSUME Inv, [Next]_vars PROVE Inv' OBVIOUS
<1>1. ASSUME NEW s \in Source, Step(s) PROVE Inv'
    <2>1. Assemble(s) \in Int BY AssembleType
    <2>2. status = "running" /\ Execute(DecodeInstruction(Assemble(s)))
        BY <1>1 DEF Step, Decoded
    <2>. QED BY <2>1, <2>2, DecodeType, ExecuteInv
<1>2. CASE UNCHANGED vars BY <1>2 DEF vars, Inv, TypeOK, FlagsTell
<1>. QED BY <1>1, <1>2 DEF Next

\* For every word width: registers, program counter and flags keep their
\* types whatever is executed, and the flags tell how the operands of the
\* last subtraction compare, as signed and as unsigned numbers.
THEOREM FlagsAreRight == Spec => [](TypeOK /\ FlagsTell)
<1>. QED BY InitInv, NextInv, PTL DEF Spec, Inv

\* For every word width: no instruction leaves a register or the program
\* counter with anything but a word.
THEOREM TypesHold == Spec => []TypeOK
<1>. QED BY FlagsAreRight, PTL

-----------------------------------------------------------------------------
(* Conditional jumps. *)

\* A number put next to a field can be read back, and so can the field.
LEMMA FieldRoundTrip ==
    ASSUME NEW a \in Nat, NEW m \in Nat \ {0}, NEW b \in 0..m - 1
    PROVE  (a * m + b) \div m = a /\ (a * m + b) % m = b
OBVIOUS

\* The immediate field keeps what fits it, sign included.
LEMMA ImmediateRoundTrip ==
    ASSUME NEW n \in Int, Immediate(n)
    PROVE  n % ImmModulus \in 0..ImmModulus - 1 /\ SignExtend(n % ImmModulus) = n
<1>1. ImmHalf \in Nat \ {0} BY CpuAssumption
<1>2. n % ImmModulus = IF n >= 0 THEN n ELSE n + ImmModulus
    BY <1>1 DEF Immediate, ImmModulus
<1>. QED BY <1>1, <1>2 DEF Immediate, ImmModulus, SignExtend

\* An opcode is found again by its number.
LEMMA OpcodeNumber ==
    ASSUME NEW s \in Source
    PROVE  Number(s.op) \in Nat /\ Opcodes[Number(s.op) + 1] = s.op
<1>1. \E n \in 0..Len(Opcodes) - 1 : Opcodes[n + 1] = s.op
    <2>1. PICK k \in DOMAIN Opcodes : s.op = Opcodes[k] BY CpuAssumption
    <2>2. k \in 1..Len(Opcodes) /\ Len(Opcodes) \in Nat
        BY <2>1 DEF Opcodes
    <2>3. k - 1 \in 0..Len(Opcodes) - 1 /\ (k - 1) + 1 = k BY <2>2
    <2>. QED BY <2>1, <2>3
<1>2. /\ Number(s.op) \in 0..Len(Opcodes) - 1
      /\ Opcodes[Number(s.op) + 1] = s.op
    BY <1>1, Zenon DEF Number
<1>3. Len(Opcodes) \in Nat BY DEF Opcodes
<1>. QED BY <1>2, <1>3

\* A jump whose label fits the immediate field is decoded as it was written
\* (encodeJump, decodeInstruction).
LEMMA JumpRoundTrip ==
    ASSUME NEW s \in Source, s.op \in Jumps, Immediate(s.src.val)
    PROVE  /\ DecodeInstruction(Assemble(s)).op = s.op
           /\ DecodeInstruction(Assemble(s)).imm = s.src.val
<1>. DEFINE k == Number(s.op)
            n == s.src.val
            b == n % ImmModulus
            f == ((k * NumRegs + 0) * NumRegs + 0) * NumRegs + 0
            raw == f * ImmModulus + b
<1>1. n \in Int BY CpuAssumption
<1>2. b \in 0..ImmModulus - 1 /\ SignExtend(b) = n BY <1>1, ImmediateRoundTrip
<1>3. k \in Nat /\ Opcodes[k + 1] = s.op BY OpcodeNumber
<1>4. NumRegs \in Nat \ {0} /\ ImmModulus \in Nat \ {0}
    BY CpuAssumption DEF ImmModulus
<1>5. Assemble(s) = raw
    <2>1. Assemble(s) = EncodeInstruction(s.op, 0, 0, 0, n)
        BY DEF Assemble, Jumps, Conditional, Binary
    <2>. QED BY <2>1 DEF EncodeInstruction
<1>6. NumRegs * NumRegs * NumRegs \in Nat \ {0}
    <2>1. NumRegs * NumRegs \in Nat \ {0} BY <1>4
    <2>. QED BY <1>4, <2>1
<1>7. f = k * (NumRegs * NumRegs * NumRegs) + 0 /\ f \in Nat
    <2>1. f = ((k * NumRegs) * NumRegs) * NumRegs BY <1>3, <1>4
    <2>2. ((k * NumRegs) * NumRegs) * NumRegs = k * (NumRegs * NumRegs * NumRegs)
        BY <1>3, <1>4
    <2>3. k * (NumRegs * NumRegs * NumRegs) \in Nat BY <1>3, <1>6
    <2>. HIDE DEF f, k
    <2>. QED BY <2>1, <2>2, <2>3
<1>8. raw \div ImmModulus = f /\ raw % ImmModulus = b
    <2>. HIDE DEF f, b
    <2>. QED BY <1>2, <1>4, <1>7, FieldRoundTrip
<1>9. f \div (NumRegs * NumRegs * NumRegs) = k
    <2>. DEFINE m == NumRegs * NumRegs * NumRegs
    <2>1. m \in Nat \ {0} /\ f = k * m + 0 BY <1>6, <1>7
    <2>. HIDE DEF f, k, m
    <2>2. 0 \in 0..m - 1 BY <2>1
    <2>3. (k * m + 0) \div m = k BY <2>1, <2>2, <1>3, FieldRoundTrip
    <2>4. f \div m = k BY <2>1, <2>3
    <2>. QED BY <2>4 DEF m
<1>10. DecodeInstruction(raw).op = Opcodes[k + 1]
    <2>. HIDE DEF f, k, b, raw
    <2>. QED BY <1>8, <1>9 DEF DecodeInstruction
<1>11. DecodeInstruction(raw).imm = n
    <2>. HIDE DEF f, k, b, raw, n
    <2>. QED BY <1>2, <1>8 DEF DecodeInstruction
<1>. QED BY <1>3, <1>5, <1>10, <1>11

\* After a comparison that did not overflow, what takeJump reads from the
\* zero and sign flags is the relation the jump is named after.
LEMMA TakeJumpRelation ==
    ASSUME Inv, compared.known, compared.exact, NEW op \in Conditional
    PROVE  TakeJump(flags, op) <=> Relation(op)
<1>1. /\ flags.zero <=> compared.equal
      /\ flags.overflow <=> ~compared.exact
      /\ compared.less <=> ~(flags.sign <=> flags.overflow)
    BY DEF Inv, FlagsTell
<1>2. (flags.zero <=> compared.equal) /\ (flags.sign <=> compared.less)
    BY <1>1, Zenon
<1>3. op # "JMP" BY DEF Conditional
<1>. QED BY <1>2, <1>3, Zenon DEF TakeJump, Relation

\* For every word width: unless the compared difference overflowed, a
\* conditional jump whose label can be encoded goes to that label exactly
\* when the signed relation it is named after holds.
THEOREM JumpsCompareRight == Spec => JumpsCompare
<1>1. ASSUME Inv, NEW s \in Source, s.op \in Conditional, Plain(s),
             compared.known, compared.exact, Step(s)
      PROVE  pc' = IF Relation(s.op) THEN ToWord(s.src.val) ELSE ToWord(pc + 1)
    <2>. DEFINE i == DecodeInstruction(Assemble(s))
    <2>1. Immediate(s.src.val) BY <1>1, CpuAssumption DEF Plain, Jumps
    <2>2. i.op = s.op /\ i.imm = s.src.val
        BY <1>1, <2>1, JumpRoundTrip DEF Jumps
    <2>3. Execute(i) BY <1>1 DEF Step, Decoded
    <2>. HIDE DEF i
    <2>4. Jump(i)
        BY <1>1, <2>2, <2>3 DEF Execute, Compute, Computing, Binary, DivideByZero,
            Subtract, Move, Fill, Proceed, Return, Stop, MemoryFails, Conditional
    <2>5. TakeJump(flags, s.op) <=> Relation(s.op) BY <1>1, TakeJumpRelation
    <2>6. pc' = IF TakeJump(flags, s.op) THEN ToWord(s.src.val)
                ELSE ToWord(pc + 1)
        BY <2>2, <2>4 DEF Jump, AdvancePc
    <2>. QED BY <2>5, <2>6
<1>2. Inv => [\A s \in Source :
                /\ s.op \in Conditional /\ Plain(s)
                /\ compared.known /\ compared.exact /\ Step(s)
                => pc' = IF Relation(s.op) THEN ToWord(s.src.val)
                         ELSE ToWord(pc + 1)]_vars
    BY <1>1
<1>. QED BY <1>2, InitInv, NextInv, PTL DEF Spec, JumpsCompare

-----------------------------------------------------------------------------
(* What an instruction word means. *)

\* A field of size n below a field of size m: together one of size m * n.
LEMMA TwoFields ==
    ASSUME NEW m \in Nat \ {0}, NEW n \in Nat \ {0},
           NEW b \in 0..m - 1, NEW c \in 0..n - 1
    PROVE  b * n + c \in 0..m * n - 1
<1>1. b * n \in Nat /\ m * n \in Nat
  OBVIOUS
<1>2. (m - (b + 1)) * n \in Nat
  <2>1. m - (b + 1) \in Nat
    OBVIOUS
  <2> QED BY <2>1
<1>3. (m - (b + 1)) * n = m * n - b * n - n
  OBVIOUS
<1> QED BY <1>1, <1>2, <1>3

\* The fields of an instruction word do not run into each other
\* (encodeInstruction, decodeInstruction).
LEMMA EncodeRoundTrip ==
    ASSUME NEW s \in Source, NEW rd \in Registers, NEW rs1 \in Registers,
           NEW rs2 \in Registers, NEW n \in Int
    PROVE  LET i == DecodeInstruction(EncodeInstruction(s.op, rd, rs1, rs2, n)) IN
           /\ i.op = s.op /\ i.rd = rd /\ i.rs1 = rs1 /\ i.rs2 = rs2
           /\ Immediate(n) => i.imm = n
<1> DEFINE N == NumRegs
           k == Number(s.op)
           b == n % ImmModulus
           a == k * N + rd
           e == a * N + rs1
           f == e * N + rs2
           raw == f * ImmModulus + b
<1>1. b \in 0..ImmModulus - 1 /\ (Immediate(n) => SignExtend(b) = n)
  BY ImmediateRoundTrip, CpuAssumption DEF ImmModulus
<1>2. k \in Nat /\ Opcodes[k + 1] = s.op
  BY OpcodeNumber
<1>3. N \in Nat \ {0} /\ ImmModulus \in Nat \ {0}
  BY CpuAssumption DEF ImmModulus
<1>4. rd \in 0..N - 1 /\ rs1 \in 0..N - 1 /\ rs2 \in 0..N - 1
  BY DEF Registers
<1>5. EncodeInstruction(s.op, rd, rs1, rs2, n) = raw
  BY DEF EncodeInstruction
<1> HIDE DEF N, k, b
<1>6. a \in Nat /\ a % N = rd
  <2>1. a \in Nat
    BY <1>2, <1>3, <1>4
  <2> QED BY <1>2, <1>3, <1>4, <2>1, FieldRoundTrip
<1>7. e \in Nat /\ e \div N = a /\ e % N = rs1
  <2> HIDE DEF a
  <2>1. e \in Nat
    BY <1>3, <1>4, <1>6
  <2> QED BY <1>3, <1>4, <1>6, <2>1, FieldRoundTrip
<1>8. f \in Nat /\ f \div N = e /\ f % N = rs2
  <2> HIDE DEF e
  <2>1. f \in Nat
    BY <1>3, <1>4, <1>7
  <2> QED BY <1>3, <1>4, <1>7, <2>1, FieldRoundTrip
<1>9. f \div (N * N) = a
  <2> DEFINE c == rs1 * N + rs2
  <2>1. N * N \in Nat \ {0} /\ c \in 0..N * N - 1
    BY <1>3, <1>4, TwoFields
  <2>2. f = a * (N * N) + c
    <3> HIDE DEF a
    <3> QED BY <1>3, <1>4, <1>6
  <2> HIDE DEF a, c, f
  <2> QED BY <1>6, <2>1, <2>2, FieldRoundTrip
<1>10. f \div (N * N * N) = k
  <2> DEFINE M == N * N
             c == rs1 * N + rs2
             g == rd * M + c
  <2>1. M \in Nat \ {0} /\ c \in 0..M - 1
    BY <1>3, <1>4, TwoFields
  <2>2. N * M \in Nat \ {0} /\ g \in 0..N * M - 1
    <3> HIDE DEF c, M
    <3>1. N * M \in Nat \ {0}
      BY <1>3, <2>1
    <3> QED BY <1>3, <1>4, <2>1, <3>1, TwoFields
  <2>3. f = k * (N * M) + g /\ N * N * N = N * M
    BY <1>2, <1>3, <1>4
  <2> HIDE DEF g, f, M
  <2> QED BY <1>2, <2>2, <2>3, FieldRoundTrip
<1>11. raw \div ImmModulus = f /\ raw % ImmModulus = b
  <2> HIDE DEF f
  <2> QED BY <1>1, <1>3, <1>8, FieldRoundTrip
<1> DEFINE i == DecodeInstruction(raw)
<1>12. /\ i.op = Opcodes[f \div (N * N * N) + 1]
       /\ i.rd = (f \div (N * N)) % N /\ i.rs1 = (f \div N) % N
       /\ i.rs2 = f % N /\ i.imm = SignExtend(b)
  <2> HIDE DEF raw, f
  <2> QED BY <1>11 DEF DecodeInstruction, N
<1>13. /\ i.op = s.op /\ i.rd = rd /\ i.rs1 = rs1 /\ i.rs2 = rs2
       /\ Immediate(n) => i.imm = n
  <2> HIDE DEF i, f, e, a
  <2> QED BY <1>1, <1>2, <1>6, <1>7, <1>8, <1>9, <1>10, <1>12
<1> QED BY <1>5, <1>13

\* What the core decodes of an instruction is what the parser was given: the
\* operation, and, where the operation has them, its registers and its operand.
LEMMA DecodedFields ==
    ASSUME NEW s \in Source, Plain(s)
    PROVE  LET i == Decoded[s] IN
           /\ i.op = s.op
           /\ s.op \in Results \cup {"STORE"} => i.rd = s.dst
           /\ s.op \in Binary \cup {"CMP", "CALL"} => i.rs1 = s.dst
           /\ s.op \in Binary \cup {"MOV", "CMP", "PUSH"} => Operand(i) = Written(s)
           /\ s.op \in Jumps \cup {"LOAD", "STORE", "CALL"} => i.imm = s.src.val
<1> DEFINE E(rd, rs1, rs2, n) ==
             DecodeInstruction(EncodeInstruction(s.op, rd, rs1, rs2, n))
           v == s.src.val
           i == DecodeInstruction(Assemble(s))
<1>1. /\ s.dst \in Registers /\ v \in Int /\ 0 \in Registers
      /\ kImmediateMarker \in Registers
      /\ s.src.kind \in {"imm", "reg"}
      /\ s.src.kind = "reg" => v \in Registers /\ v # kImmediateMarker
      /\ s.src.kind = "imm" => Immediate(v)
      /\ s.op \in Jumps \cup {"LOAD", "STORE", "CALL"} => s.src.kind = "imm"
  BY CpuAssumption DEF Registers, kImmediateMarker, Plain
<1>2. ASSUME NEW rd \in Registers, NEW rs1 \in Registers, NEW rs2 \in Registers,
             NEW n \in Int
      PROVE  /\ E(rd, rs1, rs2, n).op = s.op /\ E(rd, rs1, rs2, n).rd = rd
             /\ E(rd, rs1, rs2, n).rs1 = rs1 /\ E(rd, rs1, rs2, n).rs2 = rs2
             /\ Immediate(n) => E(rd, rs1, rs2, n).imm = n
  BY EncodeRoundTrip
<1>3. Decoded[s] = i
  BY DEF Decoded
<1> HIDE DEF E
<1> USE DEF Results, Computing, Binary
<1>4. CASE s.op \in Jumps
  <2>1. i = E(0, 0, 0, v)
    BY <1>4 DEF Assemble, Jumps, Conditional, Binary, E
  <2> HIDE DEF i, v
  <2>2. i.op = s.op /\ i.imm = v
    BY <1>1, <1>2, <1>4, <2>1
  <2> QED BY <1>3, <1>4, <2>2 DEF Jumps, Conditional, v
<1>5. CASE s.op \in Binary /\ s.src.kind = "imm"
  <2>1. i = E(s.dst, s.dst, kImmediateMarker, v)
    BY <1>5 DEF Assemble, Jumps, Conditional, Binary, E
  <2> HIDE DEF i, v
  <2>2. /\ i.op = s.op /\ i.rd = s.dst /\ i.rs1 = s.dst
        /\ i.rs2 = kImmediateMarker /\ i.imm = v
    BY <1>1, <1>2, <1>5, <2>1
  <2>3. Operand(i) = Written(s)
    BY <1>5, <2>2 DEF Operand, Written, v
  <2> QED BY <1>3, <1>5, <2>2, <2>3 DEF Jumps, Conditional
<1>6. CASE s.op \in Binary /\ s.src.kind = "reg"
  <2>1. i = E(s.dst, s.dst, v, 0)
    BY <1>6 DEF Assemble, Jumps, Conditional, Binary, E
  <2> HIDE DEF i, v
  <2>2. i.op = s.op /\ i.rd = s.dst /\ i.rs1 = s.dst /\ i.rs2 = v
    BY <1>1, <1>2, <1>6, <2>1
  <2>3. Operand(i) = Written(s)
    BY <1>1, <1>6, <2>2 DEF Operand, Written, v
  <2> QED BY <1>3, <1>6, <2>2, <2>3 DEF Jumps, Conditional
<1>7. CASE s.op = "MOV" /\ s.src.kind = "imm"
  <2>1. i = E(s.dst, 0, kImmediateMarker, v)
    BY <1>7 DEF Assemble, Jumps, Conditional, Binary, E
  <2> HIDE DEF i, v
  <2>2. i.op = s.op /\ i.rd = s.dst /\ i.rs2 = kImmediateMarker /\ i.imm = v
    BY <1>1, <1>2, <1>7, <2>1
  <2>3. Operand(i) = Written(s)
    BY <1>7, <2>2 DEF Operand, Written, v
  <2> QED BY <1>3, <1>7, <2>2, <2>3 DEF Jumps, Conditional
<1>8. CASE s.op = "MOV" /\ s.src.kind = "reg"
  <2>1. i = E(s.dst, v, v, 0)
    BY <1>8 DEF Assemble, Jumps, Conditional, Binary, E
  <2> HIDE DEF i, v
  <2>2. i.op = s.op /\ i.rd = s.dst /\ i.rs2 = v
    BY <1>1, <1>2, <1>8, <2>1
  <2>3. Operand(i) = Written(s)
    BY <1>1, <1>8, <2>2 DEF Operand, Written, v
  <2> QED BY <1>3, <1>8, <2>2, <2>3 DEF Jumps, Conditional
<1>9. CASE s.op \in {"INC", "DEC", "NOT", "POP"}
  <2>1. i = E(s.dst, 0, 0, 0)
    BY <1>9 DEF Assemble, Jumps, Conditional, Binary, E
  <2> HIDE DEF i
  <2>2. i.op = s.op /\ i.rd = s.dst
    BY <1>1, <1>2, <2>1
  <2> QED BY <1>3, <1>9, <2>2 DEF Jumps, Conditional
<1>10. CASE s.op \in {"LOAD", "STORE"}
  <2>1. i = E(s.dst, 0, 0, v)
    BY <1>10 DEF Assemble, Jumps, Conditional, Binary, E
  <2> HIDE DEF i, v
  <2>2. i.op = s.op /\ i.rd = s.dst /\ i.imm = v
    BY <1>1, <1>2, <1>10, <2>1
  <2> QED BY <1>3, <1>10, <2>2 DEF Jumps, Conditional, v
<1>11. CASE s.op = "CALL"
  <2>1. i = E(0, s.dst, 0, v)
    BY <1>11 DEF Assemble, Jumps, Conditional, Binary, E
  <2> HIDE DEF i, v
  <2>2. i.op = s.op /\ i.rs1 = s.dst /\ i.imm = v
    BY <1>1, <1>2, <1>11, <2>1
  <2> QED BY <1>3, <1>11, <2>2 DEF Jumps, Conditional, v
<1>12. CASE s.op = "CMP" /\ s.src.kind = "imm"
  <2>1. i = E(0, s.dst, kImmediateMarker, v)
    BY <1>12 DEF Assemble, Jumps, Conditional, Binary, E
  <2> HIDE DEF i, v
  <2>2. i.op = s.op /\ i.rs1 = s.dst /\ i.rs2 = kImmediateMarker /\ i.imm = v
    BY <1>1, <1>2, <1>12, <2>1
  <2>3. Operand(i) = Written(s)
    BY <1>12, <2>2 DEF Operand, Written, v
  <2> QED BY <1>3, <1>12, <2>2, <2>3 DEF Jumps, Conditional
<1>13. CASE s.op = "CMP" /\ s.src.kind = "reg"
  <2>1. i = E(s.dst, s.dst, v, 0)
    BY <1>13 DEF Assemble, Jumps, Conditional, Binary, E
  <2> HIDE DEF i, v
  <2>2. i.op = s.op /\ i.rs1 = s.dst /\ i.rs2 = v
    BY <1>1, <1>2, <1>13, <2>1
  <2>3. Operand(i) = Written(s)
    BY <1>1, <1>13, <2>2 DEF Operand, Written, v
  <2> QED BY <1>3, <1>13, <2>2, <2>3 DEF Jumps, Conditional
<1>14. CASE s.op \in {"HALT", "RET"}
  <2>1. i = E(0, 0, 0, 0)
    BY <1>14 DEF Assemble, Jumps, Conditional, Binary, E
  <2> HIDE DEF i
  <2>2. i.op = s.op
    BY <1>1, <1>2, <2>1
  <2> QED BY <1>3, <1>14, <2>2 DEF Jumps, Conditional
<1>15. CASE s.op = "PUSH" /\ s.src.kind = "imm"
  <2>1. i = E(0, 0, kImmediateMarker, v)
    BY <1>15 DEF Assemble, Jumps, Conditional, Binary, E
  <2> HIDE DEF i, v
  <2>2. i.op = s.op /\ i.rs2 = kImmediateMarker /\ i.imm = v
    BY <1>1, <1>2, <1>15, <2>1
  <2>3. Operand(i) = Written(s)
    BY <1>15, <2>2 DEF Operand, Written, v
  <2> QED BY <1>3, <1>15, <2>2, <2>3 DEF Jumps, Conditional
<1>16. CASE s.op = "PUSH" /\ s.src.kind = "reg"
  <2>1. i = E(v, v, v, 0)
    BY <1>16 DEF Assemble, Jumps, Conditional, Binary, E
  <2> HIDE DEF i, v
  <2>2. i.op = s.op /\ i.rs2 = v
    BY <1>1, <1>2, <1>16, <2>1
  <2>3. Operand(i) = Written(s)
    BY <1>1, <1>16, <2>2 DEF Operand, Written, v
  <2> QED BY <1>3, <1>16, <2>2, <2>3 DEF Jumps, Conditional
<1>17. s.op \in Jumps \cup Binary \cup
                {"INC", "DEC", "NOT", "POP", "MOV", "CMP", "LOAD", "STORE",
                 "CALL", "HALT", "RET", "PUSH"}
  <2>1. PICK k \in DOMAIN Opcodes : s.op = Opcodes[k]
    BY CpuAssumption
  <2>2. k \in 1..28
    BY <2>1 DEF Opcodes
  <2> QED BY <2>1, <2>2 DEF Opcodes, Jumps, Conditional
<1> HIDE DEF i, v, Binary, Results, Computing
<1> QED
  BY <1>1, <1>4, <1>5, <1>6, <1>7, <1>8, <1>9, <1>10, <1>11, <1>12, <1>13,
     <1>14, <1>15, <1>16, <1>17

\* Execute of a decoded instruction whose operation has a single handler.
LEMMA HandlerOf ==
    ASSUME NEW i, Execute(i)
    PROVE  /\ i.op = "MOV" => Move(i)
           /\ i.op \in Subtractions => Subtract(i)
           /\ i.op \in Jumps => Jump(i)
<1> USE DEF Binary, Jumps, Conditional, Computing, Subtractions
<1>1. /\ Compute(i) => i.op \in Computing
      /\ DivideByZero(i) => i.op \in {"DIV", "MOD"}
      /\ Subtract(i) => i.op \in {"SUB", "DEC", "CMP"}
  BY DEF Compute, DivideByZero, Subtract
<1>2. /\ Move(i) => i.op = "MOV"
      /\ Jump(i) => i.op \in Jumps
      /\ Fill(i) => i.op \in {"LOAD", "POP"}
      /\ Return(i) => i.op = "RET"
      /\ Stop(i) => i.op \in {"HALT", "CALL"}
  BY DEF Move, Jump, Fill, Return, Stop
<1>3. /\ Proceed(i) => i.op \in {"STORE", "PUSH", "NOP", "CALL"}
      /\ MemoryFails(i) => i.op \in {"PUSH", "POP", "RET", "LOAD", "STORE", "CALL"}
  BY DEF Proceed, MemoryFails
<1> QED BY <1>1, <1>2, <1>3 DEF Execute

\* The access to memory or system call a decoded instruction makes is the one
\* its source text asks for.
LEMMA RequestMeant ==
    ASSUME NEW s \in Source, Plain(s)
    PROVE  Request(Decoded[s]) = Asked(s)
<1> DEFINE i == Decoded[s]
<1>1. /\ i.op = s.op
      /\ s.op \in Results \cup {"STORE"} => i.rd = s.dst
      /\ s.op \in Binary \cup {"CMP", "CALL"} => i.rs1 = s.dst
      /\ s.op \in Binary \cup {"MOV", "CMP", "PUSH"} => Operand(i) = Written(s)
      /\ s.op \in Jumps \cup {"LOAD", "STORE", "CALL"} => i.imm = s.src.val
  BY DecodedFields
<1> HIDE DEF i
<1>2. Request(i) = Asked(s)
  BY <1>1 DEF Request, Asked
<1> QED BY <1>2 DEF i

\* Executing what the core decodes of s does what the source text of s says.
LEMMA StepMeans ==
    ASSUME TypeOK, NEW s \in Source, Plain(s), Step(s)
    PROVE  Meaning(s)
<1> DEFINE i == Decoded[s]
<1>1. /\ i.op = s.op
      /\ s.op \in Results \cup {"STORE"} => i.rd = s.dst
      /\ s.op \in Binary \cup {"CMP", "CALL"} => i.rs1 = s.dst
      /\ s.op \in Binary \cup {"MOV", "CMP", "PUSH"} => Operand(i) = Written(s)
      /\ s.op \in Jumps \cup {"LOAD", "STORE", "CALL"} => i.imm = s.src.val
  BY DecodedFields
<1>2. Execute(i) /\ status = "running"
  BY DEF Step
<1>3. /\ s.dst \in Registers /\ gpr[s.dst] \in Word /\ DOMAIN gpr = Registers
      /\ gpr[s.dst] \in Int
  BY CpuAssumption DEF TypeOK, Word, Modulus
<1> DEFINE Done == RegistersMeant(s) /\ FlagsMeant(s) /\ PcMeant(s)
                   /\ status' = IF Ends(s) THEN "halted" ELSE "running"
<1>4. SUFFICES Done \/ FailureMeant(s)
  BY RequestMeant DEF Meaning
<1> HIDE DEF i
<1>5. CASE s.op = "MOV"
  <2>1. Move(i)
    BY <1>1, <1>2, <1>5, HandlerOf
  <2>2. Written(s) \in Word
    BY <1>5, ToWordType, CpuAssumption DEF Written, TypeOK
  <2>3. RegistersMeant(s)
    BY <1>1, <1>5, <2>1, <2>2 DEF Move, RegistersMeant, Result, Results
  <2> QED
    BY <1>2, <1>5, <2>1, <2>3 DEF Move, AdvancePc, FlagsMeant, PcMeant, Ends,
       Subtractions, Computing, Binary, Jumps, Conditional
<1>6. CASE s.op \in Computing /\ Compute(i)
  <2>1. PICK z \in Word :
            /\ \/ Computes(i.op, gpr[i.rs1], Operand(i), z)
               \/ i.op = "INC" /\ z = ToWord(gpr[i.rd] + 1)
               \/ i.op = "NOT" /\ Ones[z] = (0..Bits - 1) \ Ones[gpr[i.rd]]
            /\ gpr' = [gpr EXCEPT ![s.dst] = z] /\ flags' = UpdateFlags(z)
    BY <1>1, <1>6 DEF Compute, Results
  <2>2. Result(s, z)
    <3>1. CASE Computes(i.op, gpr[i.rs1], Operand(i), z)
      <4>1. s.op \in Binary
        BY <1>1, <3>1 DEF Computes, Binary
      <4> QED BY <1>1, <3>1, <4>1 DEF Result
    <3>2. CASE i.op \in {"INC", "NOT"}
      <4>1. i.rd = s.dst
        BY <1>1, <3>2 DEF Results, Computing
      <4>2. ~Computes(i.op, gpr[i.rs1], Operand(i), z)
        BY <3>2 DEF Computes
      <4> QED BY <1>1, <2>1, <3>2, <4>1, <4>2 DEF Result
    <3> QED BY <2>1, <3>1, <3>2
  <2>3. RegistersMeant(s)
    BY <1>6, <2>1, <2>2 DEF RegistersMeant, Results
  <2>4. FlagsMeant(s)
    <3>1. gpr'[s.dst] = z
      BY <1>3, <2>1
    <3>2. s.op \notin Subtractions
      BY <1>6 DEF Computing, Subtractions, Binary
    <3> QED BY <1>6, <2>1, <3>1, <3>2 DEF FlagsMeant, UpdateFlags
  <2>5. s.op \notin Jumps \cup {"RET", "HALT", "CALL"}
    BY <1>6 DEF Computing, Binary, Jumps, Conditional
  <2> QED
    BY <1>2, <1>6, <2>3, <2>4, <2>5 DEF Compute, AdvancePc, PcMeant, Ends, Jumps
<1>7. CASE s.op \in Computing /\ DivideByZero(i)
  BY <1>1, <1>7 DEF DivideByZero, FailureMeant, Binary
<1>8. CASE s.op \in Subtractions
  <2>1. Subtract(i)
    BY <1>1, <1>2, <1>8, HandlerOf
  <2>2. /\ s.op \in {"SUB", "DEC"} => i.rd = s.dst
        /\ s.op \in {"SUB", "CMP"} => i.rs1 = s.dst /\ Operand(i) = Written(s)
    BY <1>1 DEF Results, Binary
  <2>3. s.op \in {"SUB", "CMP"} => Written(s) \in Int
    BY ToWordType, CpuAssumption DEF Written, TypeOK, Word, Modulus
  <2>4. RegistersMeant(s)
    <3>1. CASE s.op = "CMP"
      BY <1>1, <2>1, <3>1
      DEF Subtract, RegistersMeant, Results, Computing, Binary
    <3>2. CASE s.op = "SUB"
      <4>1. gpr' = [gpr EXCEPT ![s.dst] = ToWord(gpr[s.dst] - Written(s))]
        BY <1>1, <2>1, <2>2, <3>2 DEF Subtract
      <4>2. ToWord(gpr[s.dst] - Written(s)) \in Word
        BY <1>3, <2>3, <3>2, ToWordType
      <4> QED BY <3>2, <4>1, <4>2 DEF RegistersMeant, Results, Result
    <3>3. CASE s.op = "DEC"
      <4>1. gpr' = [gpr EXCEPT ![s.dst] = ToWord(gpr[s.dst] - 1)]
        BY <1>1, <2>1, <2>2, <3>3 DEF Subtract
      <4>2. ToWord(gpr[s.dst] - 1) \in Word
        BY <1>3, ToWordType
      <4> QED BY <3>3, <4>1, <4>2 DEF RegistersMeant, Results, Result
    <3> QED BY <1>8, <3>1, <3>2, <3>3 DEF Subtractions
  <2>5. FlagsMeant(s)
    BY <1>1, <1>8, <2>1, <2>2 DEF Subtract, FlagsMeant, Subtractions
  <2> QED
    BY <1>2, <1>8, <2>1, <2>4, <2>5 DEF Subtract, AdvancePc, PcMeant, Ends,
       Subtractions, Jumps, Conditional
<1>9. CASE s.op \in Jumps
  <2>1. Jump(i)
    BY <1>1, <1>2, <1>9, HandlerOf
  <2>2. TakeJump(flags, i.op) = TakeJump(flags, s.op) /\ i.imm = s.src.val
    BY <1>1, <1>9
  <2>3. s.op = "JMP" => TakeJump(flags, s.op)
    BY DEF TakeJump
  <2>4. PcMeant(s)
    BY <1>9, <2>1, <2>2, <2>3 DEF Jump, AdvancePc, PcMeant, Jumps, Conditional
  <2> QED
    BY <1>2, <1>9, <2>1, <2>4 DEF Jump, RegistersMeant, FlagsMeant, Ends,
       Results, Computing, Binary, Subtractions, Jumps, Conditional
<1>10. CASE MemoryFails(i)
  BY <1>1, <1>10 DEF MemoryFails, FailureMeant
<1>11. CASE Fill(i)
  <2>1. s.op \in {"LOAD", "POP"} /\ i.rd = s.dst
    BY <1>1, <1>11 DEF Fill, Results
  <2>2. RegistersMeant(s)
    BY <1>11, <2>1 DEF Fill, RegistersMeant, Results, Result
  <2> QED
    BY <1>2, <1>11, <2>1, <2>2 DEF Fill, AdvancePc, FlagsMeant, PcMeant, Ends,
       Subtractions, Computing, Binary, Jumps, Conditional
<1>12. CASE Proceed(i)
  BY <1>1, <1>2, <1>12 DEF Proceed, AdvancePc, RegistersMeant, FlagsMeant,
     PcMeant, Ends, Results, Subtractions, Computing, Binary, Jumps, Conditional
<1>13. CASE Return(i)
  BY <1>1, <1>2, <1>13 DEF Return, RegistersMeant, FlagsMeant,
     PcMeant, Ends, Results, Subtractions, Computing, Binary, Jumps, Conditional
<1>14. CASE Stop(i)
  BY <1>1, <1>2, <1>14 DEF Stop, AdvancePc, RegistersMeant, FlagsMeant,
     PcMeant, Ends, Results, Subtractions, Computing, Binary, Jumps, Conditional
<1>15. Compute(i) => s.op \in Computing
  BY <1>1 DEF Compute
<1>16. DivideByZero(i) => s.op \in Computing
  BY <1>1 DEF DivideByZero, Computing, Binary
<1>17. /\ Subtract(i) => s.op \in Subtractions
       /\ Jump(i) => s.op \in Jumps
       /\ Move(i) => s.op = "MOV"
  BY <1>1 DEF Subtract, Subtractions, Jump, Move
<1> HIDE DEF Done
<1> QED
  BY <1>2, <1>5, <1>6, <1>7, <1>8, <1>9, <1>10, <1>11, <1>12, <1>13, <1>14,
     <1>15, <1>16, <1>17 DEF Execute

\* For every word width, register count and immediate field, and whatever the
\* program: what encodeInstruction, decodeInstruction and the handler make of
\* any instruction with encodable operands is what its source text says, to
\* the registers, the flags, the program counter and the process, and in what
\* it asks of memory and the system.
THEOREM SourceAlwaysMeant == Spec => SourceFaithful
<1>1. TypeOK => [\A s \in Source : Plain(s) /\ Step(s) => Meaning(s)]_vars
  BY StepMeans
<1> QED BY <1>1, FlagsAreRight, PTL DEF SourceFaithful
=============================================================================
