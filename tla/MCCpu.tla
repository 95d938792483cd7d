------------------------------- MODULE MCCpu -------------------------------
(***************************************************************************)
(* Instances of Cpu for TLC: words of three bits (-4..3), immediates of    *)
(* two bits (-2..1) and four registers, the last of which is the marker.   *)
(***************************************************************************)
EXTENDS Cpu

Reg(r) == [kind |-> "reg", val |-> r]
Imm(n) == [kind |-> "imm", val |-> n]

TwoOperand == Binary \cup {"MOV", "CMP"}

\* Programs that compute in r1 with operands in r2: neither number is that of
\* a field left empty or of the marker.
PlainSource ==
    [op : TwoOperand, dst : {1}, src : {Reg(2), Imm(-2)}]
    \cup [op : {"MOV", "ADD", "CMP"}, dst : {1}, src : {Imm(1)}]
    \cup [op : {"MOV", "CMP"}, dst : {2}, src : {Imm(-2), Imm(1)}]
    \cup [op : {"CMP"}, dst : {2}, src : {Reg(1)}]
    \cup [op : {"INC", "DEC", "NOT", "POP"}, dst : {1}, src : {Imm(0)}]
    \cup [op : {"PUSH"}, dst : {0}, src : {Reg(1), Imm(-1)}]
    \cup [op : {"LOAD"}, dst : {1}, src : {Imm(1)}]
    \cup [op : {"STORE"}, dst : {2}, src : {Imm(1)}]
    \cup [op : {"CALL"}, dst : 0..3, src : {Imm(0)}]
    \cup [op : Jumps, dst : {0}, src : {Imm(1)}]
    \cup [op : {"HALT", "RET"}, dst : {0}, src : {Imm(0)}]
=============================================================================
