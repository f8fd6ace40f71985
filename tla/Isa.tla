---------------------------------- MODULE Isa ----------------------------------
(***************************************************************************)
(* The instruction set: opcodes, the 32-bit encoding (axelcc/src/emit.c,   *)
(* Src/decoder/decoder.sv) and the ALU (Src/alu/alu.sv).                   *)
(*                                                                         *)
(* An instruction word is kept as its halves <<hi, lo>>.  Data words are   *)
(* WordBits wide and kept as signed numbers; immediates have ImmBits, the  *)
(* INT8 lanes of DOT, CLAMP and EXP8 ByteBits, a quarter of a word.  The   *)
(* code has 32, 16 and 8.                                                  *)
(***************************************************************************)
EXTENDS Integers, Sequences, Bitwise, FiniteSetsExt, TLC

CONSTANTS WordBits, ImmBits, ByteBits,
          Exp8,         \* the table of alu.sv, from the low byte
          CTRL_BASE     \* the accelerator's first register

ASSUME WidthAssumption ==
    /\ ImmBits \in Nat /\ ByteBits \in Nat /\ WordBits = 4 * ByteBits
    /\ 9 < ImmBits /\ ImmBits <= 16 /\ ImmBits < WordBits /\ WordBits <= 16
    /\ Exp8 \in [0 .. 2^ByteBits - 1 -> 0 .. 2^(ByteBits - 1) - 1]

SignedIn(x, bits) == ((x + 2^(bits - 1)) % 2^bits) - 2^(bits - 1)
Wrap(x) == SignedIn(x, WordBits)
Unsigned(x) == x % 2^WordBits

Op == [NOP |-> 0, ADD |-> 1, SUB |-> 2, MUL |-> 3, DIV |-> 4, MOD |-> 5, SHL |-> 6, SHR |-> 7,
       AND |-> 8, OR |-> 9, XOR |-> 10, NOT |-> 11, FMA |-> 12, CMP |-> 13, BR |-> 14,
       LDR |-> 15, STR |-> 16, CONST |-> 17, RET |-> 18, IMUL |-> 19, SAR |-> 20, SYNC |-> 21,
       DOT |-> 22, RELU |-> 23, CLAMP |-> 24, MAX |-> 25, MIN |-> 26, EXP8 |-> 27,
       CALL |-> 28, SRET |-> 29]

NzpN == 4
NzpZ == 2
NzpP == 1
NzpAll == 7

--------------------------------------------------------------------------------
(* Encoding: register, immediate, branch and plain formats. *)
r4_type(op, rd, rs1, rs2, rs3) == <<Op[op] * 2^10 + rd * 2^5 + rs1, rs2 * 2^11 + rs3 * 2^6>>
r_type(op, rd, rs1, rs2) == r4_type(op, rd, rs1, rs2, 0)
i_type(op, rd, rs, imm) == <<Op[op] * 2^10 + rd * 2^5 + rs, imm % 2^ImmBits>>
n_type(op) == <<Op[op] * 2^10, 0>>

b_type(op, nzp, sync_off, branch_off) ==
    LET sync == sync_off % 2^11
    IN  <<Op[op] * 2^10 + nzp * 2^7 + sync \div 2^4, (sync % 2^4) * 2^12 + (branch_off % 2^12)>>

(* Decoding: the fields of a word, whatever its format. *)
Decode(w) ==
    [op |-> w[1] \div 2^10, rd |-> (w[1] \div 2^5) % 2^5, rs1 |-> w[1] % 2^5,
     rs2 |-> w[2] \div 2^11, rs3 |-> (w[2] \div 2^6) % 2^5,
     imm |-> w[2] % 2^ImmBits, nzp |-> (w[1] \div 2^7) % 2^3,
     branch_offset |-> SignedIn(w[2] % 2^12, 12)]

--------------------------------------------------------------------------------
(* The ALU on signed words.  DIV, MOD and shift counts are unsigned; DIV   *)
(* and MOD by zero have no value.                                          *)
Lane(x, k) == SignedIn(Unsigned(x) \div 2^(ByteBits * k), ByteBits)
ByteMax == 2^(ByteBits - 1) - 1

Alu(op, a, b, c) ==
    LET ua == Unsigned(a)
        ub == Unsigned(b)
        count == IF ub > WordBits THEN WordBits ELSE ub
    IN  Wrap(CASE op = "ADD" -> a + b
               [] op = "SUB" -> a - b
               [] op \in {"MUL", "IMUL"} -> a * b
               [] op = "DIV" -> ua \div ub
               [] op = "MOD" -> ua % ub
               [] op = "SHL" -> IF count = WordBits THEN 0 ELSE (ua % 2^(WordBits - count)) * 2^count
               [] op = "SHR" -> ua \div 2^count
               [] op = "SAR" -> a \div 2^count
               [] op = "AND" -> ua & ub
               [] op = "OR" -> ua | ub
               [] op = "XOR" -> ua ^^ ub
               [] op = "NOT" -> -1 - a
               [] op = "FMA" -> Wrap(a * b) + c
               [] op = "DOT" -> c + Lane(a, 0) * Lane(b, 0) + Lane(a, 1) * Lane(b, 1)
                                  + Lane(a, 2) * Lane(b, 2) + Lane(a, 3) * Lane(b, 3)
               [] op = "RELU" -> IF a < 0 THEN 0 ELSE a
               [] op = "CLAMP" -> IF a > ByteMax THEN ByteMax
                                  ELSE IF a < -1 - ByteMax THEN -1 - ByteMax ELSE a
               [] op = "MAX" -> IF a >= b THEN a ELSE b
               [] op = "MIN" -> IF a <= b THEN a ELSE b
               [] op = "EXP8" -> Exp8[ua % 2^ByteBits])

(* The flag CMP sets. *)
Compare(a, b) == IF a = b THEN NzpZ ELSE IF a > b THEN NzpP ELSE NzpN

================================================================================
