----------------------------- MODULE Processor -----------------------------
(***************************************************************************)
(* What a guest may expect of the CPU it runs on: an instruction, or a      *)
(* branch with the instruction in its delay slot, changes the registers and *)
(* the PC as the architecture says, whether root emulates it or not.        *)
(***************************************************************************)
EXTENDS Integers

CONSTANTS
  Word,     \* 2^32: registers and addresses are 0 .. Word - 1
  Half,     \* 2^16
  Byte,     \* 2^8
  Region,   \* 2^28, the reach of J and JAL
  Regs,     \* general purpose registers, 0 among them
  Link,     \* $31
  Units,    \* what is executed: a branch or none, and an instruction
  NoUnit

VARIABLES
  pc, gpr,
  unit,     \* fetched and not yet executed
  out       \* the value the last unit stored, or moved to CP0

vars == <<pc, gpr, unit, out>>

Values == 0 .. Word - 1

Wrap(a) == a % Word
Signed(v) == IF 2 * v >= Word THEN v - Word ELSE v

\* The low part of a register or of memory, and its extension to a word.
Low(v, size) == v % size
SignExtended(v, size) ==
  IF 2 * Low(v, size) >= size THEN Low(v, size) + Word - size ELSE Low(v, size)

\* $0 is not written.
Put(r, x, v) == IF x = 0 THEN r ELSE [r EXCEPT ![x] = v]

-----------------------------------------------------------------------------
(* Branches.  flag is the FP condition, or whether the position of the DSP   *)
(* control is 32 or more; a likely branch that is not taken skips its slot.  *)

Jumps == {"j", "jal", "jr", "jalr"}
Linking == {"jal", "bltzal", "bgezal"}

Taken(b, r) ==
  \/ b.kind \in Jumps
  \/ b.kind \in {"bltz", "bltzal"} /\ Signed(r[b.rs]) < 0
  \/ b.kind \in {"bgez", "bgezal"} /\ Signed(r[b.rs]) >= 0
  \/ b.kind = "blez" /\ Signed(r[b.rs]) <= 0
  \/ b.kind = "bgtz" /\ Signed(r[b.rs]) > 0
  \/ b.kind = "beq" /\ r[b.rs] = r[b.rt]
  \/ b.kind = "bne" /\ r[b.rs] # r[b.rt]
  \/ b.kind = "bc1f" /\ ~b.flag
  \/ b.kind \in {"bc1t", "bposge32"} /\ b.flag

\* J and JAL replace the low part of the address of the delay slot.
Target(b, r) ==
  IF b.kind \in {"jr", "jalr"} THEN r[b.rs]
  ELSE IF b.kind \in {"j", "jal"}
       THEN Wrap(pc + 4) - Low(Wrap(pc + 4), Region) + b.offset
       ELSE Wrap(pc + 4 + b.offset)

Linked(b, r) ==
  IF b.kind \in Linking THEN Put(r, Link, Wrap(pc + 8))
  ELSE IF b.kind = "jalr" THEN Put(r, b.rd, Wrap(pc + 8)) ELSE r

-----------------------------------------------------------------------------
(* Instructions: loads of value, stores, moves from and to CP0.              *)

Stores == {"sb", "sh", "sw"}
Size(kind) ==
  IF kind \in {"lb", "lbu", "sb"} THEN Byte ELSE IF kind \in {"lh", "lhu", "sh"} THEN Half ELSE Word

Loaded(op) ==
  IF op.kind \in {"lb", "lh"} THEN SignExtended(op.value, Size(op.kind))
  ELSE Low(op.value, Size(op.kind))

Loads == {"lb", "lbu", "lh", "lhu", "lw"}

Registers(op, r) ==
  IF op.kind \in Loads \cup {"mfc0"} THEN Put(r, op.rt, Loaded(op)) ELSE r

Output(op, r) ==
  IF op.kind \in Stores THEN Low(r[op.rt], Size(op.kind))
  ELSE IF op.kind \in {"mtc0", "gsfc"} THEN r[op.rt] ELSE out

-----------------------------------------------------------------------------
Init ==
  /\ pc \in Values /\ pc % 4 = 0
  /\ gpr \in [Regs -> Values] /\ gpr[0] = 0
  /\ unit = NoUnit
  /\ out = 0

\* An address that is not aligned ends in an exception of the guest.
Fetch ==
  /\ unit = NoUnit /\ pc % 4 = 0
  /\ unit' \in Units
  /\ out' = 0
  /\ UNCHANGED <<pc, gpr>>

NextPc(b, r) ==
  IF b.kind = "none" THEN Wrap(pc + 4)
  ELSE IF Taken(b, r) THEN Target(b, r) ELSE Wrap(pc + 8)

\* The branch looks at the registers its slot finds, the link register apart.
Execute ==
  LET b == unit.branch
      r == Linked(b, gpr)
  IN /\ unit # NoUnit
     /\ unit' = NoUnit
     /\ pc' = NextPc(b, gpr)
     /\ IF b.likely /\ ~Taken(b, gpr)
        THEN gpr' = r /\ out' = out
        ELSE gpr' = Registers(unit.op, r) /\ out' = Output(unit.op, r)

Next == Fetch \/ Execute

Spec == Init /\ [][Next]_vars

=============================================================================
