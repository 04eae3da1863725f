----------------------------- MODULE Emulation -----------------------------
(***************************************************************************)
(* Instructions of a guest that trap and are emulated by root: loads and    *)
(* stores (tlb.c), moves from and to CP0 (exception.c), alone or in the     *)
(* delay slot of a branch, which is then emulated too (branch.c).           *)
(***************************************************************************)
EXTENDS Integers

CONSTANTS
  Word, Half, Byte, Region, Regs, Link, Units, NoUnit,   \* as in Processor
  Shadow    \* srs(exfr): the guest's registers are a shadow set, not its frame

VARIABLES pc, gpr, unit, out   \* of the guest, as in Processor

vars == <<pc, gpr, unit, out>>

CPU == INSTANCE Processor

Branches ==
  {"j", "jal", "jr", "jalr", "bltz", "bltzal", "bgez", "bgezal", "blez", "bgtz",
   "beq", "bne", "bc1f", "bc1t", "bposge32"}

Instructions ==
  {"lb", "lbu", "lh", "lhu", "lw", "sb", "sh", "sw", "ignored", "mfc0", "mtc0", "gsfc", "wait"}

\* What may be executed: no form the architecture calls unpredictable.
WellFormed(u) ==
  /\ u.branch.kind \in Branches \cup {"none"}
  /\ u.branch.rs \in Regs /\ u.branch.rt \in Regs /\ u.branch.rd \in Regs
  /\ u.branch.offset \in Int
  /\ u.branch.kind \in {"j", "jal"} => u.branch.offset \in 0 .. Region - 1
  /\ u.branch.flag \in BOOLEAN
  /\ u.branch.likely \in BOOLEAN
  /\ u.branch.kind \in {"none", "j", "jal", "jr", "jalr", "bposge32"} => ~u.branch.likely
  /\ u.branch.kind = "jalr" => u.branch.rd # u.branch.rs
  /\ u.branch.kind \in {"bltzal", "bgezal"} => u.branch.rs # Link
  /\ u.op.kind \in Instructions
  /\ u.op.rt \in Regs /\ u.op.value \in 0 .. Word - 1

ASSUME EmulationAssumption ==
  /\ Word \in Nat /\ Half \in Nat /\ Byte \in Nat /\ Region \in Nat
  /\ 0 < Byte /\ Byte < Half /\ Half < Word /\ 0 < Region /\ 4 < Word
  /\ \A a \in 0 .. Word - 1 : a - (a % Region) + Region <= Word   \* regions make up the space
  /\ 0 \in Regs /\ Regs \subseteq Nat /\ Link \in Regs /\ Link # 0
  /\ Shadow \in BOOLEAN
  /\ NoUnit \notin Units
  /\ \A u \in Units : WellFormed(u)

Init == CPU!Init

-----------------------------------------------------------------------------
(* The exception frame, and a guest's registers in it or in its shadow set   *)

\* The CPU has executed the branch but for its jump when the slot traps.
Frame ==
  [gpr |-> CPU!Linked(unit.branch, gpr), epc |-> pc, bd |-> unit.branch.kind # "none",
   badinst |-> unit.op, badinstp |-> unit.branch]

gpr_read(exfr, rt) == exfr.gpr[rt]

\* In a frame, the place of $0 is a place like the others.
gpr_write(exfr, rt, val) ==
  IF Shadow /\ rt = 0 THEN exfr ELSE [exfr EXCEPT !.gpr[rt] = val]

\* Fault: $0 stays in the frame.
ReturnAll(exfr) == pc' = exfr.epc /\ gpr' = exfr.gpr /\ unit' = NoUnit

\* The exit loads all registers but $0, which an entry saves again.
Return(exfr) ==
  /\ pc' = exfr.epc
  /\ gpr' = [exfr.gpr EXCEPT ![0] = 0]
  /\ unit' = NoUnit

-----------------------------------------------------------------------------
(* branch.c *)

Negative(v) == 2 * v >= Word

\* The condition of a branch on one register.
Holds(kind, v) ==
  \/ kind \in {"bltz", "bltzal"} /\ Negative(v)
  \/ kind \in {"bgez", "bgezal"} /\ ~Negative(v)
  \/ kind = "blez" /\ (Negative(v) \/ v = 0)
  \/ kind = "bgtz" /\ ~(Negative(v) \/ v = 0)

Condition(insn, exfr) ==
  \/ Holds(insn.kind, gpr_read(exfr, insn.rs))
  \/ insn.kind = "beq" /\ gpr_read(exfr, insn.rs) = gpr_read(exfr, insn.rt)
  \/ insn.kind = "bne" /\ gpr_read(exfr, insn.rs) # gpr_read(exfr, insn.rt)
  \/ insn.kind = "bc1f" /\ ~insn.flag
  \/ insn.kind \in {"bc1t", "bposge32"} /\ insn.flag

LinkWritten(insn, exfr) ==
  IF insn.kind \in {"jal", "bltzal", "bgezal"}
  THEN gpr_write(exfr, Link, (exfr.epc + 8) % Word)
  ELSE IF insn.kind = "jalr" THEN gpr_write(exfr, insn.rd, (exfr.epc + 8) % Word)
  ELSE exfr

\* Fault: a branch is never taken.
EpcBehind(insn, exfr) == (exfr.epc + 8) % Word

Epc(insn, exfr) ==
  IF insn.kind \in {"jr", "jalr"} THEN gpr_read(exfr, insn.rs)
  ELSE IF insn.kind \in {"j", "jal"}
       THEN LET slot == (exfr.epc + 4) % Word IN slot - (slot % Region) + insn.offset
       ELSE IF Condition(insn, exfr) THEN (exfr.epc + 4 + insn.offset) % Word
       ELSE (exfr.epc + 8) % Word

compute_return_epc_for_insn(exfr) ==
  LET linked == LinkWritten(exfr.badinstp, exfr)
  IN [linked EXCEPT !.epc = Epc(exfr.badinstp, linked)]

compute_return_epc(exfr) ==
  IF exfr.bd THEN compute_return_epc_for_insn(exfr)
  ELSE [exfr EXCEPT !.epc = (@ + 4) % Word]

-----------------------------------------------------------------------------
(* tlb.c *)

\* A load from the device's memory, or of an emulated device's value.
Loaded(inst) ==
  LET low(size) == inst.value % size
      extended(size) == IF 2 * low(size) >= size THEN low(size) + Word - size ELSE low(size)
  IN IF inst.kind = "lb" THEN extended(Byte)
     ELSE IF inst.kind = "lbu" THEN low(Byte)
     ELSE IF inst.kind = "lh" THEN extended(Half)
     ELSE IF inst.kind = "lhu" THEN low(Half)
     ELSE inst.value

\* What a store writes, shifted out of the register's high part.
Stored(inst, val) ==
  IF inst.kind = "sb" THEN val % Byte ELSE IF inst.kind = "sh" THEN val % Half ELSE val

-----------------------------------------------------------------------------
(* Actions *)

\* The guest comes to a unit.
Fetch ==
  /\ unit = NoUnit /\ pc % 4 = 0
  /\ unit' \in Units
  /\ out' = 0
  /\ UNCHANGED <<pc, gpr>>

\* A likely branch that is not taken: its slot is not executed and nothing traps.
Nullified(b) == b.likely /\ ~CPU!Taken(b, gpr)

Skip ==
  /\ unit # NoUnit /\ Nullified(unit.branch)
  /\ pc' = (pc + 8) % Word
  /\ gpr' = Frame.gpr
  /\ unit' = NoUnit
  /\ UNCHANGED out

Traps(kinds) == unit # NoUnit /\ ~Nullified(unit.branch) /\ unit.op.kind \in kinds

\* do_TLB: the register is written before the branch is looked at.
Load ==
  /\ Traps({"lb", "lbu", "lh", "lhu", "lw"})
  /\ Return(compute_return_epc(gpr_write(Frame, unit.op.rt, Loaded(unit.op))))
  /\ UNCHANGED out

Store ==
  /\ Traps({"sb", "sh", "sw"})
  /\ out' = Stored(unit.op, gpr_read(Frame, unit.op.rt))
  /\ Return(compute_return_epc(Frame))

\* A store to a page with the write-ignore flag.
StoreIgnored ==
  /\ Traps({"ignored"})
  /\ Return(compute_return_epc(Frame))
  /\ UNCHANGED out

\* do_gpsi: the branch first.
Gpsi ==
  /\ Traps({"mfc0", "mtc0", "wait"})
  /\ LET exfr == compute_return_epc(Frame) IN
     \/ /\ unit.op.kind = "mfc0"
        /\ Return(gpr_write(exfr, unit.op.rt, unit.op.value))
        /\ UNCHANGED out
     \/ /\ unit.op.kind = "mtc0"
        /\ out' = gpr_read(exfr, unit.op.rt)
        /\ Return(exfr)
     \/ /\ unit.op.kind = "wait"
        /\ Return(exfr)
        /\ UNCHANGED out

\* do_gsfc: MTC0 of Status, Cause, IntCtl and PageGrain.
Gsfc ==
  /\ Traps({"gsfc"})
  /\ out' = gpr_read(Frame, unit.op.rt)
  /\ Return(compute_return_epc(Frame))

Next ==
  \/ Fetch \/ Skip \/ Load \/ Store \/ StoreIgnored \/ Gpsi \/ Gsfc

Spec == Init /\ [][Next]_vars

-----------------------------------------------------------------------------
\* The registers a branch looks at or links to.
Reads(b) ==
  IF b.kind \in {"beq", "bne"} THEN {b.rs, b.rt}
  ELSE IF b.kind \in {"none", "j", "jal", "bc1f", "bc1t", "bposge32"} THEN {} ELSE {b.rs}

Links(b) ==
  IF b.kind \in {"jal", "bltzal", "bgezal"} THEN {Link}
  ELSE IF b.kind = "jalr" THEN {b.rd} ELSE {}

\* No emulated load in a delay slot is into a register of the branch; a jump
\* and link to $0, which is a place of the frame, has no MTC0 of $0 behind it.
Exact(u) ==
  /\ u.op.kind \in {"lb", "lbu", "lh", "lhu", "lw"} =>
       u.op.rt \notin Reads(u.branch) \cup Links(u.branch)
  /\ u.op.kind = "mtc0" /\ u.op.rt = 0 => Shadow \/ 0 \notin Links(u.branch)

TypeOK ==
  /\ pc \in 0 .. Word - 1
  /\ gpr \in [Regs -> 0 .. Word - 1] /\ gpr[0] = 0
  /\ unit \in Units \cup {NoUnit}
  /\ out \in 0 .. Word - 1

(* A guest whose instruction root emulates goes on as if the CPU had executed *)
(* it: registers, values written, and the instruction it comes to next, with  *)
(* the branch decided on the registers before the slot (compute_return_epc).  *)
AsExecuted == CPU!Spec

=============================================================================
