---------------------------- MODULE MCEmulation ----------------------------
(* Instances of Emulation for TLC: words of 16 values, bytes of 2, halves of *)
(* 4 and regions of 8; $0, one register and the link register.              *)
EXTENDS Emulation

Registers == {0, 1, 2}

Branch(kinds, rss, rts, rds, offsets, flags, likely) ==
  [kind : kinds, rs : rss, rt : rts, rd : rds, offset : offsets, flag : flags, likely : likely]

Straight == Branch({"none"}, {0}, {0}, {0}, {0}, {TRUE}, {FALSE})

\* Each branch with the fields it uses; the others are constant.
Branching ==
  Branch({"j", "jal"}, {0}, {0}, {0}, {0, 4}, {TRUE}, {FALSE})
  \cup Branch({"jr", "jalr"}, {1, 2}, {0}, {0, 1, 2}, {0}, {TRUE}, {FALSE})
  \cup Branch({"bltz", "bgez", "bltzal", "bgezal", "blez", "bgtz"}, Registers, {0}, {0}, {-4},
              {TRUE}, BOOLEAN)
  \cup Branch({"beq", "bne"}, Registers, {0, 1}, {0}, {12}, {TRUE}, BOOLEAN)
  \cup Branch({"bc1f", "bc1t"}, {0}, {0}, {0}, {0}, BOOLEAN, BOOLEAN)
  \cup Branch({"bposge32"}, {0}, {0}, {0}, {0}, BOOLEAN, {FALSE})

Op(kinds, rts, values) == [kind : kinds, rt : rts, value : values]

\* All instructions outside delay slots, one of each handler inside.
AnyUnits ==
  {u \in [branch : Straight,
          op : Op({"lb", "lbu", "lh", "lhu", "lw", "mfc0"}, Registers, {0, 5, 15})
               \cup Op({"sb", "sh", "sw", "mtc0", "gsfc"}, Registers, {0})
               \cup Op({"ignored", "wait"}, {0}, {0})]
         \cup [branch : Branching,
               op : Op({"lw", "mfc0"}, Registers, {9})
                    \cup Op({"sb", "mtc0", "gsfc"}, {0, 1, 2}, {0})
                    \cup Op({"ignored", "wait"}, {0}, {0})] : WellFormed(u)}

\* The guests for which emulation is exact.
ExactUnits == {u \in AnyUnits : Exact(u)}

=============================================================================
