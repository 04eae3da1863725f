-------------------------- MODULE PrivateRegisters --------------------------
(***************************************************************************)
(* What the guests may expect of the FPU and the DSP extension: each has     *)
(* registers of its own, whoever else uses the unit.                        *)
(***************************************************************************)
CONSTANTS Guests, Units, Values

VARIABLES
  regs,     \* the registers of each unit that a guest has, as one value
  seen      \* whose instruction was just executed, and what it found; or {}

vars == <<regs, seen>>

Init ==
  /\ regs \in [Units -> [Guests -> Values]]
  /\ seen = {}

\* An instruction finds the guest's registers and leaves them with value v.
Execute(g, u, v) ==
  /\ seen' = {<<g, u, regs[u][g]>>}
  /\ regs' = [regs EXCEPT ![u][g] = v]

\* A reset leaves the registers undefined.
Reset(g) ==
  /\ regs' \in [Units -> [Guests -> Values]]
  /\ \A u \in Units, h \in Guests \ {g} : regs'[u][h] = regs[u][h]
  /\ seen' = {}

\* Whatever else the guests and root do.
Other == seen' = {} /\ UNCHANGED regs

\* A branch looks at the condition bits among the registers of u.
Look(g, u) == seen' = {<<g, u, regs[u][g]>>} /\ UNCHANGED regs

Next ==
  \/ Other
  \/ \E g \in Guests : Reset(g)
  \/ \E g \in Guests, u \in Units : Look(g, u) \/ \E v \in Values : Execute(g, u, v)

Spec == Init /\ [][Next]_vars

=============================================================================
