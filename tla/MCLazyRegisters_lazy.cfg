\* Two guests, both units, two contents of each.
SPECIFICATION Spec
CONSTANTS
  Guests = {1, 2}
  Units = {fpu, dsp}
  Fpu = fpu
  Values = {0, 1}
INVARIANTS TypeOK BitIsOwners
PROPERTIES AsPrivate
