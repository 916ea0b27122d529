SPECIFICATION Spec
CONSTANTS
  Profiles = {p1, p2}
  None = None
  Cut = Cut
  MaxInstalls = 2
  MaxEdits = 1
  MaxFaults = 2
SYMMETRY MCSymmetry
INVARIANTS TypeOK NothingLost RestoresOwn
PROPERTY RollsBack
