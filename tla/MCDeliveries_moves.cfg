\* One delivery, three updates, two proofs, a reassignment, a fault.
CONSTANTS
  Deliveries = {d1}
  Updates = {u1, u2, u3}
  Proofs = {f1, f2}
  Assigns = {a1}
  Users = {driver1, boss}
  Managers = {boss}
  NoDriver = NoDriver
  FeeDue <- FeeOnFirst
  MaxFaults = 1
SYMMETRY Symmetry
SPECIFICATION Spec
INVARIANTS
  TypeOK
  PresentIsTraced
  FeeHasProof
PROPERTY MovesAlongTable
CHECK_DEADLOCK FALSE
