CONSTANTS
    Callers = {c1, c2}
    Dials = {d1, d2}
    Gens = {g1, g2}
    None = None
SYMMETRY Symmetry
SPECIFICATION Spec
INVARIANTS NoLeak CountsExact NothingStuck
PROPERTIES CloseIdleSparesUsers
    ImplementsAbstract
CHECK_DEADLOCK FALSE
