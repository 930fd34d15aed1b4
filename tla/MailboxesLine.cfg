SPECIFICATION Spec
CONSTANTS
    Session = {s1, s2}
    Worker = {w1}
    l1 = l1
    l2 = l2
    m1 = m1
    m2 = m2
    Line = {l1, l2}
    Mail = {m1, m2}
    MaxMail = 1
    MaxRegs = 2
    MaxDeletes = 1
    Admin = Admin
    None = None
SYMMETRY Swaps
CHECK_DEADLOCK FALSE
INVARIANTS
    TypeOK
    KeptWhileUsed
    Informed
