SPECIFICATION Spec
CONSTANTS
    Requests = {r1, r2}
    Emails = {e1, e2}
    Passwords = {p1, p2}
    Strong = {p1}
    MaxUsers = 2
    MaxSalts = 4
INVARIANTS
    TypeOK
    RetiredStaysRetired
    TokenActsAsItself
PROPERTY
    ChangeNeedsPassword
CHECK_DEADLOCK FALSE
SYMMETRY Symmetry
