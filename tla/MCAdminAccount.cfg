SPECIFICATION AccountSpec
CONSTANTS
    r1 = r1
    r2 = r2
    r3 = r3
    r4 = r4
    e1 = e1
    e2 = e2
    p1 = p1
    p2 = p2
    None = None
    Requests = {r1, r2, r3, r4}
    Emails = {e1, e2}
    Passwords = {p1, p2}
SYMMETRY Sym
CHECK_DEADLOCK FALSE
INVARIANTS SomebodyCanLogIn SetupCloses AnswersHold
PROPERTY ChangedByHolder
