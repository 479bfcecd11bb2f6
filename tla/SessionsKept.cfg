CONSTANTS
    Workers = {w1, w2}
    Sessions = {s1, s2}
    Tokens = {t1, t2, t3}
    Users = {root, user}
    Admin = root
    Former = {root, user}
    Roles = {"admin", "user"}
    MaxRequests = 3
    None = None
SPECIFICATION Spec
SYMMETRY Symmetry
INVARIANTS
    TokensHonoured
    UsersKept
    AdmittedRightly
    PublishedFilled
CHECK_DEADLOCK FALSE
