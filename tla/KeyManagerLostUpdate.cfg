CONSTANTS
    Threads = {t1, t2}
    Accounts = {a1}
    Passwords = {p1, p2}
    None = None
SPECIFICATION Spec
INVARIANT
    MemoryMatchesStore
