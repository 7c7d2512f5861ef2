CONSTANTS
    Threads = {t1}
    Accounts = {a1, a2}
    Passwords = {p1, p2}
    None = None
SPECIFICATION Spec
INVARIANTS
    MemoryMatchesStore
    UnlockedImpliesKnown
    UnlockedKeyIsAccountKey
