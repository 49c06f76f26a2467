\* Two requests at once; two spellings of one mailbox, one session, two Google identities.
CONSTANTS
    A = A  a = a  b = b  w1 = w1  w2 = w2  w3 = w3  s1 = s1  s2 = s2  g1 = g1  g2 = g2
    Null = Null
    Workers = {w1, w2}
    Sessions = {s1}
    Spellings = {A, a, b}
    Asking = {A}
    Lower <- LowerCase
    Identities = {g1, g2}
    AdminEmail = a
    MaxAttempts = 2
    Limit = 1
    Threshold = 1
    MaxFaults = 1
SPECIFICATION Spec
SYMMETRY Symmetry
INVARIANTS
    GuessesBounded
    MailboxProved
PROPERTIES
    SubKept
\* The ids of sessions are bounded, so a run may come to its end.
CHECK_DEADLOCK FALSE
