CONSTANTS
    Request = {r1, r2}
    Browser = {b1}
    Mailbox = {m1, m2}
    Password = {p1, p2}
    Life = 0
    MaxUsers = 3
    MaxTokens = 2
    MaxChanges = 2
    MaxTime = 1
SYMMETRY AccountSymmetry
SPECIFICATION Spec
INVARIANTS AccountsTypeOK OneAccountPerMailbox EndedStaysOut SignedOutForReason
PROPERTIES KnewPassword
