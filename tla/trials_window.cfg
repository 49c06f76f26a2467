\* One admin and one sign-up at a time, purchases and expiries at any moment.
CONSTANTS
    a = a  b = b  c = c  w1 = w1  w2 = w2  w3 = w3  w4 = w4
    Null = Null
    Mailbox <- Aliases
    Accounts = {a, b}
    OldAccounts = {}
    Signups = {w1}
    Admins = {w3}
    SignupDays = 1
    WindowDays = {2, 3}
    OpenAtStart = FALSE
    MaxDay = 3
SPECIFICATION Spec
INVARIANTS
    OneTrialPerMailbox
    GlobalTrialsFollowWindow
PROPERTIES
    PaidEndsTrial
    SignupTrialHonoured
    EndedStaysEnded
    WindowNotRestarted
\* The clock and the accounts are bounded, so a run may come to its end.
CHECK_DEADLOCK FALSE
