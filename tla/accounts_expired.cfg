SPECIFICATION FairSpec
CONSTANTS
    User = {u1, u2}
    Browser = {b1, b2}
    Password = {p1, p2}
    Secret = {s1}
    Root = u1
    FirstPassword = p1
    Mailable = {u2}
    NoUser = NoUser
    NoSecret = NoSecret
    MaxEvents = 2
PROPERTY
    RedirectsEnd
CHECK_DEADLOCK FALSE
