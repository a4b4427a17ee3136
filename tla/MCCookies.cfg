\* Two users, two sieges, two lines from a host and its subdomain.
CONSTANTS
    Texts <- Words
    Upto <- Cut
    Hosts <- Site
    Under <- Subdomains
    Lines <- SomeLines
    ByHand <- SomeByHand
    MaxUsers = 2
    MaxTime = 3
    MaxLines = 2
    MaxSieges = 2
SPECIFICATION Spec
CHECK_DEADLOCK FALSE
INVARIANTS
    CookieTypeOK
    HeaderIsIdeal
PROPERTIES
    LossesExplained
