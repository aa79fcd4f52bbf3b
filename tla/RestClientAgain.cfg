SPECIFICATION Spec
CONSTANTS
    Proc = {p1, p2}
    User = {good, bad}
    Allowed = {good}
    Nobody = Nobody
    Files = 2
    Retry = 1
    LoginRetries = 2
    MaxCalls = 2
    MaxBreaks = 2
    MaxExpiries = 1
    MaxUserChanges = 1

PROPERTIES RepeatedCallGoesOn
