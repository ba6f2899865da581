SPECIFICATION Spec
CONSTANTS
    Users = {u1, u2}
    Codes = {c1, c2}
    Handlers = {h1, h2}
    MaxAttempts = 2
    CodeLife = 1
    SessionLife = 1
    MaxCodes = 2
    MaxTime = 2
    MaxFaults = 1
SYMMETRY Symmetry
INVARIANTS SessionsEarned OverrunBounded NoCodeLost
           AttemptsCapped OneActiveCode OneSessionPerCode
PROPERTIES OnlyNewestSignsIn
