SPECIFICATION Spec
CONSTANTS
    Ips = {i}
    Emails = {e, f}
    Handlers = {h, g}
    Max <- MCMax
    Window = 1
    MaxTime = 4
    MaxLog = 9
SYMMETRY Symmetry
INVARIANTS TwiceCeiling RefusedForCause
