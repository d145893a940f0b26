SPECIFICATION Spec
CONSTANTS
    Second = 2
    Offers <- MCUnknown
    Amounts = {1, 2}
    Quantities = {0, 1, 2, 3}
    Notes <- MCNotes
    Expiries = {0, 1, 4}
    Changes <- MCChanges
    MaxChanges = 0
INVARIANT UnknownIncluded
