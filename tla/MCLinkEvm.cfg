\* Expected to be violated.
CONSTANTS
    TextLengths = {0, 1, 70}
    PlainLengths = {1}
SPECIFICATION Spec
INVARIANT
    OwnerMayLink
