\* Contents up to and past the limits of one and of two signatures (70 and 240 bytes), and
\* plaintexts up to the one that no longer fits (168 bytes with one signature).
CONSTANTS
    TextLengths = {0, 1, 70, 71, 240, 241}
    PlainLengths = {1, 167, 168, 440}
SPECIFICATION Spec
INVARIANTS
    ArrivesAsMeant
    RejectedForCause
    
    ReadsWhatWasWritten
    StoredIsMeant
    AddressIsForetold
    
    
