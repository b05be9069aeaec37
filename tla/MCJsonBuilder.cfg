CONSTANTS
    Keys <- MCKeys
    Values <- MCValues
SPECIFICATION Spec
CONSTRAINT Bounded
INVARIANTS
    TypeOK
    PrintedDocumentReloads
PROPERTIES
    BuilderImplementsFrames
