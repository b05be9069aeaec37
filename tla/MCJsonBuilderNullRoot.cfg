CONSTANTS
    Keys <- MCKeys
    Values <- MCNullValues
SPECIFICATION Spec
CONSTRAINT Bounded
PROPERTIES
    BuilderImplementsFrames
