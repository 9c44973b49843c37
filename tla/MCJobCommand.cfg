SPECIFICATION Spec
CONSTANTS
    Texts <- MCTexts
INVARIANTS
    EncoderSound
    StdinAsDocumented
    
    LabelAsWritten
\* A line is read once.
CHECK_DEADLOCK FALSE
