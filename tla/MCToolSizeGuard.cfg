CONSTANTS
    Words <- MCWords
    Digits <- MCDigits
    TypeNamed <- MCTypeNamed
    OrdinalOf <- MCOrdinalOf
    Directories <- OverflowDirectories
    Invocations <- MCOneInvocation
    WordBits = 8
    MaxGraphNodes = 90
SPECIFICATION Spec
INVARIANT NeverMistakenForUnknown
