CONSTANTS
    Words <- MCWords
    Digits <- MCDigits
    TypeNamed <- MCTypeNamed
    OrdinalOf <- MCOrdinalOf
    Directories <- MCDirectories
    Invocations <- MCInvocations
    WordBits = 8
    MaxGraphNodes = 90
SPECIFICATION Spec
INVARIANTS
    TypeOK
    BoundarySafe
    TokensInOrder
    LexedAsWritten
    SchemaAgrees
    CatalogueAsWritten
    SafeExit
    ExitIsVerdict
PROPERTY Terminates
