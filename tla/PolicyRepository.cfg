CONSTANTS
    None = None
    NotAsked = NotAsked
    Numbers <- MCNumbers
    Names <- MCNames
    Lowered <- MCLowered
    Files <- MCFiles
SPECIFICATION Spec
INVARIANTS
    RepositoryTypeOK
    IndexesAgree
PROPERTIES
    ImplementsPolicyBook
