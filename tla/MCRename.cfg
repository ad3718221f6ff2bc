CONSTANTS
    ArchNum = 3
    PhysNum = 5
    Depth = 3
    Instrs <- MCInstrs
SPECIFICATION Spec
VIEW MCView
INVARIANTS
    TypeOK
    OwnershipExact
    MappingsExact
    NoEarlyReuse
