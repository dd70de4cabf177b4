SPECIFICATION Spec
CONSTANTS
    Headers <- ThreeHeaders
    Declarations <- AllDeclarations
INVARIANTS TypeOK PassesIfItConforms BodyIsBlamedLast
CHECK_DEADLOCK FALSE
