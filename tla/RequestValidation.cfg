SPECIFICATION Spec
CONSTANTS
    Schemes <- TwoSchemes
    Names = {"a", "b"}
    Operations <- AllOperations
    Schemas <- SomeSchemas
    Lexical <- SomeLexical
    Json <- SomeJson
    Words <- SomeWords
    Pairs <- SomePairs
    Canonical <- SomeCanonical
    BufferSize = 2
    MaxDepth <- SomeDepth
    Docs <- SomeDocs
INVARIANTS AcceptedIsAllowed FirstFailureDecides AskedOnlyIfItDecides DefaultsFillGaps
           AcceptedIsMeant WrittenPasses
CHECK_DEADLOCK FALSE
