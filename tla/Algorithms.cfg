SPECIFICATION Spec
CONSTANT BlockSize = 3
INVARIANTS
    PickFollowsWeights EqualSelectorsSelectAlike FailoverReaches SignedVerifiably SignsItsService
    EncryptionOpens SharedParamAgrees LabelPrecedence ChainKeepsFilters
CHECK_DEADLOCK FALSE
