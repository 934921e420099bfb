CONSTANTS
    Types <- MCTypes
    TypeInvalid <- MCTypeInvalid
    SetConcatTypeBits = 6
    Args <- WellSizedArgs
    Actions = {TRUE, FALSE}
    Nil = Nil
    ElementInputs <- MCElementInputs
SPECIFICATION Spec
INVARIANTS KeyMatchesKeyType ComponentsAligned MakeElementOK
CHECK_DEADLOCK FALSE
