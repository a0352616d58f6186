SPECIFICATION Spec
CONSTANTS
    Programs <- MCPrograms
    Nil      = null
    null     = null
    Invalid  = 1000
    Text     <- MCText
    Length   <- MCLength
    Wrap     = 2840
INVARIANT SubObjectSliceExact
