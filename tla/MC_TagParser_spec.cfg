\* init_tags against the reference parser of spec section 6.
CONSTANTS
    MaxLines <- MCMaxLines
    MaxLen <- MCMaxLen
SPECIFICATION Spec
INVARIANT ParserMatchesSpec
CHECK_DEADLOCK FALSE
