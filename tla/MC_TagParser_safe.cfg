\* init_tags over every file of up to two lines of up to three characters.
CONSTANTS
    MaxLines <- MCMaxLines
    MaxLen <- MCMaxLen
SPECIFICATION Spec
INVARIANT TypeOK
INVARIANT SpecErrorImpliesCodeError
INVARIANT TagsAgreeOutsideComments
CHECK_DEADLOCK FALSE
