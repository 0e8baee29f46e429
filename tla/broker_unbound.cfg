\* The statement that every field the documentation lists is bound.
SPECIFICATION Spec
CONSTANTS
    Provider <- MCProvider
    Catalog <- MCCatalog
    Prompt = {"rainbows"}
    Blank = Blank
    Sampling = {"t0.2"}
    DefaultSampling = "t0.2"
    MaxTokensAsked = {1}
    Lifetime = 2
    Other = Other
    NoBytes = NoBytes
    Zeros = Zeros
    MaxTime = 1
    MaxQuotes = 2
    MaxChats = 2
    MaxTampers = 1
    MaxSplices = 0
    MaxRestarts = 0
CHECK_DEADLOCK FALSE
INVARIANT
    DocumentedFieldsAreBound
