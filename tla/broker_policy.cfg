\* The statement that a bundle carries the decode policy of the quote that was sent.
SPECIFICATION Spec
CONSTANTS
    Provider <- MCProvider
    Catalog <- MCCatalog
    Prompt = {"rainbows"}
    Blank = Blank
    Sampling = {"t0.2"}
    DefaultSampling = "t0.2"
    MaxTokensAsked = {1, 4096, 4097}
    Lifetime = 2
    Other = Other
    NoBytes = NoBytes
    Zeros = Zeros
    MaxTime = 3
    MaxQuotes = 2
    MaxChats = 2
    MaxTampers = 0
    MaxSplices = 0
    MaxRestarts = 1
CHECK_DEADLOCK FALSE
INVARIANT
    BundleCarriesQuotedPolicy
