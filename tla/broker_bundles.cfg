\* Quotes and chats across the clock and a restart; bundles put together from
\* the objects of two, or with one or two fields changed on their way.
SPECIFICATION MCSpec
CONSTANTS
    Provider <- MCProvider
    Catalog <- MCCatalog
    Prompt = {"rainbows", "tides"}
    Blank = Blank
    Sampling = {"t0.2"}
    DefaultSampling = "t0.2"
    MaxTokensAsked = {1, 4096, 4097}
    Lifetime = 2
    Other = Other
    NoBytes = NoBytes
    Zeros = Zeros
    MaxTime = 3
    MaxQuotes = 2
    MaxChats = 2
    MaxTampers = 2
    MaxSplices = 2
    MaxRestarts = 1
INVARIANTS
    TypeOK
    ChatHonoursQuote
    HonestBundleVerdict
    TamperFails
    PassIsOneChat
PROPERTIES
    StoredQuoteIsSettled
