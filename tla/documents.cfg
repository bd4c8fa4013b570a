CONSTANTS
    Hosted <- HostedDef
    Catalog <- CatalogDef
    ReservedNames <- ReservedDef
    StudentIds <- StudentDef
    Limits <- LimitsDef
    Sample <- SampleDef
    Edits <- EditsDef
    MaxEdits = 2
    Names = {"a", "__proto__"}
    ProtoKey = "__proto__"
    Numerals = {"1"}
    MaxDepth = 1
    MaxText = 9
SPECIFICATION DocumentsSpec
CHECK_DEADLOCK FALSE
INVARIANTS TellsWhatIsWrong ParsesJson
