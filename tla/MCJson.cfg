SPECIFICATION JSpec
CONSTANTS
    Text = Text
    Infinite = Infinite
    Value <- Values
    Field <- FieldKey
    Limit = 24
    MaxTexts = 2
    Borders <- BorderBytes
    Form <- Forms
    Sample <- Samples
    Damage <- DamageBytes
    MaxDamaged = 24
    Start <- StartDocuments
    Operation <- Operations
    Other <- Others
    Place <- Places
    Thing <- Things
    MaxNodes = 2
    Name <- FilterNames
    MaxEvents = 7
CHECK_DEADLOCK FALSE
INVARIANT PointersHold
INVARIANT LexerAgreesWithDecode
INVARIANT RoundTrip
INVARIANT EndIsFound
INVARIANT SizesAgree
INVARIANT PatchRestores
INVARIANT UnflattenKeeps
INVARIANT PointersAgree
INVARIANT MergeIsFinal
INVARIANT FilterIsExact
INVARIANT FilterPointersHold
PROPERTY IsFraming
