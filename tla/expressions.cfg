SPECIFICATION Spec
CHECK_DEADLOCK FALSE
CONSTANTS
    CustomTypes <- MCCustomTypes
    Discovered <- MCDiscovered
    Undefined <- MCUndefined
    Alphabet <- MCAlphabet
    Collation <- MCCollation
    Numerals <- MCNumerals
    DateForms <- MCDateForms
    TimeForms <- MCTimeForms
    DateTimeForms <- MCDateTimeForms
    DurationForms <- MCDurationForms
    defaultTimeZone <- MCDefaultTimeZone
    queryTimestamp <- MCQueryTimestamp
    baseIRI <- MCBaseIRI
    LowerCase <- MCLowerCase
    OneLetter = {"x"}
    ExtensionFunctions <- MCExtensionFunctions
    Arguments <- MCArguments
    Trees <- MCTrees
    Calls <- MCCalls
    MaxCached = 1
    MaxNesting = 7
INVARIANT
    CacheAgreesWithSearch
PROPERTIES
    OrderFollowsComparisons
    FormsAgree
    FunctionsAgree
    AggregatesIgnoreOrder
