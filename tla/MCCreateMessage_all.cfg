CONSTANTS
    Messages <- MCMessages
SPECIFICATION Spec
INVARIANTS
    NamesDistinct
    PlaceholderHasMac
    EveryAddressPlaced
    CardsNotMixed
    SavedOrShown
    ErrorIsExplained
    ListedTagsLand
CHECK_DEADLOCK FALSE
