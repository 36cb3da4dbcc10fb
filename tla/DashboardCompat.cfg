SPECIFICATION Spec
CONSTANTS
    Engines <- MCEngines
    Stylesheet <- MCStylesheet
    FirstThemes <- MCFirstThemes
    DocumentThemes <- MCDocumentThemes
    PageClasses <- MCPageClasses
    MaxChanges = 2
    MaxPreviews = 2
INVARIANTS
    TypeOK
    RebuildsAsNeeded
    FallbackExact
    ReadableText
    ColorsTrue
PROPERTIES
    CatchesUp
CHECK_DEADLOCK FALSE
