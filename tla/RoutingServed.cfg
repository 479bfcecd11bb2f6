SPECIFICATION Spec
CONSTANTS
    Names <- AllNames
    Routes <- SomeRoutes
    Uris <- AllUris
    Methods <- SomeMethods
    Capacity = 4
    Dots <- BothDots
    Index = "index.html"
    MaxIndexed = 2
INVARIANTS
    ChoosesLongest
    VerdictRight
    OpensTheFile
