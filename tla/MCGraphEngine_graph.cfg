\* Queries of graphs of four nodes while the stores change and the graph is rebuilt or cleared.
CONSTANTS
    Objects <- FourObjects
    Relationships <- FiveEdges
    Source <- FiveSource
    Target <- FiveTarget
    Changing = {3, 4}
SPECIFICATION GraphSpec
INVARIANTS
    LoopInv
    AnswersAreRight
PROPERTIES
    ImplementsSearch
    EveryQueryEnds
