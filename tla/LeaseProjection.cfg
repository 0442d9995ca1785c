CONSTANTS
    Asks = {q1}
    Focuses = {"asks","turns"}
    MaxInputs = 3
    MaxReseeds = 1
SPECIFICATION FairSpec
CHECK_DEADLOCK FALSE
INVARIANTS NoResurrection DeadStaysDead
PROPERTIES LiveAskStays EvidenceClearsEndedTurns AsksConverge 
