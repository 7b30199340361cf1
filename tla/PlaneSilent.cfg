CONSTANTS
    Counts = {1}
    Twins = {}
    MaxReviews = 0
    MaxTrouble = 0
SPECIFICATION PlaneSpec
CHECK_DEADLOCK FALSE
PROPERTY PlaneSends
