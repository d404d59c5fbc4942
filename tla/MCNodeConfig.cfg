CONSTANTS
    Plans <- APlans
    Messages <- AMessages
    Lists = {0, 2}

SPECIFICATION FairSpec
INVARIANTS StoredTogether  ListsWhole
PROPERTIES UserServed
CHECK_DEADLOCK FALSE
