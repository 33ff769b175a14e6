SPECIFICATION FairSpec
CONSTANTS Feeds = {f1, f2}
INVARIANTS TypeOK NoDroppedRequest PromoteKept NoLostWakeUp
PROPERTIES Served
