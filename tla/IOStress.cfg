CONSTANT Worker = {w1, w2, w3}
SPECIFICATION IOFairSpec
INVARIANT ResultsAccounted
PROPERTY ApplyEnds
CHECK_DEADLOCK FALSE
