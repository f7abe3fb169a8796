SPECIFICATION Spec
CONSTANT MaxDisturbances = 2
PROPERTIES EndsOnEvidence RecoveryEnds LoneChildEnds
CHECK_DEADLOCK FALSE
