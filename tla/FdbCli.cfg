SPECIFICATION FdbCliSpec
CONSTANT Inputs <- AllInputs
INVARIANTS CommandsFaithful ServerAccepts FlagsFaithful
CHECK_DEADLOCK FALSE
