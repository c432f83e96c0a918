SPECIFICATION Spec
CONSTANTS
    LinesPerPart = 2
    MaxAppends = 5
CHECK_DEADLOCK FALSE
INVARIANTS TornCostsTwo LossReported
