\* All graphs over three names, for each of the six computations.
CONSTANTS
  Names = {"voltage", "power", "daily_power"}
  Main = "main"
  LastPart <- MCTail
  Title <- MCTitle
  None = None
SPECIFICATION Spec
INVARIANTS OrderRespectsReads OmittedAreReported CyclesAreReal ReadsAreEvaluated
CHECK_DEADLOCK FALSE
