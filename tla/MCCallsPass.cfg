SPECIFICATION LiveSpec
CONSTANTS
  Kind = {"MO", "MT"}
  Keys = {"MO"}
  Quick = TRUE
  MaxNet = 2
INVARIANTS TypeOK NoFailedAssertion PhoneReleased RemovedIsCleared NoPhantomCall
PROPERTIES ClearingIsFinal HangupEnds
CHECK_DEADLOCK FALSE
