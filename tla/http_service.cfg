\* The process and one request at a time, with every failure.
SPECIFICATION Spec
CONSTANTS
  Faults <- MCFaults
  MaxSignals = 1
  MaxOutages = 1
INVARIANTS
  RequestsHaveStores
  ServerErrorsAreFaults
  AnswersAreRight
PROPERTIES
  SignalEndsProcess
  ConsumersComeBack
