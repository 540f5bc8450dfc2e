SPECIFICATION Spec
CONSTANTS
  TxFrames = 2
  RxFrames = 2
  Opens = 1
  Faults = 2
INVARIANT RegisteredMeansListening
PROPERTIES  ReceptionSpec NoneReplaced XmitCompletes
