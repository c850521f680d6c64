\* Four slots, three grid times, ticks for the second of them, for one at the
\* edge of the tolerance and for one beyond it.
SPECIFICATION Spec
CONSTANTS
  Slots = 4
  Tolerance = 402
  LastTick = 93000100
  TickTimes = {93000010, 93000410, 93000510}
INVARIANTS TypeOK AnswerIsPrediction SureIfPredicted OwnTimeDecides
