\* The whole trading day: 9:30 to 11:30 and 13:00 to 15:00, 144001 intervals.
SPECIFICATION ClockSpec
CONSTANT Steps = 144001
INVARIANTS OneStepEach NeverInLunch RoundsToGrid
\* The day ends.
CHECK_DEADLOCK FALSE
