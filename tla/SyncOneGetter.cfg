SPECIFICATION AnswersSpec
CONSTANTS
  Getters = {g1}
  Limits = {1, 2}
  MaxMessageId = 4
INVARIANTS TypeOK RangesGapFree WindowGapFree WindowFull
