\* Two calls at once on one estimate: payments, charges, requests, failures.
CONSTANTS
  k1 = k1  k2 = k2  x1 = x1  x2 = x2  x3 = x3
  Calls = {k1, k2}
  Charges = {x1, x2}
  Amounts = {1000, 2000}
  Price = 10000
SPECIFICATION FairSpec
INVARIANTS
  RecordedIsCharged
  NeverOvercharged
  OneRequestPerStage
  ChargesWithinLimit
PROPERTIES
  ImplementsLife
  AnsweredIsFinal
  PaidFreezesAmounts
  EveryCallAnswers
