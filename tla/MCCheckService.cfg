SPECIFICATION MCSpec
CONSTANTS
  Word <- Words
  Trim <- TrimWord
  Upper <- UpperWord
  Within <- WithinWord
  Country <- CountryOf
  Day <- DayOf
  IsTime <- TimeWord
  Pad <- PadWord
  NoDay <- NoSuchDay
  Scale <- Scales
  TransferDigits = 2
  AggregateDigits = 2
  DurationLimit = 5000
  ApiKeys = {"k", " "}
CHECK_DEADLOCK FALSE
INVARIANTS
  DecisionExplained
  ReasonsHonest
  RuleVerdictExplained
  FailsOnlyOnData
  MetricsAgreeWithHistory
  OneReading
  ReformattingIsSame
