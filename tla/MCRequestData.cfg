CONSTANTS
  Language <- MCLanguage
  Numeral <- MCNumeral
  IntDefault <- MCIntDefault
  LenDefault <- MCLenDefault
  MinInt <- MCMinInt
  IdBits = 4
  LuaId = 7
  Jobs <- MCJobs
  Absolute <- MCAbsolute
  MaxHops = 2
SPECIFICATION Spec
INVARIANTS
  SpecSurvives
  RatesAsSpecified
  DataConform
  UrlFilled
  
  FailuresExact
CHECK_DEADLOCK FALSE
