CONSTANTS
  Language <- MCLanguage
  Numeral <- MCNumeral
  IntDefault <- MCIntDefault
  LenDefault <- MCLenDefault
  MinInt <- MCMinInt
  IdBits = 4
  LuaId = 7
  Jobs <- MCJobs3
  Absolute <- MCAbsolute
  MaxHops = 2
SPECIFICATION Spec
INVARIANT UrlFilled
CHECK_DEADLOCK FALSE
