SPECIFICATION Spec
CONSTANTS
  Texts <- MCTexts
  Editions <- MCEditions
  ShortTexts <- MCShortTexts
INVARIANTS
  TypeOK
  OutcomeIsATruncation
  ItemsBeforeDamageSurvive
  MissingSymbolLosesATail
  CutBetweenItemsIsHarmless
