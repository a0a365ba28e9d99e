\* Terminals of three and four columns, lines of up to five rows.
SPECIFICATION Spec
CONSTANTS
  Widths = {3, 4}
  Assumed = 5
  Rows = 12
  Prompts <- MCPrompts
  Texts <- MCTexts
INVARIANTS
  TypeOK
  ScreenShowsLine
  RowShowsCursor
  NextRowFree
PROPERTY
  RefreshReturns
