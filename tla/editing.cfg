SPECIFICATION Spec
CONSTANTS
  Docs <- MCDocs
  Texts <- MCTexts
  Boxes <- MCBoxes
  MaxResults = 2
  MaxEdits = 1
  MaxOpened = 2
  MaxReplaces = 1
  Word <- MCWord
  Correct <- MCCorrect
  Drafts <- MCDrafts
  Budgets <- MCBudgets
  Openings <- MCOpenings
  Formulas <- MCFormulas
  Pastes <- MCPastes
  MAX_ROWS = 3
  MAX_COLUMNS = 3
  RECENT_LIMIT = 2
  MaxOthers = 1
  Doc = {"a", "b"}
  RootDoc = "a"
  HeadingLine = {2}
  OutlineRows = 2
  MAX_RETRIES = 1
  ScreenStories <- MCScreenStories
INVARIANTS ScreenTrue SpellTrue
PROPERTIES ScreenKept ToolsKept ToolsSettle
CHECK_DEADLOCK FALSE
