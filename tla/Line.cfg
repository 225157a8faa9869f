CONSTANTS
  Chars <- TwoChars
  SIZE = 5
  ExitCommand <- BA
SPECIFICATION Spec
CHECK_DEADLOCK FALSE
INVARIANT ScreenShowsLine
PROPERTY ImplementsTextLine
