SPECIFICATION Spec
CONSTANTS
  Names <- MCNames
  ScriptsDir <- MCScriptsDir
  TailMax = 3
  ErrorMax = 2
  MaxOutput = 11
  MaxWrite = 4
INVARIANTS
  TypeOK
  RunsNamed
  ErrorShowsEnd
