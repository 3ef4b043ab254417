CONSTANTS
  SIZE = 2
  TARGET = 8
  MAX_LEADERBOARD = 2
  OldFiles <- Tables
  MaxStarts = 2
  MaxGames = 2
  MaxFaults = 1
SPECIFICATION Spec
INVARIANTS RowsSlide ScoreExplained TableIsBest NothingInvented
PROPERTIES OverIsStuck
CHECK_DEADLOCK FALSE
