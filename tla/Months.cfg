\* Two months of two ticks and the start of a third; batches wait up to one tick
\* and are dated within one of their receipt.  Four days of two weeks and two
\* months for the feed.
CONSTANTS
  Horizon = 4
  MonthLen = 2
  Clamp = 1
  Lag = 1
  UtcOffset = 1
  MaxAttempts = 2
  MaxAge = 1
  MaxTrouble = 2
  Calendar = {"week"}
  Closing = {"month"}
  Boards = {mc}
  Bots = {bot}
  Webs = {w1}
  PageSize = 1
  MaxTime = 4
  MaxNews = 3
  MaxRefreezes = 1
  Lengths <- TwoDays
  Backlogs <- OneDayForMonths
SPECIFICATION MCSpec
INVARIANTS AnnouncedIsFrozen PostsAccounted NewsGetsOut NothingSkipped
CHECK_DEADLOCK FALSE
