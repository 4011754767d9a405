CONSTANTS
  Browsers <- MCBrowsers
  MaxTimers = 3
  MaxOwnership = 1
SPECIFICATION PressSpec
PROPERTY NoEndDuringPress
CHECK_DEADLOCK FALSE
