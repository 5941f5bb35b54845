SPECIFICATION Spec
CONSTANTS
  t1 = t1
  t2 = t2
  p1 = p1
  p2 = p2
  Tabs <- MCTabs
  PageCalls <- MCPageCalls
  MaxTokens = 2
  MaxLoads <- MCMaxLoads
INVARIANTS TypeOK PresentedOnce StoreFits LoggedOutIsDead
PROPERTIES KeepsLiveSession Settles
CHECK_DEADLOCK FALSE
