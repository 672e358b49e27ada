\* Background work beside a prompt of a client and every cancel: notifications, one
\* of them of a goal turn, and lists that overflow at one; or an auto-wake and a
\* scheduled prompt, which the prompt preempts or a turn consumes.
SPECIFICATION Spec
CONSTANTS
  u1 = u1 u2 = u2 i1 = i1 w1 = w1 c1 = c1 g1 = g1 p1 = p1
  n1 = n1 n2 = n2 alice = alice bob = bob
  None = None
  Users <- OneUser
  Interjections = {}
  Wakes <- OneWake
  Crons <- OneCron
  Goals = {}
  Plans = {}
  Notes <- TwoNotes
  GoalTurnNotes <- OneGoalNote
  Clients = {}
  Owner <- MCOwner
  CancelModes <- AllModes
  MaxVersion = 0
  MaxPending = 1
  MaxBuffer = 1
INVARIANTS
  IdleHoldsNoNotes
  CancelEndsOnlyWhatRan
PROPERTIES
  SilenceLasts
CONSTRAINT
  NotesOrWakes
