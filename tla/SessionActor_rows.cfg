\* Two clients edit, remove, clear, reorder and send the rows they share, beside a
\* goal, which a send does not cut; and a cron turn, which it cuts, of users who do
\* not edit.
SPECIFICATION Spec
CONSTANTS
  u1 = u1 u2 = u2 i1 = i1 w1 = w1 c1 = c1 g1 = g1 p1 = p1
  n1 = n1 n2 = n2 alice = alice bob = bob
  None = None
  Users <- TwoUsers
  Interjections = {}
  Wakes = {}
  Crons <- OneCron
  Goals <- OneGoal
  Plans = {}
  Notes = {}
  GoalTurnNotes = {}
  Clients <- TwoClients
  Owner <- MCOwner
  CancelModes = {}
  MaxVersion = 1
  MaxPending = 2
  MaxBuffer = 2
INVARIANTS
  SendsAreFifo
  RunningIsFront
  MirrorRows
  NothingLost
CONSTRAINT
  EditsOrCron
