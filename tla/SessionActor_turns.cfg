\* A prompt of a client beside one of a plan approval, or beside an interjection that
\* meets its turn at every stage, with every cancel: the session implements
\* PromptLifecycle, its turns and flags agree, and under fair scheduling what a user
\* sent gets an outcome.
SPECIFICATION FairSpec
CONSTANTS
  u1 = u1 u2 = u2 i1 = i1 w1 = w1 c1 = c1 g1 = g1 p1 = p1
  n1 = n1 n2 = n2 alice = alice bob = bob
  None = None
  Users <- OneUser
  Interjections <- OneInterjection
  Wakes = {}
  Crons = {}
  Goals = {}
  Plans <- OnePlan
  Notes = {}
  GoalTurnNotes = {}
  Clients = {}
  Owner <- MCOwner
  CancelModes <- AllModes
  MaxVersion = 0
  MaxPending = 2
  MaxBuffer = 2
INVARIANTS
  TypeOK
  TurnIffRunning
  OneTerminal
  NoPhantomWait
  PinAgreesAtCancel
PROPERTIES
  ImplementsLifecycle
  UserInputIsHandled
CONSTRAINT
  PlanOrInterjection
