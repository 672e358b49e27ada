-------------------------- MODULE SessionProperties --------------------------
(***************************************************************************)
(* What should hold of a session.  `Ready` is the point between two        *)
(* handlers: the actor is about to take the next command.                  *)
(***************************************************************************)
EXTENDS SessionActor

QueueTypes ==
  /\ queue \in Seq(Ids) /\ running \in Ids \cup {None}
  /\ interjections \in Seq(Interjections)
  /\ notes \in Seq(Notes) /\ buffer \in Seq(Notes)

RowTypes ==
  /\ sendNow \subseteq UserOrigin /\ sends \in Seq(UserOrigin)
  /\ version \in [Users -> 0..MaxVersion]
  /\ shown \in [rows : Seq(Users), running : Ids \cup {None}]

FlagTypes ==
  /\ rewindable \in BOOLEAN /\ suppressed \in BOOLEAN /\ active \in BOOLEAN
  /\ pin \in Ids \cup {None} /\ depth \in Nat
  /\ gate \in BOOLEAN /\ goal \in {"off", "active", "complete"}
  /\ delivered \subseteq Wakes /\ reported \subseteq Wakes \cup Notes
  /\ surfaced \subseteq Wakes

TaskTypes ==
  /\ turns \in [Ids -> Stages] /\ parked \subseteq Ids /\ zombies \in Nat
  /\ completions \in Seq(Ids)
  /\ starter \in {"waiting", "done"} /\ resume \in {"waiting", "queued", "done"}

Steps == {"start", "snapshot", "teardown", "ungate", "abort", "answer",
          "sweep", "turn_end", "flush", "requeue", "drain"}

ActorTypes ==
  /\ agenda \in Seq(Steps) /\ stranded \in Seq(Interjections)
  /\ job \in [mode : Modes \cup {None}, pinned : Ids \cup {None},
              named : Ids \cup {None}, task : Ids \cup {None},
              closing : Seq(Ids), rewound : BOOLEAN]

FateTypes ==
  /\ fate \in [Ids -> Waiting \cup Ended] /\ started \subseteq Ids
  /\ hushed \in BOOLEAN
  /\ terminals \in [Ids -> Nat]

\* Every variable has its type; the flags the tasks share (the wait count
\* above all, an unsigned integer that late guards decrement) stay in range.
TypeOK == /\ QueueTypes /\ RowTypes /\ FlagTypes
          /\ TaskTypes /\ ActorTypes /\ FateTypes

-----------------------------------------------------------------------------
(* The queue and the turn that runs.                                       *)

\* The running prompt stays at the front of the queue, through every insertion,
\* sweep, reordering and removal: handle_completion and the index-0 rule of
\* cancel_running_task rely on it.
RunningIsFront == running # None => queue # <<>> /\ Head(queue) = running

\* No queue operation loses or duplicates a prompt: the queue holds, once,
\* exactly the ids accepted and not answered, but for those a cancel is closing.
NothingLost ==
  /\ IsInjective(queue)
  /\ {x \in Ids : fate[x] = "queued"} = ToSet(queue) \cup ToSet(job.closing)

\* cancel_running_task asserts it under the lock: the pin it read before the
\* lock and the identity of the running task do not disagree, though the other
\* starters may promote a prompt between the two.
PinAgreesAtCancel ==
  Doing("teardown") =>
    job.pinned = None \/ running = None \/ running = job.pinned

\* Between two handlers, a turn is alive, or its completion is to come, if and
\* only if it is the running one: a cancel leaves no orphan that goes on
\* working, and no running task whose turn is dead.
TurnIffRunning ==
  Ready => \A t \in Ids : turns[t] \notin {"none", "aborted"} <=> t = running

\* A cancel other than a teardown takes only a user prompt whose turn was
\* started: the user prompts queued behind it survive, whatever a sweep, a
\* consumption or another starter did to the front of the queue meanwhile.
CancelEndsOnlyWhatRan ==
  job.mode # "teardown" => ToSet(job.closing) \cap UserOrigin \subseteq started

\* Every turn that was started and is over has one TurnCompleted record, none
\* if it was rewound, whichever of a completion, a stale completion and a
\* cancel ended it; a prompt that never ran has none.
OneTerminal ==
  Ready => \A p \in Ids :
    terminals[p] =
      IF p \in started /\ p # running /\ fate[p] # "rewound" THEN 1 ELSE 0

\* Between two handlers, the last broadcast shows the clients the rows that
\* wait, in their order, and no row that runs.
MirrorRows == Ready => shown.rows = Keep(queue, Users \ {running})

-----------------------------------------------------------------------------
(* Waits, interjections and sends now.                                     *)

\* Between two handlers, no wait is counted that the turns are not in: a stale
\* count would make the next user prompt cancel a turn that does not wait.
NoPhantomWait == Ready => depth <= Cardinality(parked)

IndexIn(x, q) == CHOOSE k \in DOMAIN q : q[k] = x

\* Prompts sent now run in the order of the sends: none overtakes an earlier
\* one that still waits (an interjection turned into a prompt may).
SendsAreFifo ==
  \A k \in DOMAIN sends, l \in DOMAIN sends :
    LET a == sends[k]
        b == sends[l]
        behind == ToSet(queue) \ {running}
    IN  k < l /\ b \in Users /\ {a, b} \subseteq behind
          => IndexIn(a, queue) < IndexIn(b, queue)

\* A user prompt or an interjection that was accepted gets an outcome: it runs,
\* is merged in a turn, or is cancelled, removed or discarded on request.
UserInputIsHandled ==
  \A x \in UserOrigin : fate[x] \in {"queued", "buffered"} ~> fate[x] \in Ended

-----------------------------------------------------------------------------
(* Notifications.                                                          *)

\* Between two handlers, an idle session that no cancel has silenced has no
\* notification pending: they were drained at the end of the turn or on arrival.
\* A cancel that rewinds its turn, or a prompt that had not begun, is the exception:
\* it silences nothing and drains nothing, and what was pending waits for the next
\* event.
IdleHoldsNoNotes ==
  Ready /\ running = None /\ queue = <<>> /\ ~suppressed
    => notes = <<>> \/ \E p \in Ids : fate[p] = "rewound"

\* After a cancel no notification starts a turn until the user sends a prompt,
\* sends one now in the place of the running one, or rewinds it: neither a wake or
\* a cron turn that ends meanwhile, nor a notification that comes, nor a second
\* cancel, lets the drain speak.
SilenceLasts ==
  [][hushed => \A n \in Notes : fate[n] # "queued" => fate'[n] # "queued"]_vars

-----------------------------------------------------------------------------
(* The session implements PromptLifecycle.                                 *)

Lifecycle == INSTANCE PromptLifecycle WITH
  Prompts <- Ids, NoPrompt <- None,
  waiting <- ToSet(queue) \ {running},
  live <- running,
  closing <- ToSet(job.closing),
  answered <- {x \in Ids : fate[x] \in {"done", "cancelled", "rewound", "removed",
                                        "swept"}}
              \cup {w \in Wakes : fate[w] = "consumed"}

\* One live prompt, begun once, one answer each, whatever the interleaving.
ImplementsLifecycle == Lifecycle!Spec
=============================================================================
