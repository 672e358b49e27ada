--------------------------- MODULE MCSessionActor ---------------------------
(***************************************************************************)
(* Instances of SessionActor for TLC.  Each configuration sends a few      *)
(* prompts of the kinds its question is about; see README.md.              *)
(***************************************************************************)
EXTENDS SessionProperties

CONSTANTS u1, u2, i1, w1, c1, g1, p1, n1, n2, alice, bob

OneUser == {u1}
TwoUsers == {u1, u2}
OneInterjection == {i1}
OneWake == {w1}
OneCron == {c1}
OneGoal == {g1}
OnePlan == {p1}
TwoNotes == {n1, n2}
OneGoalNote == {n2}
TwoClients == {alice, bob}

\* Alice sends the first prompt, bob or nobody the others.
MCOwner == [p \in Users |-> IF p = u1 /\ alice \in Clients THEN alice
                            ELSE IF bob \in Clients THEN bob ELSE None]

\* A state constraint: either the clients edit rows, or a cron prompt is sent and
\* the turns enter no blocking wait.
EditsOrCron ==
  fate[c1] = "unsent" \/ (parked = {} /\ \A u \in Users : version[u] = 0)

\* A state constraint: beside the user's prompt either notes come, or the wake's
\* and the cron's prompts, which only an interactive cancel meets.
NotesOrWakes ==
  \/ fate[w1] = "unsent" /\ fate[c1] = "unsent"
  \/ (\A n \in TwoNotes : fate[n] = "unsent") /\ job.mode \in {None, "interactive"}

\* A state constraint: beside the user's prompt either a plan is approved, and the
\* session torn down only once the MCP starter is done; or an interjection is sent,
\* and nothing rewound.
PlanOrInterjection ==
  \/ fate[i1] = "unsent" /\ (job.mode = "teardown" => starter = "done")
  \/ fate[p1] = "unsent" /\ job.mode # "rewind"

AllModes == {"interactive", "rewind", "teardown"}
NoRewind == {"interactive", "teardown"}
NoTeardown == {"interactive", "rewind"}
Interactive == {"interactive"}
=============================================================================
