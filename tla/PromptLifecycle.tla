--------------------------- MODULE PromptLifecycle ---------------------------
(***************************************************************************)
(* What a session promises for the prompts it accepts, whoever submits     *)
(* them, cancels them or starts them: one prompt at most is live, a prompt *)
(* becomes live at most once, and each accepted prompt that leaves gets    *)
(* exactly one answer.  A live prompt is never withdrawn: it leaves by its *)
(* own end or by a cancel, which closes it before it answers.              *)
(***************************************************************************)
EXTENDS FiniteSets

CONSTANTS Prompts, NoPrompt

VARIABLES
  waiting,   \* accepted, not live yet
  live,      \* the prompt that runs, or NoPrompt
  closing,   \* cancelled, the answer is still to come
  answered

lifecycle == <<waiting, live, closing, answered>>

Init == waiting = {} /\ live = NoPrompt /\ closing = {} /\ answered = {}

Known == waiting \cup {live} \cup closing \cup answered

\* New prompts come; some that wait may be withdrawn for them, with an answer.
Accept(new, withdrawn) ==
  /\ new \subseteq Prompts \ Known
  /\ withdrawn \subseteq waiting
  /\ waiting' = (waiting \ withdrawn) \cup new
  /\ answered' = answered \cup withdrawn
  /\ UNCHANGED <<live, closing>>

Begin(p) ==
  /\ live = NoPrompt /\ p \in waiting
  /\ live' = p
  /\ waiting' = waiting \ {p}
  /\ UNCHANGED <<closing, answered>>

Finish ==
  /\ live # NoPrompt
  /\ live' = NoPrompt
  /\ answered' = answered \cup {live}
  /\ UNCHANGED <<waiting, closing>>

\* A cancel closes the live prompt and perhaps some that wait.
Close(S) ==
  /\ closing = {}
  /\ S \subseteq waiting
  /\ live' = NoPrompt
  /\ closing' = S \cup ({live} \ {NoPrompt})
  /\ waiting' = waiting \ S
  /\ UNCHANGED answered

Answer ==
  /\ closing # {}
  /\ closing' = {}
  /\ answered' = answered \cup closing
  /\ UNCHANGED <<waiting, live>>

Next ==
  \/ \E new \in SUBSET Prompts, withdrawn \in SUBSET waiting :
       Accept(new, withdrawn)
  \/ \E p \in waiting : Begin(p)
  \/ Finish
  \/ \E S \in SUBSET waiting : Close(S)
  \/ Answer

Spec == Init /\ [][Next]_lifecycle
=============================================================================
