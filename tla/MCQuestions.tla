----------------------------- MODULE MCQuestions -----------------------------
(***************************************************************************)
(* The questions behind one endpoint (handleCellApprove): a notebook's own *)
(* are its policy gate's, and those of a notebook that mirrors a session   *)
(* are its CLI's.  A notebook does not change from one to the other, so    *)
(* the two share no variable and one of them moves.                        *)
(***************************************************************************)
EXTENDS MCPolicyGate

CONSTANTS Notifier, Clicker, Key, MaxAsked, MaxPosts  \* of SessionPrompts

VARIABLES
  mirrored,  \* doc.Meta.SessionID is set
  dialog, asked, posts, hook, pending, standing, block, sweeper, answer, misread, crossed

prompts ==
  <<dialog, asked, posts, hook, pending, standing, block, sweeper, answer, misread, crossed>>
all == <<mirrored, vars, prompts>>

Prompts == INSTANCE SessionPrompts WITH Answer <- Clicker, open <- standing

Detached(A) == ~mirrored /\ A /\ UNCHANGED <<mirrored, prompts>>
Mirrored(A) == mirrored /\ A /\ UNCHANGED <<mirrored, vars>>

QuestionsInit == mirrored \in BOOLEAN /\ Init /\ Prompts!Init

QuestionsNext == Detached(Next) \/ Mirrored(Prompts!Next)

\* The fairness of the two specifications.
QuestionsFairness ==
  /\ \A r \in Run :
       /\ WF_all(Detached(TakeAnswer(r))) /\ WF_all(Detached(giveUp(r)))
       /\ WF_all(Detached(\E why \in {"expired", "interrupted"} : StopWaiting(r, why)))
  /\ \A h \in Handler : WF_all(Detached(Proceed(h)))
  /\ WF_all(Mirrored(Prompts!Sweeping))

QuestionsSpec == QuestionsInit /\ [][QuestionsNext]_all /\ QuestionsFairness

------------------------------------------------------------------------------

\* A pending question nobody answered has a block with buttons, or one like it has.
PendingIsVisible == Prompts!PendingIsVisible

\* What is pending is answered, replaced or swept away in the end.
BannerGoes == Prompts!BannerGoes

==============================================================================
