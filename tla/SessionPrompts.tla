--------------------------- MODULE SessionPrompts ---------------------------
(***************************************************************************)
(* The permission questions of a session's CLI: how one becomes pending    *)
(* (hooks.go, session.go), is recorded in the session's notebook           *)
(* (nb_approval.go), expires, and is answered with keystrokes from the     *)
(* notebook or the dashboard (api.go).                                     *)
(*                                                                         *)
(* The CLI is external: it shows a dialog, posts hooks, which are served   *)
(* concurrently and as late as they like, and reads whatever is typed.     *)
(* Handlers, the sweeper and the keystrokes' goroutines interleave at      *)
(* every unlock of the session and of the projector.                       *)
(*                                                                         *)
(* Abstractions.                                                           *)
(*  - A question's key is what setPending makes of it: most messages are   *)
(*    alike, and a recent tool call is attached or not, so any key may     *)
(*    come of any question, and another of a repeated hook.                *)
(*  - A dialog that reads keystrokes may take them for its answer or not.  *)
(*  - A click reaches its handler at once, and a verdict its block; the    *)
(*    reader pairs the two by id (renderOutputs), so that their order in   *)
(*    the log does not matter.  Which cell they land on is left out, and   *)
(*    so are a projector that closed and a log that refuses.               *)
(*                                                                         *)
(* "crossed" is a history variable: a verdict closed a block while another *)
(* question than the one it was about was pending.                         *)
(***************************************************************************)
EXTENDS Integers, Sequences

CONSTANTS
  Notifier,      \* requests of the CLI that may be served at a time
  Answer,    \* clicks on an answer
  Key,       \* what questions look like: tool and message
  MaxAsked,  \* bound: questions of the CLI
  MaxPosts   \* bound: hooks

VARIABLES
  dialog,   \* the question on the CLI's screen
  asked, posts,
  hook,     \* each hook's handler: where it is, its question, key and block
  pending,  \* s.Pending: its question and key, and whether its time is over
  open,     \* approvalID, the block that stands for approvalKey
  block,    \* the blocks: question, key, in the notebook?, whose verdict it has
  sweeper,
  answer,   \* each click: its handler, the question it was for, its keystrokes
  misread,  \* history: a fallback was typed while another question was pending
  crossed

cli == <<dialog, asked, posts>>
session == <<pending, open, block>>
vars == <<cli, hook, session, sweeper, answer, misread, crossed>>

NoQ == 0      \* no question
NoBlock == 0
Question == 1..MaxAsked
NoKey == ""
Nothing == [of |-> NoQ, key |-> NoKey, late |-> FALSE]
Idle == [pc |-> "idle", of |-> NoQ, key |-> NoKey, block |-> NoBlock]

Init ==
  /\ dialog = NoQ /\ asked = 0 /\ posts = 0
  /\ hook = [h \in Notifier |-> Idle]
  /\ pending = Nothing /\ open = NoBlock /\ block = <<>>
  /\ sweeper = [pc |-> "idle", of |-> NoQ]
  /\ answer = [a \in Answer |-> [pc |-> "idle", of |-> NoQ, keys |-> "none"]]
  /\ misread = FALSE /\ crossed = FALSE

------------------------------------------------------------------------------
\* The CLI.

Ask ==
  /\ dialog = NoQ /\ asked < MaxAsked
  /\ asked' = asked + 1 /\ dialog' = asked'
  /\ UNCHANGED <<posts, hook, session, sweeper, answer, misread, crossed>>

\* Somebody answers in the terminal.
AnswerInTerminal ==
  /\ dialog # NoQ /\ dialog' = NoQ
  /\ UNCHANGED <<asked, posts, hook, session, sweeper, answer, misread, crossed>>

\* A Notification, more than once for some dialogs, or any other hook.  A matcher
\* that says permission_prompt leaves what is pending until it is replaced.
Post(h) ==
  /\ posts < MaxPosts /\ posts' = posts + 1
  /\ hook[h].pc = "idle"
  /\ \E of \in {NoQ, dialog}, pc \in {"clear", "set"} :
       /\ pc = "set" => of # NoQ
       /\ hook' = [hook EXCEPT ![h] = [Idle EXCEPT !.pc = pc, !.of = of]]
  /\ UNCHANGED <<dialog, asked, session, sweeper, answer, misread, crossed>>

------------------------------------------------------------------------------
\* handleHook.

Goto(h, pc) == hook' = [hook EXCEPT ![h].pc = pc]

clearPendingUnlessApproval(h) ==
  /\ hook[h].pc = "clear"
  /\ pending' = Nothing
  /\ IF hook[h].of = NoQ THEN hook' = [hook EXCEPT ![h] = Idle] ELSE Goto(h, "set")
  /\ UNCHANGED <<cli, open, block, sweeper, answer, misread, crossed>>

setPending(h) ==
  /\ hook[h].pc = "set"
  /\ \E k \in Key : pending' = [of |-> hook[h].of, key |-> k, late |-> FALSE]
  /\ Goto(h, "read")
  /\ UNCHANGED <<cli, open, block, sweeper, answer, misread, crossed>>

\* What is pending by now is what is recorded.
recordApprovalRequest(h) ==
  /\ hook[h].pc = "read"
  /\ hook' = [hook EXCEPT ![h] =
       IF pending = Nothing
         THEN Idle
         ELSE [@ EXCEPT !.pc = "record", !.of = pending.of, !.key = pending.key]]
  /\ UNCHANGED <<cli, session, sweeper, answer, misread, crossed>>

\* Mutant: a question that was answered still counts as recorded.
Standing_Answered(key) == \E b \in DOMAIN block : block[b].key = key

Standing(key) == open # NoBlock /\ block[open].key = key

\* A question that stands already, by its key, is not recorded again.
recordApproval(h) ==
  /\ hook[h].pc = "record"
  /\ IF Standing(hook[h].key)
       THEN hook' = [hook EXCEPT ![h] = Idle] /\ UNCHANGED <<open, block>>
       ELSE /\ block' = Append(block, [of |-> hook[h].of, key |-> hook[h].key,
                                       shown |-> FALSE, verdict |-> NoQ])
            /\ open' = Len(block')
            /\ hook' = [hook EXCEPT ![h].pc = "append", ![h].block = open']
  /\ UNCHANGED <<cli, pending, sweeper, answer, misread, crossed>>

appendApproval(h) ==
  /\ hook[h].pc = "append"
  /\ block' = [block EXCEPT ![hook[h].block].shown = TRUE]
  /\ hook' = [hook EXCEPT ![h] = Idle]
  /\ UNCHANGED <<cli, pending, open, sweeper, answer, misread, crossed>>

\* A verdict about question of closes the block that stands, whatever it stands for.
resolveApproval(of) ==
  /\ open' = NoBlock
  /\ IF open = NoBlock
       THEN UNCHANGED <<block, crossed>>
       ELSE /\ block' = [block EXCEPT ![open].verdict = of]
            /\ crossed' = (crossed \/ pending.of \notin {NoQ, of})

------------------------------------------------------------------------------
\* startPendingSweeper.

\* Five minutes go by.
Expire ==
  /\ pending # Nothing /\ ~pending.late
  /\ pending' = [pending EXCEPT !.late = TRUE]
  /\ UNCHANGED <<cli, hook, open, block, sweeper, answer, misread, crossed>>

\* Mutant: what no block stands for is not looked at.
pendingExpired_Recorded == pending.late /\ open # NoBlock

pendingExpired == pending.late

Sweep ==
  /\ sweeper.pc = "idle" /\ pendingExpired
  /\ sweeper' = [pc |-> "clear", of |-> pending.of]
  /\ UNCHANGED <<cli, hook, session, answer, misread, crossed>>

\* Whatever is pending by now is cleared.
clearPending ==
  /\ sweeper.pc = "clear" /\ sweeper' = [sweeper EXCEPT !.pc = "resolve"]
  /\ pending' = Nothing
  /\ UNCHANGED <<cli, hook, open, block, answer, misread, crossed>>

ResolveExpired ==
  /\ sweeper.pc = "resolve" /\ sweeper' = [pc |-> "idle", of |-> NoQ]
  /\ resolveApproval(sweeper.of)
  /\ UNCHANGED <<cli, hook, pending, answer, misread>>

------------------------------------------------------------------------------
\* Answers.

\* A block in the notebook with its buttons.
Visible(b) == block[b].shown /\ block[b].verdict = NoQ

\* Both handlers start answerViaPTY's goroutine: handleCellApprove if something is
\* pending, handleAgentAnswer, which records nothing, whatever there is.
Click(a, pc) ==
  /\ answer[a].pc = "idle"
  /\ answer' = [answer EXCEPT ![a] = [pc |-> pc, of |-> pending.of, keys |-> "primary"]]
  /\ UNCHANGED <<cli, hook, session, sweeper, misread, crossed>>

handleCellApprove(a) ==
  /\ pending # Nothing /\ \E b \in DOMAIN block : Visible(b)
  /\ Click(a, "resolve")

handleAgentAnswer(a) == Click(a, "done")

recordApprovalResolution(a) ==
  /\ answer[a].pc = "resolve"
  /\ answer' = [answer EXCEPT ![a].pc = "done"]
  /\ resolveApproval(answer[a].of)
  /\ UNCHANGED <<cli, hook, pending, sweeper, misread>>

\* Keystrokes are read by the dialog there is.
Type == dialog' \in {dialog, NoQ}

writePrimary(a) ==
  /\ answer[a].keys = "primary" /\ answer' = [answer EXCEPT ![a].keys = "sleeping"]
  /\ Type
  /\ UNCHANGED <<asked, posts, hook, session, sweeper, misread, crossed>>

\* A second and a half later, if anything is pending.
writeFallback(a) ==
  /\ answer[a].keys = "sleeping" /\ answer' = [answer EXCEPT ![a].keys = "done"]
  /\ IF pending # Nothing
       THEN Type /\ misread' = (misread \/ pending.of # answer[a].of)
       ELSE UNCHANGED <<dialog, misread>>
  /\ UNCHANGED <<asked, posts, hook, session, sweeper, crossed>>

------------------------------------------------------------------------------

Sweeping == Expire \/ Sweep \/ clearPending \/ ResolveExpired

Next ==
  \/ Ask \/ AnswerInTerminal
  \/ \E h \in Notifier :
       \/ Post(h) \/ clearPendingUnlessApproval(h) \/ setPending(h)
       \/ recordApprovalRequest(h) \/ recordApproval(h) \/ appendApproval(h)
  \/ Sweeping
  \/ \E a \in Answer :
       \/ handleCellApprove(a) \/ handleAgentAnswer(a) \/ recordApprovalResolution(a)
       \/ writePrimary(a) \/ writeFallback(a)

Spec == Init /\ [][Next]_vars

\* Time passes, and the sweeper ticks.
FairSpec == Spec /\ WF_vars(Sweeping)

------------------------------------------------------------------------------

\* Every variable has its type; a block that stands has no verdict.
TypeOK ==
  /\ asked \in 0..MaxAsked /\ dialog \in 0..asked /\ posts \in 0..MaxPosts
  /\ hook \in [Notifier -> [pc : {"idle", "clear", "set", "read", "record", "append"},
                            of : 0..MaxAsked, key : Key \cup {NoKey},
                            block : {NoBlock} \cup DOMAIN block]]
  /\ pending \in {Nothing} \cup [of : Question, key : Key, late : BOOLEAN]
  /\ block \in Seq([of : Question, key : Key, shown : BOOLEAN, verdict : 0..MaxAsked])
  /\ open \in {NoBlock} \cup DOMAIN block
  /\ open # NoBlock => block[open].verdict = NoQ
  /\ sweeper \in [pc : {"idle", "clear", "resolve"}, of : 0..MaxAsked]
  /\ answer \in [Answer -> [pc : {"idle", "resolve", "done"}, of : 0..MaxAsked,
                            keys : {"none", "primary", "sleeping", "done"}]]
  /\ misread \in BOOLEAN /\ crossed \in BOOLEAN

\* "A pending approval blocks sending, and the notebook now shows why"
\* (nb_approval_test.go:284-285): once its hook is done, a pending question that
\* nobody answered has a block with buttons, if only that of a question like it.
PendingIsVisible ==
  /\ pending # Nothing /\ ~crossed
  /\ \A h \in Notifier : hook[h].pc \notin {"read", "record", "append"}
  => \/ \E b \in DOMAIN block : Visible(b) /\ block[b].key = pending.key
     \/ \E b \in DOMAIN block : block[b].verdict = pending.of

\* "Without this the amber banner would stick forever" (startPendingSweeper): what is
\* pending is answered, replaced or swept away in the end.
BannerGoes == pending # Nothing ~> pending = Nothing


==============================================================================
