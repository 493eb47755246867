----------------------------- MODULE SessionLife -----------------------------
(***************************************************************************)
(* One agent session: its place in the registry, its process, its status   *)
(* and its budget (api.go, pty.go, session.go, hooks.go, costcap.go,       *)
(* prdetect.go).                                                           *)
(*                                                                         *)
(* The spawning request, the hooks the CLI posts, the goroutine that waits *)
(* for the process, the poller of pull requests and the requests to        *)
(* resume, review and delete all write the status, and signal the process, *)
(* without knowing of each other.  What a lock covers is one step, and so  *)
(* is a signal.                                                            *)
(*                                                                         *)
(* Abstractions.                                                           *)
(*  - A hook is the status its event sets ("touch" for those that only     *)
(*    touch the session, "pr" for a `gh pr create` that worked); its       *)
(*    prompt, approval and telemetry are left out.                         *)
(*  - Cost is a number.  The watcher that adds it up starts with the first *)
(*    hook and ticks twice a second, so no cost is known before the        *)
(*    process is published.  The warning at 80% is left out.               *)
(*  - There is one pull request.  What the dashboards are told is          *)
(*    Dashboard.                                                           *)
(*                                                                         *)
(* Three history variables say where the code leaves a window open:        *)
(*   "unseen"     DELETE found no process to signal, it was being spawned  *)
(*   "repainted"  a review or a pull request was written over the status   *)
(*                of a paused session, which can then not be resumed       *)
(*   "crossed"    a hook stopped the process while a request resumed it,   *)
(*                or for a cap that it had read before it was cleared      *)
(***************************************************************************)
EXTENDS Integers

CONSTANTS
  Hook,      \* requests of the CLI that may be served at a time
  Budget,    \* the session's cap; 0 for none
  MaxCost,   \* bound: what the session can spend
  MaxCalls,  \* bound: hooks, polls and requests of people
  Event,     \* what the CLI reports: the statuses its events set, "touch" and "pr"
  MaySpawn   \* outcomes of starting the CLI: TRUE that it works

VARIABLES
  registered,  \* the session is in the registry
  spawner,     \* handleAgents POST
  published,   \* s.Cmd and s.PTY are set
  process,     \* "none", "running", "frozen" by SIGSTOP, "ended"
  status, prURL, cap, cost,
  hook,        \* each hook's handler: where it is, its event, the status it read
  resumer, reviewer, poller, deleter, waiter,
  killTimer,   \* DELETE's three seconds
  calls,       \* calls so far
  over,        \* history: a hook found the cost at the cap
  unseen, repainted, crossed

threads == <<hook, resumer, reviewer, poller, deleter, waiter>>
windows == <<unseen, repainted, crossed>>
session == <<status, prURL, cap>>
vars == <<registered, spawner, published, process, session, cost, threads, killTimer,
          calls, over, windows>>

Paused == "paused_over_budget"
Idle == [pc |-> "idle", event |-> "none", saw |-> "none"]

Init ==
  /\ registered = FALSE /\ spawner = "idle" /\ published = FALSE /\ process = "none"
  /\ status = "starting" /\ prURL = FALSE /\ cap = Budget /\ cost = 0
  /\ hook = [h \in Hook |-> Idle]
  /\ resumer = "idle" /\ reviewer = "idle" /\ poller = "idle" /\ deleter = "idle"
  /\ waiter = "idle" /\ killTimer = FALSE /\ calls = 0
  /\ over = FALSE /\ unseen = FALSE /\ repainted = FALSE /\ crossed = FALSE

Call == calls < MaxCalls /\ calls' = calls + 1

\* What a review or a pull request writes, it writes over anything.
Repaints == repainted' = (repainted \/ status = Paused)

\* setStatus, by a writer whose place is the variable p.
setStatus(new) == status' = new /\ UNCHANGED <<prURL, cap>>

------------------------------------------------------------------------------
\* handleAgents POST and spawnSession.

Register ==
  /\ spawner = "idle"
  /\ spawner' = "starting" /\ registered' = TRUE
  /\ UNCHANGED <<published, process, session, cost, threads, killTimer, calls, over, windows>>

\* pty.Start
StartProcess(works) ==
  /\ spawner = "starting"
  /\ IF works
       THEN spawner' = "started" /\ process' = "running" /\ UNCHANGED registered
       ELSE spawner' = "failed" /\ registered' = FALSE /\ UNCHANGED process
  /\ UNCHANGED <<published, session, cost, threads, killTimer, calls, over, windows>>

\* The process is published and its reader started, which ends by waiting for it.
Publish ==
  /\ spawner = "started"
  /\ spawner' = "done" /\ published' = TRUE /\ waiter' = "waiting"
  /\ UNCHANGED <<registered, process, session, cost, hook, resumer, reviewer, poller,
                 deleter, killTimer, calls, over, windows>>

------------------------------------------------------------------------------
\* The CLI.

Spend ==
  /\ published /\ cost < MaxCost
  /\ cost' = cost + 1
  /\ UNCHANGED <<registered, spawner, published, process, session, threads, killTimer,
                 calls, over, windows>>

\* It ends by itself, or of a SIGTERM it does not ignore.
Exit ==
  /\ process = "running"
  /\ process' = "ended"
  /\ UNCHANGED <<registered, spawner, published, session, cost, threads, killTimer, calls,
                 over, windows>>

\* spawnSession's goroutine after its read loop.
ReportExit ==
  /\ waiter = "waiting" /\ process = "ended"
  /\ waiter' = "done"
  /\ \E end \in {"stopped", "error"} : setStatus(end)
  /\ UNCHANGED <<registered, spawner, published, process, cost, hook, resumer, reviewer,
                 poller, deleter, killTimer, calls, over, windows>>

------------------------------------------------------------------------------
\* handleHook.

\* Where a handler is, with what it still has to know there.
HookIs(h, pc) == hook' = [hook EXCEPT ![h] = [Idle EXCEPT !.pc = pc]]
HookEnds(h) == hook' = [hook EXCEPT ![h] = Idle]

HookArrives(h, event) ==
  /\ hook[h].pc = "idle" /\ Call
  /\ registered /\ process = "running"
  /\ hook' = [hook EXCEPT ![h] = [pc |-> "event", event |-> event, saw |-> "none"]]
  /\ UNCHANGED <<registered, spawner, published, process, session, cost, resumer, reviewer,
                 poller, deleter, waiter, killTimer, over, windows>>

\* The switch over events; a Bash result that opened a pull request goes on to mark it.
HandleEvent(h) ==
  /\ hook[h].pc = "event"
  /\ HookIs(h, IF hook[h].event = "pr" THEN "mark" ELSE "enforce")
  /\ CASE hook[h].event = "touch" -> UNCHANGED session
       [] hook[h].event = "pr" -> setStatus("running")
       [] OTHER -> setStatus(hook[h].event)
  /\ UNCHANGED <<registered, spawner, published, process, cost, resumer, reviewer, poller,
                 deleter, waiter, killTimer, calls, over, windows>>

\* markReviewReady
HookMarks(h) ==
  /\ hook[h].pc = "mark"
  /\ HookIs(h, IF prURL /\ status = "review_ready" THEN "enforce" ELSE "marked")
  /\ prURL' = TRUE
  /\ UNCHANGED <<registered, spawner, published, process, status, cap, cost, resumer,
                 reviewer, poller, deleter, waiter, killTimer, calls, over, windows>>

HookPaintsReview(h) ==
  /\ hook[h].pc = "marked"
  /\ HookIs(h, "enforce")
  /\ setStatus("review_ready")
  /\ UNCHANGED <<registered, spawner, published, process, cost, resumer, reviewer, poller,
                 deleter, waiter, killTimer, calls, over, windows>>

\* enforceCostCaps: the cap and the status under the lock,
ReadCap(h) ==
  /\ hook[h].pc = "enforce"
  /\ hook' = IF cap = 0
               THEN [hook EXCEPT ![h] = Idle]
               ELSE [hook EXCEPT ![h].pc = "weigh", ![h].saw = status]
  /\ UNCHANGED <<registered, spawner, published, process, session, cost, resumer, reviewer,
                 poller, deleter, waiter, killTimer, calls, over, windows>>

\* Mutant: an idle session is not spending.
Exceeds_UnlessIdle(saw) == cost >= Budget /\ saw \notin {Paused, "idle"}

\* Mutant: a session is paused once.
Exceeds_Once(saw) == cost >= Budget /\ ~over

Exceeds(saw) == cost >= Budget /\ saw # Paused

\* ... then the cost,
Weigh(h) ==
  /\ hook[h].pc = "weigh"
  /\ IF Exceeds(hook[h].saw) THEN HookIs(h, "freeze") ELSE HookEnds(h)
  /\ over' = (over \/ cost >= Budget)
  /\ UNCHANGED <<registered, spawner, published, process, session, cost, resumer, reviewer,
                 poller, deleter, waiter, killTimer, calls, windows>>

\* ... and pauseOverBudget: SIGSTOP if there is a process to stop,
Freeze(h) ==
  /\ hook[h].pc = "freeze"
  /\ HookIs(h, "pause")
  /\ process' = IF published /\ process = "running" THEN "frozen" ELSE process
  /\ crossed' = (crossed \/ resumer # "idle" \/ cap = 0)
  /\ UNCHANGED <<registered, spawner, published, session, cost, resumer, reviewer, poller,
                 deleter, waiter, killTimer, calls, over, unseen, repainted>>

Pause(h) ==
  /\ hook[h].pc = "pause"
  /\ HookEnds(h)
  /\ setStatus(Paused)
  /\ crossed' = (crossed \/ resumer # "idle")
  /\ UNCHANGED <<registered, spawner, published, process, cost, resumer, reviewer, poller,
                 deleter, waiter, killTimer, calls, over, unseen, repainted>>

Hooking(h) ==
  HandleEvent(h) \/ HookMarks(h) \/ HookPaintsReview(h) \/ ReadCap(h) \/ Weigh(h)
    \/ Freeze(h) \/ Pause(h)

------------------------------------------------------------------------------
\* handleAgentResume and resumeFromPause.

AskResume ==
  /\ resumer = "idle" /\ Call
  /\ registered /\ status = Paused
  /\ resumer' = "continue"
  /\ UNCHANGED <<registered, spawner, published, process, session, cost, hook, reviewer,
                 poller, deleter, waiter, killTimer, over, windows>>

\* SIGCONT.
Continue ==
  /\ resumer = "continue" /\ resumer' = "clear"
  /\ process' = IF published /\ process = "frozen" THEN "running" ELSE process
  /\ UNCHANGED <<registered, spawner, published, session, cost, hook, reviewer, poller,
                 deleter, waiter, killTimer, calls, over, windows>>

\* Mutant: the cap stays.
ClearCap_Keeps ==
  /\ resumer = "clear" /\ resumer' = "resumed"
  /\ UNCHANGED <<registered, spawner, published, process, session, cost, hook, reviewer,
                 poller, deleter, waiter, killTimer, calls, over, windows>>

ClearCap ==
  /\ resumer = "clear" /\ resumer' = "resumed"
  /\ cap' = 0
  /\ UNCHANGED <<registered, spawner, published, process, status, prURL, cost, hook,
                 reviewer, poller, deleter, waiter, killTimer, calls, over, windows>>

Resumed ==
  /\ resumer = "resumed" /\ resumer' = "idle"
  /\ setStatus("running")
  /\ UNCHANGED <<registered, spawner, published, process, cost, hook, reviewer, poller,
                 deleter, waiter, killTimer, calls, over, windows>>

\* handleAgentReviewed
AskReviewed ==
  /\ reviewer = "idle" /\ Call
  /\ registered
  /\ reviewer' = "cleared" /\ prURL' = FALSE
  /\ UNCHANGED <<registered, spawner, published, process, status, cap, cost, hook, resumer,
                 poller, deleter, waiter, killTimer, over, windows>>

Reviewed ==
  /\ reviewer = "cleared" /\ reviewer' = "idle"
  /\ setStatus("stopped") /\ Repaints
  /\ UNCHANGED <<registered, spawner, published, process, cost, hook, resumer, poller,
                 deleter, waiter, killTimer, calls, over, unseen, crossed>>

\* pollOneSession: eligible now, marked when git and gh have answered.
Poll ==
  /\ poller = "idle" /\ Call
  /\ registered /\ ~prURL /\ status \in {"idle", "stopped"}
  /\ poller' = "asking"
  /\ UNCHANGED <<registered, spawner, published, process, session, cost, hook, resumer,
                 reviewer, deleter, waiter, killTimer, over, windows>>

PollMarks ==
  /\ poller = "asking"
  /\ \/ poller' = "idle" /\ UNCHANGED prURL      \* no pull request
     \/ /\ poller' = IF prURL /\ status = "review_ready" THEN "idle" ELSE "marked"
        /\ prURL' = TRUE
  /\ UNCHANGED <<registered, spawner, published, process, status, cap, cost, hook, resumer,
                 reviewer, deleter, waiter, killTimer, calls, over, windows>>

PollPaintsReview ==
  /\ poller = "marked" /\ poller' = "idle"
  /\ setStatus("review_ready") /\ Repaints
  /\ UNCHANGED <<registered, spawner, published, process, cost, hook, resumer, reviewer,
                 deleter, waiter, killTimer, calls, over, unseen, crossed>>

------------------------------------------------------------------------------
\* handleAgentByID DELETE.

AskDelete ==
  /\ deleter = "idle" /\ Call
  /\ registered
  /\ deleter' = "found"
  /\ UNCHANGED <<registered, spawner, published, process, session, cost, hook, resumer,
                 reviewer, poller, waiter, killTimer, over, windows>>

\* SIGTERM, which a frozen process does not act upon, and three seconds.
Terminate ==
  /\ deleter = "found" /\ deleter' = "signalled"
  /\ killTimer' = published
  /\ unseen' = (unseen \/ ~published)
  /\ UNCHANGED <<registered, spawner, published, process, session, cost, hook, resumer,
                 reviewer, poller, waiter, calls, over, repainted, crossed>>

TellKilled ==
  /\ deleter = "signalled" /\ deleter' = "told"
  /\ setStatus("stopped")
  /\ UNCHANGED <<registered, spawner, published, process, cost, hook, resumer, reviewer,
                 poller, waiter, killTimer, calls, over, windows>>

\* removeSession
Remove ==
  /\ deleter = "told" /\ deleter' = "gone"
  /\ registered' = FALSE
  /\ UNCHANGED <<spawner, published, process, session, cost, hook, resumer, reviewer, poller,
                 waiter, killTimer, calls, over, windows>>

\* Mutant: the timer asks again instead of insisting.
Kill_Politely ==
  /\ killTimer /\ killTimer' = FALSE
  /\ \E end \in {process, "ended"} : process' = IF process = "running" THEN end ELSE process
  /\ UNCHANGED <<registered, spawner, published, session, cost, threads, calls, over, windows>>

\* Three seconds later: SIGKILL, if it is still there.
Kill ==
  /\ killTimer /\ killTimer' = FALSE
  /\ process' = "ended"
  /\ UNCHANGED <<registered, spawner, published, session, cost, threads, calls, over, windows>>

------------------------------------------------------------------------------

Server ==
  \/ \E works \in MaySpawn : StartProcess(works)
  \/ Publish \/ ReportExit \/ Kill
  \/ \E h \in Hook : Hooking(h)
  \/ Continue \/ ClearCap \/ Resumed \/ Reviewed
  \/ PollMarks \/ PollPaintsReview
  \/ Terminate \/ TellKilled \/ Remove

Next ==
  \/ Register \/ Spend \/ Exit
  \/ \E h \in Hook, event \in Event : HookArrives(h, event)
  \/ AskResume \/ AskReviewed \/ AskDelete \/ Poll
  \/ Server

Spec == Init /\ [][Next]_vars

\* The server's goroutines run and its timers fire; the CLI does as it pleases, and
\* nobody has to call.
FairSpec == Spec /\ WF_vars(Server)

------------------------------------------------------------------------------

Flags ==
  /\ registered \in BOOLEAN /\ published \in BOOLEAN /\ prURL \in BOOLEAN /\ killTimer \in BOOLEAN
  /\ over \in BOOLEAN /\ unseen \in BOOLEAN /\ repainted \in BOOLEAN /\ crossed \in BOOLEAN

Places ==
  /\ spawner \in {"idle", "starting", "started", "done", "failed"}
  /\ \A h \in Hook : hook[h].pc \in {"idle", "event", "mark", "marked", "enforce", "weigh",
                                      "freeze", "pause"}
  /\ resumer \in {"idle", "continue", "clear", "resumed"}
  /\ reviewer \in {"idle", "cleared"} /\ poller \in {"idle", "asking", "marked"}
  /\ deleter \in {"idle", "found", "signalled", "told", "gone"}
  /\ waiter \in {"idle", "waiting", "done"}

Amounts == cap \in {0, Budget} /\ cost \in 0..MaxCost /\ calls \in 0..MaxCalls

\* Every variable has its type; a session whose process is published has a reader.
TypeOK ==
  /\ Flags /\ Places /\ Amounts
  /\ process \in {"none", "running", "frozen", "ended"}
  /\ status \in {"starting", "running", "idle", "waiting_input", "error", "stopped",
                 "review_ready", Paused}
  /\ published <=> waiter # "idle"

\* No hook is being served and nobody is resuming the session.
Settled == resumer = "idle" /\ \A h \in Hook : hook[h].pc = "idle"

\* A session that a hook found over its budget does not run on, however the hooks'
\* status writes interleave ("pauses (SIGSTOP) when it exceeds 100%",
\* enforceCostCaps), until a person resumes it.
OverBudgetIsFrozen == Settled /\ over /\ cap > 0 => process # "running"

\* A frozen session reads as paused, which is the one status handleAgentResume
\* accepts: hooks that were still being served when it was frozen do not leave it
\* where nobody can wake it.
FrozenCanBeResumed ==
  Settled /\ reviewer = "idle" /\ poller = "idle" /\ deleter = "idle" /\ process = "frozen"
    => status = Paused \/ repainted \/ crossed

\* No process outlives its session: whatever it does with signals, and frozen or not,
\* the process of a session that was removed ends.
RemovedProcessEnds ==
  (spawner \in {"done", "failed"} /\ ~registered /\ ~unseen) ~> (process \in {"none", "ended"})

==============================================================================
