------------------------------ MODULE PolicyGate ------------------------------
(***************************************************************************)
(* The permission engine of a detached notebook: policy.go, and the        *)
(* handler that answers it, answerPolicyApproval of nb_approval.go.        *)
(*                                                                         *)
(* A run resolves its rules once (newPolicyGate).  Each tool call is       *)
(* decided by them: allowed, refused, or asked about.  An asked run blocks *)
(* on a question in the store's registry until a request answers it, the   *)
(* question expires, or the run is interrupted.  "Always" also adds a rule *)
(* to the machine's permissions file, by reading and rewriting all of it.  *)
(*                                                                         *)
(* A rule is a set of calls it matches (Covers); an ask rule decides what  *)
(* no rule decides too, so asks are left out.  A run asks one question at  *)
(* a time, so its n-th call is question <<run, n>>.                        *)
(***************************************************************************)
EXTENDS Naturals, Sequences, FiniteSets

CONSTANTS
  Run, Handler,     \* runs of prompt cells, and requests that answer them
  Call, Rule,
  NoRule,           \* no pattern can be proposed for a call
  Covers,           \* the calls each rule matches
  Chained,          \* shell commands no allow rule is tried on (shellChaining)
  Proposed,         \* proposeAlwaysRule
  Defaults,         \* the shipped policy
  OnDisk,           \* the policy in the permissions file at first
  Own,              \* the policies a notebook's meta may hold
  MaxCalls,         \* bound: calls of one run
  Garbled           \* a file that does not parse

Policy == [deny : SUBSET Rule, allow : SUBSET Rule]

ASSUME GateAssumption ==
  /\ NoRule \notin Rule /\ Garbled \notin Policy
  /\ Covers \in [Rule -> SUBSET Call]
  /\ Chained \subseteq Call
  /\ Proposed \in [Call -> Rule \cup {NoRule}]
  /\ Defaults \in Policy /\ OnDisk \in Policy /\ Own \subseteq Policy
  /\ MaxCalls \in Nat

VARIABLES
  file,       \* the permissions file: a policy, or Garbled
  open,       \* st.approvals: the questions that can be answered
  gate,       \* each run and the question it is blocked on
  outcome,    \* how each call ended
  request,    \* each answering request
  unsafe      \* history: a request read the file while another was rewriting it,
              \* or after one failed to

vars == <<file, open, gate, outcome, request, unsafe>>

Question == Run \X (1..MaxCalls)
Answer == {"approve", "deny", "always"}

------------------------------------------------------------------------------
\* Rules.

Matches(rules, call) == \E rule \in rules : call \in Covers[rule]

\* Mutant: an allow rule is looked for first.
decide_AllowFirst(policy, call) ==
  IF Matches(policy.allow, call) /\ call \notin Chained THEN "allow"
  ELSE IF Matches(policy.deny, call) THEN "deny" ELSE "ask"

decide(policy, call) ==
  IF Matches(policy.deny, call) THEN "deny"
  ELSE IF Matches(policy.allow, call) /\ call \notin Chained THEN "allow" ELSE "ask"

mergePolicy(global, notebook) ==
  [deny |-> global.deny \cup notebook.deny, allow |-> global.allow \cup notebook.allow]

\* A file that does not parse is the shipped defaults.
loadPolicyRules(f) == IF f = Garbled THEN Defaults ELSE f

------------------------------------------------------------------------------
\* The run's side.

NotStarted ==
  [pc |-> "idle", machine |-> Defaults, rules |-> Defaults, calls |-> <<>>,
   box |-> "none", stopped |-> FALSE, why |-> "none"]

Asking(r) == <<r, Len(gate[r].calls)>>

Init ==
  /\ file = OnDisk
  /\ open = {}
  /\ gate = [r \in Run |-> NotStarted]
  /\ outcome = [q \in Question |-> "none"]
  /\ request = [h \in Handler |-> [pc |-> "idle"]]
  /\ unsafe = FALSE

\* newPolicyGate: the rules are resolved once for the run.
newPolicyGate(r, own) ==
  /\ gate[r].pc = "idle"
  /\ LET machine == loadPolicyRules(file) IN
       gate' = [gate EXCEPT ![r].pc = "deciding", ![r].machine = machine,
                            ![r].rules = mergePolicy(machine, own)]
  /\ UNCHANGED <<file, open, outcome, request, unsafe>>

\* check: the call runs, is refused, or is put to a person (ask, openApproval).
check(r, call) ==
  /\ gate[r].pc = "deciding"
  /\ Len(gate[r].calls) < MaxCalls
  /\ LET q == <<r, Len(gate[r].calls) + 1>>
         verdict == decide(gate[r].rules, call)
         asked == [gate EXCEPT ![r].calls = Append(@, call)]
     IN  IF verdict = "ask"
         THEN /\ gate' = [asked EXCEPT ![r].pc = "waiting", ![r].box = "none"]
              /\ open' = open \cup {q}
              /\ UNCHANGED outcome
         ELSE /\ gate' = asked
              /\ outcome' = [outcome EXCEPT
                               ![q] = IF verdict = "allow" THEN "allowed" ELSE "refused"]
              /\ UNCHANGED open
  /\ UNCHANGED <<file, request, unsafe>>

Resolution(answer) ==
  CASE answer \in {"approve", "always"} -> "approved"
    [] answer = "deny"                  -> "denied"
    [] OTHER                            -> answer

Resolve(r, answer) ==
  /\ gate' = [gate EXCEPT ![r].pc = "deciding", ![r].box = "none"]
  /\ outcome' = [outcome EXCEPT ![Asking(r)] = Resolution(answer)]

\* wait, and giveUp once it has lost the question: the answer is taken.
TakeAnswer(r) ==
  /\ gate[r].pc \in {"waiting", "outrun"}
  /\ gate[r].box # "none"
  /\ Resolve(r, gate[r].box)
  /\ UNCHANGED <<file, open, request, unsafe>>

\* Mutant: questions do not expire.
StopWaiting_NoTimer(r, why) ==
  /\ gate[r].pc = "waiting"
  /\ why = "interrupted" /\ gate[r].stopped
  /\ gate' = [gate EXCEPT ![r].pc = "givingUp", ![r].why = why]
  /\ UNCHANGED <<file, open, outcome, request, unsafe>>

\* wait: the timer fires or the context is done.
StopWaiting(r, why) ==
  /\ gate[r].pc = "waiting"
  /\ why = "interrupted" => gate[r].stopped
  /\ gate' = [gate EXCEPT ![r].pc = "givingUp", ![r].why = why]
  /\ UNCHANGED <<file, open, outcome, request, unsafe>>

\* Mutants: the run gives up without asking who has the question; it leaves the
\* question open.
giveUp_Unclaimed(r) ==
  /\ gate[r].pc = "givingUp"
  /\ open' = open \ {Asking(r)}
  /\ Resolve(r, gate[r].why)
  /\ UNCHANGED <<file, request, unsafe>>
giveUp_LeavesOpen(r) ==
  /\ gate[r].pc = "givingUp"
  /\ Asking(r) \in open
  /\ Resolve(r, gate[r].why)
  /\ UNCHANGED <<file, open, request, unsafe>>

\* giveUp: claim the question back, unless a request took it first.
giveUp(r) ==
  /\ gate[r].pc = "givingUp"
  /\ IF Asking(r) \in open
     THEN /\ open' = open \ {Asking(r)}
          /\ Resolve(r, gate[r].why)
     ELSE /\ gate' = [gate EXCEPT ![r].pc = "outrun"]
          /\ UNCHANGED <<open, outcome>>
  /\ UNCHANGED <<file, request, unsafe>>

Interrupt(r) ==
  /\ gate[r].pc # "idle" /\ ~gate[r].stopped
  /\ gate' = [gate EXCEPT ![r].stopped = TRUE]
  /\ UNCHANGED <<file, open, outcome, request, unsafe>>

------------------------------------------------------------------------------
\* The request's side: answerPolicyApproval.

Become(h, pc) == request' = [request EXCEPT ![h].pc = pc]

CallOf(q) == gate[q[1]].calls[q[2]]

RuleFor(q) == Proposed[CallOf(q)]

\* Mutant: "always" is answered before its rule is written.
TakeQuestion_SendsFirst(h, q, answer) ==
  /\ request[h].pc = "idle"
  /\ q \in open
  /\ open' = open \ {q}
  /\ request' = [request EXCEPT
       ![h] = [pc |-> "sending", q |-> q, answer |-> answer, policy |-> Defaults]]
  /\ UNCHANGED <<file, gate, outcome, unsafe>>

\* takeApproval: a question is answered by one request only.
TakeQuestion(h, q, answer) ==
  /\ request[h].pc = "idle"
  /\ q \in open
  /\ open' = open \ {q}
  /\ request' = [request EXCEPT
       ![h] = [pc |-> IF answer = "always" THEN "reading" ELSE "sending",
               q |-> q, answer |-> answer, policy |-> Defaults]]
  /\ UNCHANGED <<file, gate, outcome, unsafe>>

PutBack(h) ==
  /\ open' = open \cup {request[h].q}
  /\ Become(h, "failed")
  /\ UNCHANGED <<file, gate, outcome, unsafe>>

\* "Always", for a call no pattern can be proposed for.
NothingToAllow(h) ==
  /\ request[h].pc = "reading" /\ RuleFor(request[h].q) = NoRule
  /\ PutBack(h)

Writing(h) == request[h].pc \in {"truncating", "writing"}

\* appendAllowRule reads the file: a rule it has already need not be written.
ReadRules(h) ==
  /\ request[h].pc = "reading" /\ RuleFor(request[h].q) # NoRule
  /\ LET policy == loadPolicyRules(file) IN
       request' = [request EXCEPT ![h].policy = policy,
         ![h].pc = IF RuleFor(request[h].q) \in policy.allow THEN "sending" ELSE "truncating"]
  /\ unsafe' = (unsafe \/ file = Garbled \/ \E other \in Handler : Writing(other))
  /\ UNCHANGED <<file, open, gate, outcome>>

\* ... os.WriteFile truncates it,
Truncate(h) ==
  /\ request[h].pc = "truncating"
  /\ file' = Garbled
  /\ Become(h, "writing")
  /\ UNCHANGED <<open, gate, outcome, unsafe>>

\* ... and writes what was read, with the rule.
WriteRules(h) ==
  /\ request[h].pc = "writing"
  /\ file' = [request[h].policy EXCEPT !.allow = @ \cup {RuleFor(request[h].q)}]
  /\ Become(h, "sending")
  /\ UNCHANGED <<open, gate, outcome, unsafe>>

WriteFails(h) ==
  /\ Writing(h)
  /\ PutBack(h)

\* The answer goes to the run, and the request succeeds.
SendAnswer(h) ==
  /\ request[h].pc = "sending"
  /\ gate[request[h].q[1]].box = "none"
  /\ gate' = [gate EXCEPT ![request[h].q[1]].box = request[h].answer]
  /\ Become(h, "ok")
  /\ UNCHANGED <<file, open, outcome, unsafe>>

Proceed(h) ==
  NothingToAllow(h) \/ ReadRules(h) \/ Truncate(h) \/ WriteRules(h) \/ SendAnswer(h)

Next ==
  \/ \E r \in Run :
       \/ \E own \in Own : newPolicyGate(r, own)
       \/ \E call \in Call : check(r, call)
       \/ \E why \in {"expired", "interrupted"} : StopWaiting(r, why)
       \/ TakeAnswer(r) \/ giveUp(r) \/ Interrupt(r)
  \/ \E h \in Handler :
       \/ \E q \in Question, answer \in Answer : TakeQuestion(h, q, answer)
       \/ Proceed(h) \/ WriteFails(h)

Spec == Init /\ [][Next]_vars

\* Timers fire, a cancelled context is noticed, and a request runs to its end.
Fairness ==
  /\ \A r \in Run : /\ WF_vars(TakeAnswer(r)) /\ WF_vars(giveUp(r))
                    /\ WF_vars(\E why \in {"expired", "interrupted"} : StopWaiting(r, why))
  /\ \A h \in Handler : WF_vars(Proceed(h))

FairSpec == Spec /\ Fairness

------------------------------------------------------------------------------

GateRecord ==
  [pc : {"idle", "deciding", "waiting", "givingUp", "outrun"},
   machine : Policy, rules : Policy, calls : Seq(Call), box : Answer \cup {"none"},
   stopped : BOOLEAN, why : {"none", "expired", "interrupted"}]

Request ==
  [pc : {"idle"}] \cup
  [pc : {"reading", "truncating", "writing", "sending", "ok", "failed"},
   q : Question, answer : Answer, policy : Policy]

\* Every variable has its type, and a question is on record with no outcome but
\* those the outputs of an approval can show.
TypeOK ==
  /\ file \in Policy \cup {Garbled}
  /\ open \subseteq Question
  /\ gate \in [Run -> GateRecord]
  /\ outcome \in [Question -> {"none", "allowed", "refused", "approved", "denied",
                               "expired", "interrupted"}]
  /\ request \in [Handler -> Request]
  /\ unsafe \in BOOLEAN

Answered(h, q) == request[h].pc = "ok" /\ request[h].q = q

\* A decision a person was told is taken is the one on record, and no other is:
\* "expired" is never recorded over a real answer, an approval never without
\* one, and no question is answered twice (giveUp, takeApproval).
AnswersStand ==
  \A q \in Question :
    /\ \A h, g \in Handler : Answered(h, q) /\ Answered(g, q) => h = g
    /\ \A h \in Handler : Answered(h, q) => outcome[q] \in {"none", Resolution(request[h].answer)}
    /\ outcome[q] \in {"approved", "denied"} => \E h \in Handler : Answered(h, q)

\* A question that can be answered is one its run is blocked on: no answer can
\* reach a later question or a run that has moved on, and an answer by cell
\* cannot find two ("a run blocks on one question at a time", takeApprovalForCell).
OpenIsAsked ==
  \A q \in open : /\ gate[q[1]].pc \in {"waiting", "givingUp", "outrun"}
                  /\ q = Asking(q[1])
                  /\ gate[q[1]].box = "none"

\* "A notebook cannot un-deny what the machine denies" (mergePolicy), nor can a
\* person asked about one call: no call ran that the policy its run loaded denied.
DeniedNeverRuns ==
  \A q \in Question :
    outcome[q] \in {"allowed", "approved"} =>
      ~Matches(gate[q[1]].machine.deny, gate[q[1]].calls[q[2]])

\* A question is answered, expires or is interrupted; none pins a run forever,
\* but for one: a question put back after its run gave up waiting is left open.
AsksResolve ==
  \A r \in Run :
    (gate[r].pc = "waiting")
      ~> (gate[r].pc = "deciding" \/ (gate[r].pc = "outrun" /\ Asking(r) \in open))

\* The rule "always" writes may be none the call passes by: allow rules are not for
\* chained commands, and bash(ls *) does not match ls.
RuleApplies(call) == call \notin Chained /\ call \in Covers[Proposed[call]]

\* "A user who chose always" does not get "once" (nb_approval.go:263-266): with the file
\* as it is no run asks about that call again, whatever its notebook's own policy.
\* Not so of a call its own rule does not apply to, nor once a request has read a
\* file that was not whole.
AlwaysIsNotAskedAgain ==
  file # Garbled /\ ~unsafe =>
    \A h \in Handler :
      request[h].pc = "ok" /\ request[h].answer = "always" =>
        LET call == CallOf(request[h].q) IN
        RuleApplies(call) => \A own \in Own : decide(mergePolicy(file, own), call) # "ask"

\* "A blocked question resolves as interrupted through the same path a user's
\* Stop button uses" (policy.go:625-629): an interrupted run is not left blocked.
InterruptedAskResolves ==
  \A r \in Run : (gate[r].stopped /\ gate[r].pc = "waiting") ~> (gate[r].pc = "deciding")

==============================================================================
