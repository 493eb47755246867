---------------------------- MODULE QuestionsProofs ----------------------------
(***************************************************************************)
(* Proofs about the questions behind one endpoint, for any number of runs, *)
(* requests, hooks and clicks.                                             *)
(*                                                                         *)
(* Of PolicyGate: a decision a person was told is taken is the one on      *)
(* record, whatever times out, is interrupted or is put back; what the     *)
(* machine denies does not run; what is always allowed stays written.  A   *)
(* question has at every moment one owner: the registry, the one request   *)
(* that took it, or the run, which has its answer or has claimed it back.  *)
(* That is the inductive invariant of the first; the other two have their  *)
(* own, further below.                                                     *)
(*                                                                         *)
(* Of SessionPrompts, below these: a pending question that nobody answered *)
(* can be seen in the notebook.  Then of the two together.                 *)
(***************************************************************************)
EXTENDS MCQuestions, SequenceTheorems, TLAPS

Blocked(r) == gate[r].pc \in {"waiting", "givingUp", "outrun"}

Holding(h) == request[h].pc \in {"reading", "truncating", "writing", "sending"}

Ok(h) == request[h].pc = "ok"

\* A request that took a question has it alone, and the run still waits for it.
HeldIsAsked ==
  \A h \in Handler : Holding(h) =>
    LET q == request[h].q IN
      /\ q \notin open
      /\ Blocked(q[1]) /\ q = Asking(q[1]) /\ gate[q[1]].box = "none"
      /\ \A g \in Handler : Holding(g) /\ request[g].q = q => g = h

\* What a request answered was a call its run made, and its answer is on record
\* or on its way there.
AnswerArrives ==
  \A h \in Handler : Ok(h) =>
    LET q == request[h].q IN
      /\ q[2] <= Len(gate[q[1]].calls)
      /\ \/ outcome[q] = Resolution(request[h].answer)
         \/ /\ Blocked(q[1]) /\ q = Asking(q[1])
            /\ gate[q[1]].box = request[h].answer

\* An answer on its way was given by a request.
BoxIsAnswered ==
  \A r \in Run : gate[r].box # "none" =>
    /\ Blocked(r)
    /\ \E h \in Handler : Answered(h, Asking(r)) /\ request[h].answer = gate[r].box

\* No question has two answers.
AnsweredOnce ==
  \A h, g \in Handler : Ok(h) /\ Ok(g) /\ request[h].q = request[g].q => h = g

\* A decision on record was taken by somebody.
DecidedByAnswer ==
  \A q \in Question :
    outcome[q] \in {"approved", "denied"} => \E h \in Handler : Answered(h, q)

\* A call that has not been decided has no outcome.
Undecided ==
  \A q \in Question :
    \/ q[2] > Len(gate[q[1]].calls)
    \/ Blocked(q[1]) /\ q = Asking(q[1])
    => outcome[q] = "none"

\* A rule that is being written is a rule.
RulesProposed ==
  \A h \in Handler : Writing(h) => RuleFor(request[h].q) \in Rule

\* A run that gives up knows why.
GaveReason ==
  \A r \in Run : gate[r].pc = "givingUp" => gate[r].why \in {"expired", "interrupted"}

Counted ==
  \A r \in Run : /\ Len(gate[r].calls) <= MaxCalls
                 /\ Blocked(r) => Len(gate[r].calls) > 0

IInv ==
  /\ TypeOK /\ Counted /\ GaveReason /\ RulesProposed
  /\ OpenIsAsked /\ HeldIsAsked /\ BoxIsAnswered
  /\ AnswerArrives /\ AnsweredOnce /\ DecidedByAnswer /\ Undecided

USE GateAssumption

------------------------------------------------------------------------------

\* What is recorded for an answer is an outcome.
LEMMA Resolutions ==
  /\ \A a \in Answer : a # "none" /\ Resolution(a) \in {"approved", "denied"}
  /\ \A why \in {"expired", "interrupted"} : Resolution(why) = why
  BY DEF Answer, Resolution

\* Nothing is asked at first.
LEMMA InitInv == Init => IInv
<1> SUFFICES ASSUME Init PROVE IInv OBVIOUS
<1> USE DEF Init, NotStarted, Blocked, Holding, Ok, Writing
<1>1. gate \in [Run -> GateRecord] BY DEF GateRecord, Answer
<1>2. TypeOK BY <1>1 DEF TypeOK, Request, Question
<1>3. Counted /\ GaveReason BY DEF Counted, GaveReason
<1>4. BoxIsAnswered BY DEF BoxIsAnswered
<1>5. Undecided /\ DecidedByAnswer BY DEF Undecided, DecidedByAnswer
<1>6. OpenIsAsked BY DEF OpenIsAsked
<1>7. HeldIsAsked /\ AnswerArrives /\ AnsweredOnce /\ RulesProposed
  BY DEF HeldIsAsked, AnswerArrives, AnsweredOnce, RulesProposed
<1> QED BY <1>2, <1>3, <1>4, <1>5, <1>6, <1>7 DEF IInv

\* A step of the run that only tells it to stop, or how far it is.
LEMMA Still ==
  ASSUME IInv, UNCHANGED <<file, open, outcome, request, unsafe>>,
         gate' \in [Run -> GateRecord], GaveReason',
         \A r \in Run : /\ Blocked(r)' <=> Blocked(r)
                       /\ gate'[r].calls = gate[r].calls
                       /\ gate'[r].box = gate[r].box
  PROVE  IInv'
<1> USE DEF IInv
<1>1. TypeOK' BY DEF TypeOK
<1>2. \A r \in Run : Asking(r)' = Asking(r) BY DEF Asking
<1>3. \A h \in Handler :
        request[h].pc # "idle" => request[h].q \in Question /\ request[h].q[1] \in Run
  BY DEF TypeOK, Request, Question
<1>4. Counted' BY DEF Counted
<1>5. OpenIsAsked' BY <1>2 DEF OpenIsAsked, Blocked, TypeOK, Question
<1>6. HeldIsAsked' BY <1>2, <1>3 DEF HeldIsAsked, Holding, Blocked
<1>7. BoxIsAnswered' BY <1>2 DEF BoxIsAnswered, Answered
<1>8. AnswerArrives' BY <1>2, <1>3 DEF AnswerArrives, Ok, Blocked
<1>9. AnsweredOnce' BY DEF AnsweredOnce, Ok
<1>10. DecidedByAnswer' BY DEF DecidedByAnswer, Answered
<1>11. Undecided' BY <1>2 DEF Undecided, Question, Blocked
<1>12. RulesProposed' BY <1>3 DEF RulesProposed, Writing, RuleFor, CallOf
<1> QED BY <1>1, <1>4, <1>5, <1>6, <1>7, <1>8, <1>9, <1>10, <1>11, <1>12

\* A run's record, updated field by field, is one.
LEMMA GateTyped ==
  ASSUME IInv, NEW r \in Run
  PROVE  /\ gate[r] \in GateRecord
         /\ Len(gate[r].calls) \in Nat
         /\ Blocked(r) => Asking(r) \in Question
<1>1. gate[r] \in GateRecord BY DEF IInv, TypeOK
<1>2. gate[r].calls \in Seq(Call) BY <1>1 DEF GateRecord
<1>3. Len(gate[r].calls) \in Nat BY <1>2
<1>4. Blocked(r) => Asking(r) \in Question
  BY <1>3 DEF IInv, Counted, Asking, Question
<1> QED BY <1>1, <1>3, <1>4

\* newPolicyGate.
LEMMA StartInv ==
  ASSUME IInv, NEW r \in Run, NEW own \in Own, newPolicyGate(r, own) PROVE IInv'
<1> DEFINE machine == loadPolicyRules(file)
           rec == [gate[r] EXCEPT !.pc = "deciding", !.machine = machine,
                                  !.rules = mergePolicy(machine, own)]
<1>1. machine \in Policy BY DEF loadPolicyRules, IInv, TypeOK
<1>2. mergePolicy(machine, own) \in Policy BY <1>1 DEF mergePolicy, Policy
<1>3. gate[r] \in GateRecord /\ gate \in [Run -> GateRecord] BY DEF IInv, TypeOK
<1>4. gate' = [gate EXCEPT ![r] = rec] BY <1>3 DEF newPolicyGate
<1> HIDE DEF machine
<1>5. /\ rec \in GateRecord /\ rec.pc = "deciding"
      /\ rec.calls = gate[r].calls /\ rec.box = gate[r].box
  BY <1>1, <1>2, <1>3 DEF GateRecord
<1> HIDE DEF rec
<1>6. gate' \in [Run -> GateRecord] BY <1>3, <1>4, <1>5
<1>7. gate'[r] = rec /\ \A s \in Run : s # r => gate'[s] = gate[s] BY <1>3, <1>4
<1> QED BY <1>5, <1>6, <1>7, Still DEF newPolicyGate, Blocked, IInv, GaveReason

\* wait, given up.
LEMMA StopWaitingInv ==
  ASSUME IInv, NEW r \in Run, NEW why \in {"expired", "interrupted"}, StopWaiting(r, why)
  PROVE  IInv'
<1> DEFINE rec == [gate[r] EXCEPT !.pc = "givingUp", !.why = why]
<1>1. gate[r] \in GateRecord /\ gate \in [Run -> GateRecord] BY DEF IInv, TypeOK
<1>2. gate' = [gate EXCEPT ![r] = rec] BY <1>1 DEF StopWaiting
<1>3. /\ rec \in GateRecord /\ rec.pc = "givingUp" /\ rec.why = why
      /\ rec.calls = gate[r].calls /\ rec.box = gate[r].box
  BY <1>1 DEF GateRecord
<1> HIDE DEF rec
<1>4. gate' \in [Run -> GateRecord] BY <1>1, <1>2, <1>3
<1>5. gate'[r] = rec /\ \A s \in Run : s # r => gate'[s] = gate[s] BY <1>1, <1>2
<1> QED BY <1>3, <1>4, <1>5, Still DEF StopWaiting, Blocked, IInv, GaveReason

\* The stop button only marks the run.
LEMMA InterruptInv == ASSUME IInv, NEW r \in Run, Interrupt(r) PROVE IInv'
<1> DEFINE rec == [gate[r] EXCEPT !.stopped = TRUE]
<1>1. gate[r] \in GateRecord /\ gate \in [Run -> GateRecord] BY DEF IInv, TypeOK
<1>2. gate' = [gate EXCEPT ![r] = rec] BY <1>1 DEF Interrupt
<1>3. /\ rec \in GateRecord /\ rec.pc = gate[r].pc /\ rec.why = gate[r].why
      /\ rec.calls = gate[r].calls /\ rec.box = gate[r].box
  BY <1>1 DEF GateRecord
<1> HIDE DEF rec
<1>4. gate' \in [Run -> GateRecord] BY <1>1, <1>2, <1>3
<1>5. gate'[r] = rec /\ \A s \in Run : s # r => gate'[s] = gate[s] BY <1>1, <1>2
<1> QED BY <1>3, <1>4, <1>5, Still DEF Interrupt, Blocked, IInv, GaveReason

\* A blocked run whose question has ended: it decides again.
LEMMA ResolveGate ==
  ASSUME IInv, NEW r \in Run, NEW decision \in Answer \cup {"expired", "interrupted"},
         Resolve(r, decision), Blocked(r)
  PROVE  /\ gate' \in [Run -> GateRecord]
         /\ gate'[r].pc = "deciding" /\ gate'[r].box = "none"
         /\ gate'[r].calls = gate[r].calls
         /\ \A s \in Run : s # r => gate'[s] = gate[s]
         /\ outcome' = [outcome EXCEPT ![Asking(r)] = Resolution(decision)]
<1> DEFINE rec == [gate[r] EXCEPT !.pc = "deciding", !.box = "none"]
<1>1. gate[r] \in GateRecord /\ gate \in [Run -> GateRecord] BY DEF IInv, TypeOK
<1>2. gate' = [gate EXCEPT ![r] = rec] BY <1>1 DEF Resolve
<1>3. /\ rec \in GateRecord /\ rec.pc = "deciding" /\ rec.box = "none"
      /\ rec.calls = gate[r].calls
  BY <1>1 DEF GateRecord
<1> HIDE DEF rec
<1> QED BY <1>1, <1>2, <1>3 DEF Resolve

\* ... which keeps the invariant when nobody else has the question, and its
\* outcome is the answer of whoever answered it.
LEMMA ResolveInv ==
  ASSUME IInv, NEW r \in Run, NEW decision \in Answer \cup {"expired", "interrupted"},
         Resolve(r, decision), Blocked(r), UNCHANGED <<file, request, unsafe>>,
         open' = open \ {Asking(r)},
         \A h \in Handler : ~(Holding(h) /\ request[h].q = Asking(r)),
         \A h \in Handler : Answered(h, Asking(r)) => request[h].answer = decision,
         decision \in Answer => \E h \in Handler : Answered(h, Asking(r))
  PROVE  IInv'
<1> USE DEF IInv
<1> DEFINE q == Asking(r)
<1>1. /\ gate' \in [Run -> GateRecord]
      /\ gate'[r].pc = "deciding" /\ gate'[r].box = "none"
      /\ gate'[r].calls = gate[r].calls
      /\ \A s \in Run : s # r => gate'[s] = gate[s]
      /\ outcome' = [outcome EXCEPT ![q] = Resolution(decision)]
  BY ResolveGate
<1>2. q \in Question /\ q[1] = r BY GateTyped DEF Asking
<1>3. \A s \in Run : Asking(s)' = Asking(s) BY <1>1 DEF Asking
<1>4. \A s \in Run : s # r => (Blocked(s)' <=> Blocked(s)) BY <1>1 DEF Blocked
<1>5. ~Blocked(r)' BY <1>1 DEF Blocked
<1>6. \A h \in Handler :
        request[h].pc # "idle" => request[h].q \in Question /\ request[h].q[1] \in Run
  BY DEF TypeOK, Request, Question
<1>7. outcome'[q] = Resolution(decision)
      /\ \A p \in Question : p # q => outcome'[p] = outcome[p]
  BY <1>1, <1>2 DEF TypeOK
<1>8. Resolution(decision) \in {"approved", "denied", "expired", "interrupted"}
  BY Resolutions
<1> HIDE DEF q
<1>9. TypeOK' BY <1>1, <1>2, <1>8 DEF TypeOK, q
<1>10. Counted' /\ GaveReason' BY <1>1, <1>4, <1>5 DEF Counted, GaveReason
<1>11. RulesProposed' BY <1>1, <1>6 DEF RulesProposed, Writing, RuleFor, CallOf
<1>12. OpenIsAsked'
  <2> SUFFICES ASSUME NEW p \in open'
        PROVE  /\ gate'[p[1]].pc \in {"waiting", "givingUp", "outrun"}
               /\ p = Asking(p[1])' /\ gate'[p[1]].box = "none"
    BY DEF OpenIsAsked
  <2>1. p \in open /\ p # q /\ p[1] \in Run BY DEF TypeOK, Question, q
  <2>2. p = Asking(p[1]) BY <2>1 DEF OpenIsAsked
  <2>3. p[1] # r BY <2>1, <2>2 DEF q
  <2> QED BY <2>1, <2>3, <1>1, <1>3 DEF OpenIsAsked
<1>13. HeldIsAsked'
  <2> SUFFICES ASSUME NEW h \in Handler, Holding(h)
        PROVE  LET p == request[h].q IN
                 /\ p \notin open'
                 /\ Blocked(p[1])' /\ p = Asking(p[1])' /\ gate'[p[1]].box = "none"
                 /\ \A g \in Handler : Holding(g) /\ request[g].q = p => g = h
    BY DEF HeldIsAsked, Holding
  <2>1. request[h].q[1] \in Run /\ request[h].q # q BY <1>6 DEF Holding, q
  <2>2. request[h].q[1] # r BY <2>1 DEF HeldIsAsked, q
  <2> QED BY <2>1, <2>2, <1>1, <1>3, <1>4 DEF HeldIsAsked
<1>14. BoxIsAnswered' BY <1>1, <1>3, <1>4 DEF BoxIsAnswered, Answered
<1>15. AnswerArrives'
  <2> SUFFICES ASSUME NEW h \in Handler, Ok(h)
        PROVE  LET p == request[h].q IN
                 /\ p[2] <= Len(gate'[p[1]].calls)
                 /\ \/ outcome'[p] = Resolution(request[h].answer)
                    \/ /\ Blocked(p[1])' /\ p = Asking(p[1])'
                       /\ gate'[p[1]].box = request[h].answer
    BY DEF AnswerArrives, Ok
  <2>1. request[h].q[1] \in Run /\ request[h].q \in Question BY <1>6 DEF Ok
  <2>2. CASE request[h].q = q
    BY <2>1, <2>2, <1>1, <1>2, <1>7 DEF AnswerArrives, Answered, Ok, q
  <2>3. CASE request[h].q # q
    <3>1. outcome'[request[h].q] = outcome[request[h].q] BY <2>1, <2>3, <1>7
    <3>2. ~(Blocked(request[h].q[1]) /\ request[h].q = Asking(request[h].q[1])
            /\ request[h].q[1] = r)
      BY <2>3 DEF q
    <3> QED BY <2>1, <3>1, <3>2, <1>1, <1>3, <1>4 DEF AnswerArrives
  <2> QED BY <2>2, <2>3
<1>16. AnsweredOnce' BY DEF AnsweredOnce, Ok
<1>17. DecidedByAnswer'
  <2> SUFFICES ASSUME NEW p \in Question, outcome'[p] \in {"approved", "denied"}
        PROVE  \E h \in Handler : Answered(h, p)
    BY DEF DecidedByAnswer, Answered
  <2>1. CASE p = q
    <3>1. decision \in Answer BY <2>1, <1>7, Resolutions
    <3> QED BY <2>1, <3>1 DEF q
  <2>2. CASE p # q BY <2>2, <1>7 DEF DecidedByAnswer
  <2> QED BY <2>1, <2>2
<1>18. Undecided'
  <2> SUFFICES ASSUME NEW p \in Question,
                 \/ p[2] > Len(gate'[p[1]].calls)
                 \/ Blocked(p[1])' /\ p = Asking(p[1])'
        PROVE  outcome'[p] = "none"
    BY DEF Undecided
  <2>1. p[1] \in Run BY DEF Question
  <2>2. p # q BY <2>1, <1>1, <1>2, <1>5, GateTyped DEF q, Asking
  <2>3. outcome[p] = "none" BY <2>1, <1>1, <1>3, <1>4, <1>5 DEF Undecided
  <2> QED BY <2>2, <2>3, <1>7
<1> QED BY <1>9, <1>10, <1>11, <1>12, <1>13, <1>14, <1>15, <1>16, <1>17, <1>18

\* An answer in the box is the one its request was told is taken.
LEMMA TakeAnswerInv == ASSUME IInv, NEW r \in Run, TakeAnswer(r) PROVE IInv'
<1> USE DEF IInv
<1>1. Blocked(r) /\ gate[r].box \in Answer
  BY GateTyped DEF TakeAnswer, Blocked, GateRecord
<1>2. Asking(r) \notin open BY DEF OpenIsAsked, TakeAnswer, Asking
<1>3. ASSUME NEW h \in Handler, Holding(h), request[h].q = Asking(r) PROVE FALSE
  <2>1. request[h].q[1] = r BY <1>3 DEF Asking
  <2> QED BY <2>1, <1>3 DEF HeldIsAsked, TakeAnswer
<1>4. PICK g \in Handler : Answered(g, Asking(r)) /\ request[g].answer = gate[r].box
  BY DEF BoxIsAnswered, TakeAnswer
<1>5. ASSUME NEW h \in Handler, Answered(h, Asking(r)) PROVE request[h].answer = gate[r].box
  <2>1. h = g BY <1>4, <1>5 DEF AnsweredOnce, Answered, Ok
  <2> QED BY <2>1, <1>4
<1> HIDE DEF IInv
<1> QED BY <1>1, <1>2, <1>3, <1>4, <1>5, ResolveInv DEF TakeAnswer

\* giveUp records its own end only if no request has the question.
LEMMA GiveUpInv == ASSUME IInv, NEW r \in Run, giveUp(r) PROVE IInv'
<1>1. Blocked(r) BY DEF giveUp, Blocked
<1>2. gate[r] \in GateRecord /\ gate \in [Run -> GateRecord] BY DEF IInv, TypeOK
<1>3. CASE Asking(r) \in open
  <2>1. gate[r].why \in {"expired", "interrupted"}
    BY <1>2, <1>3 DEF IInv, GaveReason, giveUp
  <2>2. ASSUME NEW h \in Handler PROVE ~(Holding(h) /\ request[h].q = Asking(r))
    BY <1>3 DEF IInv, HeldIsAsked
  <2>3. ASSUME NEW h \in Handler, Answered(h, Asking(r)) PROVE FALSE
    <3>1. request[h].q = Asking(r) /\ request[h].q[1] = r /\ Ok(h)
      BY <2>3 DEF Answered, Ok, Asking
    <3>2. request[h].answer \in Answer BY <3>1 DEF IInv, TypeOK, Request, Ok
    <3>3. outcome[Asking(r)] = "none" BY <1>1, <3>1, GateTyped DEF IInv, Undecided
    <3>4. gate[r].box = "none" BY <1>3, <3>1 DEF IInv, OpenIsAsked
    <3> QED BY <3>1, <3>2, <3>3, <3>4, Resolutions DEF IInv, AnswerArrives
  <2>4. gate[r].why \notin Answer BY <2>1 DEF Answer
  <2>5. Resolve(r, gate[r].why) /\ open' = open \ {Asking(r)} /\ UNCHANGED <<file, request, unsafe>>
    BY <1>3 DEF giveUp
  <2> QED BY <1>1, <2>1, <2>2, <2>3, <2>4, <2>5, ResolveInv
<1>4. CASE Asking(r) \notin open
  <2> DEFINE rec == [gate[r] EXCEPT !.pc = "outrun"]
  <2>1. gate' = [gate EXCEPT ![r] = rec] BY <1>2, <1>4 DEF giveUp
  <2>2. /\ rec \in GateRecord /\ rec.pc = "outrun"
        /\ rec.calls = gate[r].calls /\ rec.box = gate[r].box
    BY <1>2 DEF GateRecord
  <2> HIDE DEF rec
  <2>3. gate' \in [Run -> GateRecord] BY <1>2, <2>1, <2>2
  <2>4. gate'[r] = rec /\ \A s \in Run : s # r => gate'[s] = gate[s] BY <1>2, <2>1
  <2> QED BY <1>1, <1>4, <2>2, <2>3, <2>4, Still DEF giveUp, Blocked, IInv, GaveReason
<1> QED BY <1>3, <1>4

\* A call that is decided without asking, and one that is asked about.
\* A call is a new question, and no request has it.
LEMMA CheckInv == ASSUME IInv, NEW r \in Run, NEW call \in Call, check(r, call) PROVE IInv'
<1> USE DEF IInv
<1> DEFINE n == Len(gate[r].calls)
           q == <<r, n + 1>>
           ask == decide(gate[r].rules, call) = "ask"
           rec == IF ask
                  THEN [gate[r] EXCEPT !.calls = Append(@, call), !.pc = "waiting", !.box = "none"]
                  ELSE [gate[r] EXCEPT !.calls = Append(@, call)]
           verdict == IF decide(gate[r].rules, call) = "allow" THEN "allowed" ELSE "refused"
<1>1. gate[r] \in GateRecord /\ gate \in [Run -> GateRecord] BY DEF TypeOK
<1>2. gate[r].calls \in Seq(Call) /\ n \in Nat /\ n < MaxCalls BY <1>1 DEF GateRecord, check
<1>3. /\ rec \in GateRecord
      /\ rec.pc = (IF ask THEN "waiting" ELSE "deciding")
      /\ rec.box = (IF ask THEN "none" ELSE gate[r].box)
      /\ rec.calls = Append(gate[r].calls, call)
  <2>1. gate[r].pc = "deciding" /\ Append(gate[r].calls, call) \in Seq(Call)
    BY <1>2 DEF check
  <2> HIDE DEF ask
  <2>2. CASE ask BY <2>1, <2>2, <1>1 DEF GateRecord
  <2>3. CASE ~ask BY <2>1, <2>3, <1>1 DEF GateRecord
  <2> QED BY <2>2, <2>3
<1>4. Len(rec.calls) = n + 1 /\ \A i \in 1..n : rec.calls[i] = gate[r].calls[i]
  BY <1>2, <1>3
<1>5. gate' = [gate EXCEPT ![r] = rec] BY <1>1 DEF check
<1>6. outcome' = (IF ask THEN outcome ELSE [outcome EXCEPT ![q] = verdict])
      /\ open' = (IF ask THEN open \cup {q} ELSE open)
  BY DEF check
<1>7. q \in Question /\ q[1] = r /\ q[2] = n + 1 BY <1>2 DEF Question
<1>8. gate'[r] = rec /\ \A s \in Run : s # r => gate'[s] = gate[s] BY <1>1, <1>5
<1>9. ~Blocked(r) /\ gate[r].pc = "deciding" BY DEF check, Blocked
<1>10. gate[r].box = "none" BY <1>9 DEF BoxIsAnswered
<1>11. UNCHANGED <<file, request, unsafe>> BY DEF check
<1>12. \A h \in Handler : request[h].pc # "idle" =>
          request[h].q \in Question /\ request[h].q[1] \in Run /\ request[h].q[2] \in Nat
  BY DEF TypeOK, Request, Question
<1>13. \A p \in Question : p # q => outcome'[p] = outcome[p] BY <1>6, <1>7 DEF TypeOK
<1>14. outcome'[q] \in {outcome[q], "allowed", "refused"} BY <1>6, <1>7 DEF TypeOK
<1>15. outcome[q] = "none" BY <1>2, <1>7 DEF Undecided
<1>16. \A s \in Run : s # r => (Blocked(s)' <=> Blocked(s)) /\ Asking(s)' = Asking(s)
  BY <1>8 DEF Blocked, Asking
<1>17. Asking(r)' = q /\ (Blocked(r)' <=> ask) BY <1>3, <1>4, <1>8 DEF Blocked, Asking
<1>18. gate'[r].box = "none" BY <1>3, <1>8, <1>10
<1>19. gate'[r].calls = rec.calls BY <1>8
<1>20. ask => outcome'[q] = "none" BY <1>6, <1>15
<1>21. gate'[r].pc # "givingUp" BY <1>3, <1>8
<1>22. ask => gate'[r].pc = "waiting" BY <1>3, <1>8
<1> HIDE DEF rec, verdict, q, ask
<1>23. TypeOK'
  <2>1. gate' \in [Run -> GateRecord] BY <1>1, <1>3, <1>5
  <2>2. open' \subseteq Question BY <1>6, <1>7 DEF TypeOK
  <2>3. outcome' \in [Question -> {"none", "allowed", "refused", "approved", "denied",
                                   "expired", "interrupted"}]
    BY <1>6 DEF TypeOK, verdict
  <2> QED BY <2>1, <2>2, <2>3, <1>11 DEF TypeOK
<1>24. Counted' /\ GaveReason'
  BY <1>2, <1>4, <1>8, <1>16, <1>17, <1>19, <1>21 DEF Counted, GaveReason
<1>25. RulesProposed'
  <2> SUFFICES ASSUME NEW h \in Handler, Writing(h)
        PROVE  Proposed[gate'[request[h].q[1]].calls[request[h].q[2]]] \in Rule
    BY <1>11 DEF RulesProposed, Writing, RuleFor, CallOf
  <2>1. Blocked(request[h].q[1]) BY DEF HeldIsAsked, Holding, Writing
  <2>2. request[h].q[1] \in Run /\ request[h].q[1] # r BY <2>1, <1>9, <1>12 DEF Writing
  <2> QED BY <2>2, <1>8 DEF RulesProposed, RuleFor, CallOf
<1>26. OpenIsAsked'
  <2> SUFFICES ASSUME NEW p \in open'
        PROVE  /\ gate'[p[1]].pc \in {"waiting", "givingUp", "outrun"}
               /\ p = Asking(p[1])' /\ gate'[p[1]].box = "none"
    BY DEF OpenIsAsked
  <2>1. CASE p \in open
    <3>1. p[1] \in Run /\ Blocked(p[1]) BY <2>1 DEF TypeOK, Question, OpenIsAsked, Blocked
    <3>2. p[1] # r BY <3>1, <1>9
    <3> QED BY <2>1, <3>1, <3>2, <1>8, <1>16 DEF OpenIsAsked
  <2>2. CASE p \notin open
    <3>1. p = q /\ ask BY <2>2, <1>6
    <3> QED BY <3>1, <1>7, <1>17, <1>18, <1>22
  <2> QED BY <2>1, <2>2
<1>27. HeldIsAsked'
  <2> SUFFICES ASSUME NEW h \in Handler, Holding(h)
        PROVE  LET p == request[h].q IN
                 /\ p \notin open'
                 /\ Blocked(p[1])' /\ p = Asking(p[1])' /\ gate'[p[1]].box = "none"
                 /\ \A g \in Handler : Holding(g) /\ request[g].q = p => g = h
    BY <1>11 DEF HeldIsAsked, Holding
  <2>1. Blocked(request[h].q[1]) BY DEF HeldIsAsked
  <2>2. request[h].q[1] \in Run /\ request[h].q[1] # r BY <2>1, <1>9, <1>12 DEF Holding
  <2>3. request[h].q \notin open' BY <2>2, <1>6, <1>7 DEF HeldIsAsked
  <2>4. gate'[request[h].q[1]] = gate[request[h].q[1]]
        /\ Asking(request[h].q[1])' = Asking(request[h].q[1])
        /\ Blocked(request[h].q[1])'
    BY <2>1, <2>2, <1>8, <1>11, <1>16
  <2> QED BY <2>3, <2>4 DEF HeldIsAsked
<1>28. BoxIsAnswered'
  BY <1>8, <1>11, <1>16, <1>18 DEF BoxIsAnswered, Answered
<1>29. AnswerArrives'
  <2> SUFFICES ASSUME NEW h \in Handler, Ok(h)
        PROVE  LET p == request[h].q IN
                 /\ p[2] <= Len(gate'[p[1]].calls)
                 /\ \/ outcome'[p] = Resolution(request[h].answer)
                    \/ /\ Blocked(p[1])' /\ p = Asking(p[1])'
                       /\ gate'[p[1]].box = request[h].answer
    BY <1>11 DEF AnswerArrives, Ok
  <2> DEFINE p == request[h].q
  <2>1. p \in Question /\ p[1] \in Run /\ p[2] \in Nat /\ p[2] <= Len(gate[p[1]].calls)
    BY <1>12 DEF AnswerArrives, Ok
  <2>2. p # q BY <2>1, <1>2, <1>7
  <2>3. outcome'[p] = outcome[p] BY <2>1, <2>2, <1>13
  <2>4. CASE p[1] = r
    <3>1. p[2] <= Len(gate'[p[1]].calls) BY <2>1, <2>4, <1>2, <1>4, <1>19
    <3> QED BY <3>1, <2>3, <2>4, <1>9 DEF AnswerArrives
  <2>5. CASE p[1] # r
    <3>1. gate'[p[1]] = gate[p[1]] /\ Asking(p[1])' = Asking(p[1])
          /\ (Blocked(p[1])' <=> Blocked(p[1]))
      BY <2>1, <2>5, <1>8, <1>11, <1>16
    <3> QED BY <2>1, <2>3, <3>1 DEF AnswerArrives
  <2> QED BY <2>4, <2>5
<1>30. AnsweredOnce' BY <1>11 DEF AnsweredOnce, Ok
<1>31. DecidedByAnswer'
  BY <1>11, <1>13, <1>14, <1>15 DEF DecidedByAnswer, Answered
<1>32. Undecided'
  <2> SUFFICES ASSUME NEW p \in Question,
                 \/ p[2] > Len(gate'[p[1]].calls)
                 \/ Blocked(p[1])' /\ p = Asking(p[1])'
        PROVE  outcome'[p] = "none"
    BY DEF Undecided
  <2>1. p[1] \in Run /\ p[2] \in Nat BY DEF Question
  <2>2. CASE p = q
    <3>1. ask BY <2>2, <1>2, <1>4, <1>7, <1>17, <1>19
    <3> QED BY <2>2, <3>1, <1>20
  <2>3. CASE p # q /\ p[1] = r
    <3>1. p[2] > Len(gate[r].calls) BY <2>1, <2>3, <1>2, <1>4, <1>17, <1>19
    <3> QED BY <2>3, <3>1, <1>13 DEF Undecided
  <2>4. CASE p # q /\ p[1] # r BY <2>1, <2>4, <1>8, <1>13, <1>16 DEF Undecided
  <2> QED BY <2>2, <2>3, <2>4
<1> QED
  BY <1>23, <1>24, <1>25, <1>26, <1>27, <1>28, <1>29, <1>30, <1>31, <1>32

------------------------------------------------------------------------------
\* The request's side.

Taken ==
  [pc : {"reading", "truncating", "writing", "sending", "ok", "failed"},
   q : Question, answer : Answer, policy : Policy]

\* A request's record, updated field by field, is one.
LEMMA RequestTyped ==
  ASSUME IInv, NEW h \in Handler, request[h].pc # "idle"
  PROVE  /\ request[h] \in Taken
         /\ request[h].q \in Question /\ request[h].q[1] \in Run
         /\ request[h].answer \in Answer /\ request[h].policy \in Policy
<1>1. request[h] \in Request BY DEF IInv, TypeOK
<1>2. request[h] \in Taken BY <1>1 DEF Request, Taken
<1> QED BY <1>2 DEF Taken, Question

\* A request that holds a question goes on holding it.
LEMMA StillHolds ==
  ASSUME IInv, NEW h \in Handler, Holding(h), NEW rec \in Request,
         rec.pc \in {"reading", "truncating", "writing", "sending"},
         rec.q = request[h].q,
         rec.pc \in {"truncating", "writing"} => RuleFor(rec.q) \in Rule,
         request' = [request EXCEPT ![h] = rec],
         file' \in Policy \cup {Garbled}, unsafe' \in BOOLEAN,
         UNCHANGED <<open, gate, outcome>>
  PROVE  IInv'
<1> USE DEF IInv
<1>1. request \in [Handler -> Request] BY DEF TypeOK
<1>2. request'[h] = rec /\ \A g \in Handler : g # h => request'[g] = request[g] BY <1>1
<1>3. \A g \in Handler :
        (Holding(g)' <=> Holding(g)) /\ (Holding(g) => request'[g].q = request[g].q)
  BY <1>2 DEF Holding
<1>4. \A g \in Handler : (Ok(g)' <=> Ok(g)) /\ (Ok(g) => request'[g] = request[g])
  BY <1>2 DEF Ok, Holding
<1>5. \A g \in Handler, q \in Question : Answered(g, q)' <=> Answered(g, q)
  BY <1>4 DEF Answered, Ok
<1>6. TypeOK' BY <1>1 DEF TypeOK
<1>7. Counted' /\ GaveReason' BY DEF Counted, GaveReason, Blocked
<1>8. OpenIsAsked' BY DEF OpenIsAsked, Asking
<1>9. Undecided' BY DEF Undecided, Blocked, Asking
<1>10. DecidedByAnswer' BY <1>5 DEF DecidedByAnswer
<1>11. AnsweredOnce' BY <1>4 DEF AnsweredOnce
<1>12. AnswerArrives'
  <2> SUFFICES ASSUME NEW g \in Handler, Ok(g)
        PROVE  LET p == request[g].q IN
                 /\ p[2] <= Len(gate[p[1]].calls)
                 /\ \/ outcome[p] = Resolution(request[g].answer)
                    \/ /\ Blocked(p[1]) /\ p = Asking(p[1])
                       /\ gate[p[1]].box = request[g].answer
    BY <1>4 DEF AnswerArrives, Blocked, Asking
  <2> QED BY DEF AnswerArrives
<1>13. BoxIsAnswered'
  <2> SUFFICES ASSUME NEW r \in Run, gate'[r].box # "none"
        PROVE  /\ Blocked(r)'
               /\ \E g \in Handler : Answered(g, Asking(r))' /\ request'[g].answer = gate'[r].box
    BY DEF BoxIsAnswered
  <2>0. gate[r].box # "none" OBVIOUS
  <2>1. PICK g \in Handler : Answered(g, Asking(r)) /\ request[g].answer = gate[r].box
    BY <2>0 DEF BoxIsAnswered
  <2>2. request'[g] = request[g] BY <2>1, <1>4 DEF Answered, Ok
  <2>3. Answered(g, Asking(r))' BY <2>1, <2>2 DEF Answered, Asking
  <2>4. Blocked(r)' BY <2>0 DEF BoxIsAnswered, Blocked
  <2> QED BY <2>1, <2>2, <2>3, <2>4
<1>14. HeldIsAsked'
  <2> SUFFICES ASSUME NEW g \in Handler, Holding(g)
        PROVE  LET p == request[g].q IN
                 /\ p \notin open
                 /\ Blocked(p[1]) /\ p = Asking(p[1]) /\ gate[p[1]].box = "none"
                 /\ \A k \in Handler : Holding(k) /\ request[k].q = p => k = g
    BY <1>3 DEF HeldIsAsked, Blocked, Asking
  <2> QED BY DEF HeldIsAsked
<1>15. RulesProposed'
  <2> SUFFICES ASSUME NEW g \in Handler, Writing(g)'
        PROVE  Proposed[gate[request'[g].q[1]].calls[request'[g].q[2]]] \in Rule
    BY DEF RulesProposed, RuleFor, CallOf, Writing
  <2>1. CASE g = h BY <2>1, <1>2 DEF Writing, RuleFor, CallOf
  <2>2. CASE g # h BY <2>2, <1>2 DEF Writing, RuleFor, CallOf, RulesProposed
  <2> QED BY <2>1, <2>2
<1> QED
  BY <1>6, <1>7, <1>8, <1>9, <1>10, <1>11, <1>12, <1>13, <1>14, <1>15

\* The rule proposed for a question does not change once it is asked.
LEMMA RuleOfCall ==
  ASSUME IInv, NEW h \in Handler, Holding(h) PROVE RuleFor(request[h].q) \in Rule \cup {NoRule}
<1> DEFINE q == request[h].q
           r == q[1]
<1>1. r \in Run /\ Blocked(r) /\ q = Asking(r)
  BY RequestTyped DEF IInv, HeldIsAsked, Holding
<1>2. gate[r].calls \in Seq(Call) /\ Len(gate[r].calls) > 0
  BY <1>1, GateTyped DEF GateRecord, IInv, Counted
<1>3. q[2] = Len(gate[r].calls) BY <1>1 DEF Asking
<1> HIDE DEF r, q
<1>4. gate[r].calls[q[2]] \in Call BY <1>2, <1>3
<1> QED BY <1>4 DEF RuleFor, CallOf, GateAssumption, r, q

\* appendAllowRule, its read.
LEMMA ReadRulesInv == ASSUME IInv, NEW h \in Handler, ReadRules(h) PROVE IInv'
<1> DEFINE policy == loadPolicyRules(file)
           pc == IF RuleFor(request[h].q) \in policy.allow THEN "sending" ELSE "truncating"
           rec == [request[h] EXCEPT !.policy = policy, !.pc = pc]
<1>1. Holding(h) /\ request[h].pc = "reading" BY DEF Holding, ReadRules
<1>2. RuleFor(request[h].q) \in Rule BY <1>1, RuleOfCall DEF ReadRules
<1>3. policy \in Policy BY DEF loadPolicyRules, IInv, TypeOK
<1>4. request' = [request EXCEPT ![h] = rec] BY DEF ReadRules, IInv, TypeOK
<1>5. pc \in {"sending", "truncating"} OBVIOUS
<1> HIDE DEF policy, pc
<1>6. request[h] \in Taken BY <1>1, RequestTyped
<1>7. rec \in Request /\ rec.pc = pc /\ rec.q = request[h].q
  BY <1>3, <1>5, <1>6 DEF Taken, Request
<1> HIDE DEF rec
<1>8. file' \in Policy \cup {Garbled} /\ UNCHANGED <<open, gate, outcome>>
  BY DEF ReadRules, IInv, TypeOK
<1>9. unsafe' \in BOOLEAN BY DEF ReadRules
<1> QED BY <1>1, <1>2, <1>4, <1>5, <1>7, <1>8, <1>9, StillHolds

\* ... moving on to another stage.
LEMMA BecomeRecord ==
  ASSUME IInv, NEW h \in Handler, request[h].pc # "idle",
         NEW pc \in {"reading", "truncating", "writing", "sending", "ok", "failed"},
         Become(h, pc)
  PROVE  LET rec == [request[h] EXCEPT !.pc = pc] IN
           /\ rec \in Request /\ rec.pc = pc /\ rec.q = request[h].q
           /\ rec.answer = request[h].answer
           /\ request' = [request EXCEPT ![h] = rec]
<1> DEFINE rec == [request[h] EXCEPT !.pc = pc]
<1>1. request[h] \in Taken /\ request[h].policy \in Policy BY RequestTyped
<1>2. rec \in Request /\ rec.pc = pc /\ rec.q = request[h].q /\ rec.answer = request[h].answer
  BY <1>1 DEF Taken, Request
<1>3. request' = [request EXCEPT ![h] = rec] BY DEF Become, IInv, TypeOK
<1> QED BY <1>2, <1>3

\* os.WriteFile, its truncation.
LEMMA TruncateInv == ASSUME IInv, NEW h \in Handler, Truncate(h) PROVE IInv'
<1>1. Holding(h) /\ Writing(h) /\ request[h].pc # "idle" BY DEF Holding, Writing, Truncate
<1>2. RuleFor(request[h].q) \in Rule BY <1>1 DEF IInv, RulesProposed
<1> DEFINE rec == [request[h] EXCEPT !.pc = "writing"]
<1>3. /\ rec \in Request /\ rec.pc = "writing" /\ rec.q = request[h].q
      /\ request' = [request EXCEPT ![h] = rec]
  BY <1>1, BecomeRecord DEF Truncate
<1>4. file' \in Policy \cup {Garbled} /\ UNCHANGED <<open, gate, outcome>> BY DEF Truncate
<1>5. unsafe' \in BOOLEAN BY DEF Truncate, IInv, TypeOK
<1> HIDE DEF rec
<1> QED BY <1>1, <1>2, <1>3, <1>4, <1>5, StillHolds

\* os.WriteFile, its write.
LEMMA WriteRulesInv == ASSUME IInv, NEW h \in Handler, WriteRules(h) PROVE IInv'
<1>1. Holding(h) /\ Writing(h) /\ request[h].pc # "idle" BY DEF Holding, Writing, WriteRules
<1>2. RuleFor(request[h].q) \in Rule BY <1>1 DEF IInv, RulesProposed
<1>3. file' \in Policy BY <1>1, <1>2, RequestTyped DEF WriteRules, Policy
<1> DEFINE rec == [request[h] EXCEPT !.pc = "sending"]
<1>4. /\ rec \in Request /\ rec.pc = "sending" /\ rec.q = request[h].q
      /\ request' = [request EXCEPT ![h] = rec]
  BY <1>1, BecomeRecord DEF WriteRules
<1>5. UNCHANGED <<open, gate, outcome>> /\ unsafe' \in BOOLEAN
  BY DEF WriteRules, IInv, TypeOK
<1> HIDE DEF rec
<1> QED BY <1>1, <1>2, <1>3, <1>4, <1>5, StillHolds

\* takeApproval: the question leaves the registry with its request.
LEMMA TakeQuestionInv ==
  ASSUME IInv, NEW h \in Handler, NEW q \in Question, NEW decision \in Answer,
         TakeQuestion(h, q, decision)
  PROVE  IInv'
<1> USE DEF IInv
<1> DEFINE pc == IF decision = "always" THEN "reading" ELSE "sending"
           rec == [pc |-> pc, q |-> q, answer |-> decision, policy |-> Defaults]
<1>1. pc \in {"reading", "sending"} OBVIOUS
<1> HIDE DEF pc
<1>2. rec \in Request /\ rec.pc = pc /\ rec.q = q BY <1>1 DEF Request, GateAssumption
<1>3. request' = [request EXCEPT ![h] = rec] BY DEF TakeQuestion, pc
<1> HIDE DEF rec
<1>4. request'[h] = rec /\ \A g \in Handler : g # h => request'[g] = request[g]
  BY <1>3 DEF TypeOK
<1>5. q \in open /\ open' = open \ {q} /\ UNCHANGED <<file, gate, outcome, unsafe>>
  BY DEF TakeQuestion
<1>6. ~Holding(h) /\ ~Ok(h) /\ ~Writing(h) BY DEF TakeQuestion, Holding, Ok, Writing
<1>7. Holding(h)' /\ ~Ok(h)' /\ ~Writing(h)' BY <1>1, <1>2, <1>4 DEF Holding, Ok, Writing
<1>8. \A g \in Handler : /\ Ok(g)' <=> Ok(g)
                         /\ Ok(g) => request'[g] = request[g]
  BY <1>4, <1>6, <1>7 DEF Ok
<1>9. TypeOK' BY <1>2, <1>3, <1>5 DEF TypeOK
<1>10. Counted' /\ GaveReason' BY <1>5 DEF Counted, GaveReason, Blocked
<1>11. OpenIsAsked' BY <1>5 DEF OpenIsAsked, Asking
<1>12. Undecided' BY <1>5 DEF Undecided, Blocked, Asking
<1>13. AnsweredOnce' BY <1>8 DEF AnsweredOnce
<1>14. DecidedByAnswer' BY <1>5, <1>8 DEF DecidedByAnswer, Answered, Ok
<1>15. AnswerArrives'
  <2> SUFFICES ASSUME NEW g \in Handler, Ok(g)
        PROVE  LET p == request[g].q IN
                 /\ p[2] <= Len(gate[p[1]].calls)
                 /\ \/ outcome[p] = Resolution(request[g].answer)
                    \/ /\ Blocked(p[1]) /\ p = Asking(p[1])
                       /\ gate[p[1]].box = request[g].answer
    BY <1>5, <1>8 DEF AnswerArrives, Blocked, Asking
  <2> QED BY DEF AnswerArrives
<1>16. BoxIsAnswered'
  <2> SUFFICES ASSUME NEW r \in Run, gate'[r].box # "none"
        PROVE  /\ Blocked(r)'
               /\ \E g \in Handler : Answered(g, Asking(r))' /\ request'[g].answer = gate'[r].box
    BY DEF BoxIsAnswered
  <2>1. gate[r].box # "none" BY <1>5
  <2>2. PICK g \in Handler : Answered(g, Asking(r)) /\ request[g].answer = gate[r].box
    BY <2>1 DEF BoxIsAnswered
  <2>3. request'[g] = request[g] BY <2>2, <1>8 DEF Answered, Ok
  <2>4. Answered(g, Asking(r))' BY <2>2, <2>3, <1>5 DEF Answered, Asking
  <2>5. Blocked(r)' BY <2>1, <1>5 DEF BoxIsAnswered, Blocked
  <2> QED BY <2>2, <2>3, <2>4, <2>5, <1>5
<1>17. HeldIsAsked'
  <2>1. \A g \in Handler : Holding(g) => request[g].q # q BY <1>5 DEF HeldIsAsked
  <2>2. \A g \in Handler : g # h => (Holding(g)' <=> Holding(g)) BY <1>4 DEF Holding
  <2> SUFFICES ASSUME NEW g \in Handler, Holding(g)'
        PROVE  LET p == request'[g].q IN
                 /\ p \notin open'
                 /\ gate[p[1]].pc \in {"waiting", "givingUp", "outrun"}
                 /\ p = <<p[1], Len(gate[p[1]].calls)>> /\ gate[p[1]].box = "none"
                 /\ \A k \in Handler : Holding(k)' /\ request'[k].q = p => k = g
    BY <1>5 DEF HeldIsAsked, Blocked, Asking
  <2>3. CASE g = h
    <3>1. request'[g].q = q BY <2>3, <1>2, <1>4
    <3>2. /\ gate[q[1]].pc \in {"waiting", "givingUp", "outrun"}
          /\ q = <<q[1], Len(gate[q[1]].calls)>> /\ gate[q[1]].box = "none"
      BY <1>5 DEF OpenIsAsked, Asking
    <3>3. \A k \in Handler : Holding(k)' /\ request'[k].q = q => k = h
      BY <2>1, <2>2, <1>4
    <3> QED BY <2>3, <3>1, <3>2, <3>3, <1>5
  <2>4. CASE g # h
    <3>1. Holding(g) /\ request'[g] = request[g] BY <2>2, <2>4, <1>4
    <3>2. /\ request[g].q \notin open
          /\ gate[request[g].q[1]].pc \in {"waiting", "givingUp", "outrun"}
          /\ request[g].q = <<request[g].q[1], Len(gate[request[g].q[1]].calls)>>
          /\ gate[request[g].q[1]].box = "none"
      BY <3>1 DEF HeldIsAsked, Asking, Blocked
    <3>3. ASSUME NEW k \in Handler, Holding(k)', request'[k].q = request[g].q PROVE k = g
      <4>1. k # h BY <2>1, <3>1, <3>3, <1>2, <1>4
      <4>2. Holding(k) /\ request[k].q = request[g].q BY <2>2, <3>3, <4>1, <1>4
      <4> QED BY <3>1, <4>2 DEF HeldIsAsked
    <3> QED BY <3>1, <3>2, <3>3, <1>5
  <2> QED BY <2>3, <2>4
<1>18. RulesProposed'
  <2> SUFFICES ASSUME NEW g \in Handler, Writing(g)'
        PROVE  Proposed[gate[request'[g].q[1]].calls[request'[g].q[2]]] \in Rule
    BY <1>5 DEF RulesProposed, RuleFor, CallOf
  <2>1. g # h BY <1>7
  <2> QED BY <2>1, <1>4 DEF RulesProposed, RuleFor, CallOf, Writing
<1> QED
  BY <1>9, <1>10, <1>11, <1>12, <1>13, <1>14, <1>15, <1>16, <1>17, <1>18

\* A put-back question is one no request has been told is answered.
LEMMA PutBackInv == ASSUME IInv, NEW h \in Handler, Holding(h), PutBack(h) PROVE IInv'
<1> USE DEF IInv
<1> DEFINE rec == [request[h] EXCEPT !.pc = "failed"]
           q == request[h].q
<1>1. request[h].pc # "idle" /\ q \in Question /\ q[1] \in Run
  BY RequestTyped DEF Holding
<1>2. /\ rec \in Request /\ rec.pc = "failed" /\ request' = [request EXCEPT ![h] = rec]
  BY <1>1, BecomeRecord DEF PutBack
<1> HIDE DEF rec
<1>3. request'[h] = rec /\ \A g \in Handler : g # h => request'[g] = request[g]
  BY <1>2 DEF TypeOK
<1>4. open' = open \cup {q} /\ UNCHANGED <<file, gate, outcome, unsafe>> BY DEF PutBack
<1>5. ~Ok(h) BY DEF Ok, Holding
<1>6. ~Holding(h)' /\ ~Ok(h)' /\ ~Writing(h)' BY <1>2, <1>3 DEF Holding, Ok, Writing
<1>7. \A g \in Handler : /\ Ok(g)' <=> Ok(g)
                         /\ Ok(g) => request'[g] = request[g]
  BY <1>3, <1>5, <1>6 DEF Ok
<1>8. /\ gate[q[1]].pc \in {"waiting", "givingUp", "outrun"}
      /\ q = <<q[1], Len(gate[q[1]].calls)>> /\ gate[q[1]].box = "none"
  BY DEF HeldIsAsked, Blocked, Asking
<1>9. \A g \in Handler : Holding(g) /\ request[g].q = q => g = h BY DEF HeldIsAsked
<1> HIDE DEF q
<1>10. TypeOK' BY <1>1, <1>2, <1>4 DEF TypeOK
<1>11. Counted' /\ GaveReason' BY <1>4 DEF Counted, GaveReason, Blocked
<1>12. OpenIsAsked' BY <1>4, <1>8 DEF OpenIsAsked, Asking
<1>13. Undecided' BY <1>4 DEF Undecided, Blocked, Asking
<1>14. AnsweredOnce' BY <1>7 DEF AnsweredOnce
<1>15. DecidedByAnswer' BY <1>4, <1>7 DEF DecidedByAnswer, Answered, Ok
<1>16. AnswerArrives'
  <2> SUFFICES ASSUME NEW g \in Handler, Ok(g)
        PROVE  LET p == request[g].q IN
                 /\ p[2] <= Len(gate[p[1]].calls)
                 /\ \/ outcome[p] = Resolution(request[g].answer)
                    \/ /\ Blocked(p[1]) /\ p = Asking(p[1])
                       /\ gate[p[1]].box = request[g].answer
    BY <1>4, <1>7 DEF AnswerArrives, Blocked, Asking
  <2> QED BY DEF AnswerArrives
<1>17. BoxIsAnswered'
  <2> SUFFICES ASSUME NEW r \in Run, gate'[r].box # "none"
        PROVE  /\ Blocked(r)'
               /\ \E g \in Handler : Answered(g, Asking(r))' /\ request'[g].answer = gate'[r].box
    BY DEF BoxIsAnswered
  <2>1. gate[r].box # "none" BY <1>4
  <2>2. PICK g \in Handler : Answered(g, Asking(r)) /\ request[g].answer = gate[r].box
    BY <2>1 DEF BoxIsAnswered
  <2>3. request'[g] = request[g] BY <2>2, <1>7 DEF Answered, Ok
  <2>4. Answered(g, Asking(r))' BY <2>2, <2>3, <1>4 DEF Answered, Asking
  <2>5. Blocked(r)' BY <2>1, <1>4 DEF BoxIsAnswered, Blocked
  <2> QED BY <2>2, <2>3, <2>4, <2>5, <1>4
<1>18. HeldIsAsked'
  <2> SUFFICES ASSUME NEW g \in Handler, Holding(g)'
        PROVE  LET p == request'[g].q IN
                 /\ p \notin open'
                 /\ gate[p[1]].pc \in {"waiting", "givingUp", "outrun"}
                 /\ p = <<p[1], Len(gate[p[1]].calls)>> /\ gate[p[1]].box = "none"
                 /\ \A k \in Handler : Holding(k)' /\ request'[k].q = p => k = g
    BY <1>4 DEF HeldIsAsked, Blocked, Asking
  <2>1. \A k \in Handler : Holding(k)' => k # h /\ Holding(k) /\ request'[k] = request[k]
    BY <1>3, <1>6 DEF Holding
  <2>2. request[g].q # q BY <2>1, <1>9
  <2>3. /\ request[g].q \notin open
        /\ gate[request[g].q[1]].pc \in {"waiting", "givingUp", "outrun"}
        /\ request[g].q = <<request[g].q[1], Len(gate[request[g].q[1]].calls)>>
        /\ gate[request[g].q[1]].box = "none"
        /\ \A k \in Handler : Holding(k) /\ request[k].q = request[g].q => k = g
    BY <2>1 DEF HeldIsAsked, Asking, Blocked
  <2> QED BY <2>1, <2>2, <2>3, <1>4
<1>19. RulesProposed'
  <2> SUFFICES ASSUME NEW g \in Handler, Writing(g)'
        PROVE  Proposed[gate[request'[g].q[1]].calls[request'[g].q[2]]] \in Rule
    BY <1>4 DEF RulesProposed, RuleFor, CallOf
  <2>1. g # h BY <1>6
  <2> QED BY <2>1, <1>3 DEF RulesProposed, RuleFor, CallOf, Writing
<1> QED
  BY <1>10, <1>11, <1>12, <1>13, <1>14, <1>15, <1>16, <1>17, <1>18, <1>19

\* The answer reaches the run that waits for it, and its box was empty.
LEMMA SendAnswerInv == ASSUME IInv, NEW h \in Handler, SendAnswer(h) PROVE IInv'
<1> USE DEF IInv
<1> DEFINE q == request[h].q
           r == q[1]
           rec == [request[h] EXCEPT !.pc = "ok"]
           grec == [gate[r] EXCEPT !.box = request[h].answer]
<1>1. Holding(h) /\ request[h].pc # "idle" /\ ~Ok(h) /\ ~Writing(h)
  BY DEF SendAnswer, Holding, Ok, Writing
<1>2. q \in Question /\ r \in Run /\ request[h].answer \in Answer BY <1>1, RequestTyped
<1>3. /\ rec \in Request /\ rec.pc = "ok" /\ rec.q = q /\ rec.answer = request[h].answer
      /\ request' = [request EXCEPT ![h] = rec]
  BY <1>1, BecomeRecord DEF SendAnswer
<1>4. gate[r] \in GateRecord /\ gate \in [Run -> GateRecord] BY <1>2 DEF TypeOK
<1>5. gate' = [gate EXCEPT ![r] = grec] BY <1>2, <1>4 DEF SendAnswer
<1>6. /\ grec \in GateRecord /\ grec.box = request[h].answer
      /\ grec.pc = gate[r].pc /\ grec.calls = gate[r].calls /\ grec.why = gate[r].why
  BY <1>2, <1>4 DEF GateRecord
<1>7. UNCHANGED <<file, open, outcome, unsafe>> BY DEF SendAnswer
<1>8. /\ q \notin open /\ Blocked(r) /\ q = Asking(r) /\ gate[r].box = "none"
      /\ \A g \in Handler : Holding(g) /\ request[g].q = q => g = h
  BY <1>1 DEF HeldIsAsked
<1> HIDE DEF rec, grec, r
<1>9. request'[h] = rec /\ \A g \in Handler : g # h => request'[g] = request[g]
  BY <1>3 DEF TypeOK
<1>10. gate'[r] = grec /\ \A s \in Run : s # r => gate'[s] = gate[s] BY <1>2, <1>4, <1>5
<1>11. \A s \in Run : /\ gate'[s].pc = gate[s].pc /\ gate'[s].calls = gate[s].calls
                      /\ gate'[s].why = gate[s].why
                      /\ Blocked(s)' <=> Blocked(s)
                      /\ Asking(s)' = Asking(s)
  BY <1>6, <1>10 DEF Blocked, Asking
<1>12. ASSUME NEW g \in Handler, Ok(g) PROVE request[g].q # q /\ g # h
  <2>1. g # h BY <1>1, <1>12
  <2>2. request[g].q # q
    <3> SUFFICES ASSUME request[g].q = q PROVE FALSE OBVIOUS
    <3>1. outcome[q] = "none" BY <1>2, <1>8 DEF Undecided, r
    <3>2. request[g].answer \in Answer BY <1>12, RequestTyped DEF Ok
    <3> QED BY <3>1, <3>2, <1>8, <1>12, Resolutions DEF AnswerArrives, r
  <2> QED BY <2>1, <2>2
<1>13. \A g \in Handler : Ok(g)' <=> (Ok(g) \/ g = h) BY <1>3, <1>9 DEF Ok
<1>14. \A g \in Handler : Holding(g)' <=> (Holding(g) /\ g # h)
  BY <1>3, <1>9 DEF Holding
<1> HIDE DEF q
<1>15. TypeOK'
  <2>1. gate' \in [Run -> GateRecord] BY <1>2, <1>4, <1>5, <1>6
  <2>2. request' \in [Handler -> Request] BY <1>3 DEF TypeOK
  <2> QED BY <2>1, <2>2, <1>7 DEF TypeOK
<1>16. Counted' /\ GaveReason' BY <1>11 DEF Counted, GaveReason
<1>17. OpenIsAsked'
  <2> SUFFICES ASSUME NEW p \in open
        PROVE  /\ gate'[p[1]].pc \in {"waiting", "givingUp", "outrun"}
               /\ p = Asking(p[1])' /\ gate'[p[1]].box = "none"
    BY <1>7 DEF OpenIsAsked
  <2>1. p[1] \in Run /\ p # q BY <1>8 DEF TypeOK, Question
  <2>2. p = Asking(p[1]) BY DEF OpenIsAsked
  <2>3. p[1] # r BY <2>1, <2>2, <1>8
  <2> QED BY <2>1, <2>2, <2>3, <1>10, <1>11 DEF OpenIsAsked
<1>18. Undecided' 
  <2> SUFFICES ASSUME NEW p \in Question,
                 \/ p[2] > Len(gate'[p[1]].calls)
                 \/ Blocked(p[1])' /\ p = Asking(p[1])'
        PROVE  outcome[p] = "none"
    BY <1>7 DEF Undecided
  <2>1. p[1] \in Run BY DEF Question
  <2> QED BY <2>1, <1>11 DEF Undecided
<1>19. AnsweredOnce'
  <2> SUFFICES ASSUME NEW g \in Handler, NEW k \in Handler, Ok(g)', Ok(k)',
                      request'[g].q = request'[k].q
        PROVE  g = k
    BY DEF AnsweredOnce
  <2>1. CASE g = h \/ k = h BY <2>1, <1>3, <1>9, <1>12, <1>13
  <2>2. CASE g # h /\ k # h BY <2>2, <1>9, <1>13 DEF AnsweredOnce
  <2> QED BY <2>1, <2>2
<1>20. \A g \in Handler, p \in Question : Answered(g, p) => Answered(g, p)'
  BY <1>9, <1>12 DEF Answered, Ok
<1>21. DecidedByAnswer' BY <1>7, <1>20 DEF DecidedByAnswer
<1>22. AnswerArrives'
  <2> SUFFICES ASSUME NEW g \in Handler, Ok(g)', NEW p, p = request'[g].q
        PROVE  /\ p[2] <= Len(gate'[p[1]].calls)
               /\ \/ outcome[p] = Resolution(request'[g].answer)
                  \/ /\ gate'[p[1]].pc \in {"waiting", "givingUp", "outrun"}
                     /\ p = <<p[1], Len(gate'[p[1]].calls)>>
                     /\ gate'[p[1]].box = request'[g].answer
    BY <1>7 DEF AnswerArrives, Blocked, Asking
  <2>1. CASE g = h
    <3>1. p = q /\ request'[g].answer = request[h].answer BY <2>1, <1>3, <1>9
    <3>2. p[1] = r BY <3>1 DEF r
    <3>3. p = <<r, Len(gate'[r].calls)>> BY <3>1, <1>2, <1>8, <1>11 DEF Asking
    <3>4. Len(gate'[r].calls) \in Nat
      BY <1>2, <1>4, <1>11 DEF GateRecord
    <3> QED BY <3>1, <3>2, <3>3, <3>4, <1>2, <1>6, <1>8, <1>10, <1>11 DEF Blocked
  <2>2. CASE g # h
    <3>1. Ok(g) /\ request'[g] = request[g] BY <2>2, <1>9, <1>13
    <3>2. p = request[g].q /\ p # q /\ p[1] \in Run
      BY <3>1, <1>12, RequestTyped DEF Ok
    <3>3. /\ p[2] <= Len(gate[p[1]].calls)
          /\ \/ outcome[p] = Resolution(request[g].answer)
             \/ /\ Blocked(p[1]) /\ p = Asking(p[1])
                /\ gate[p[1]].box = request[g].answer
      BY <3>1, <3>2 DEF AnswerArrives
    <3>4. p = Asking(p[1]) => p[1] # r BY <3>2, <1>8
    <3> QED BY <3>1, <3>2, <3>3, <3>4, <1>10, <1>11 DEF Blocked, Asking
  <2> QED BY <2>1, <2>2
<1>23. BoxIsAnswered'
  <2> SUFFICES ASSUME NEW s \in Run, gate'[s].box # "none"
        PROVE  /\ Blocked(s)'
               /\ \E g \in Handler : Answered(g, Asking(s))' /\ request'[g].answer = gate'[s].box
    BY DEF BoxIsAnswered
  <2>1. CASE s = r
    <3>1. Answered(h, Asking(s))'
      BY <2>1, <1>2, <1>3, <1>8, <1>9, <1>11 DEF Answered, Asking
    <3> QED BY <3>1, <2>1, <1>3, <1>6, <1>8, <1>9, <1>10, <1>11
  <2>2. CASE s # r
    <3>1. gate'[s] = gate[s] BY <2>2, <1>10
    <3>2. PICK g \in Handler : Answered(g, Asking(s)) /\ request[g].answer = gate[s].box
      BY <3>1 DEF BoxIsAnswered
    <3>3. request'[g] = request[g] BY <3>2, <1>9, <1>12 DEF Answered, Ok
    <3>4. Answered(g, Asking(s))' BY <3>1, <3>2, <3>3 DEF Answered, Asking
    <3>5. Blocked(s) BY <3>1 DEF BoxIsAnswered
    <3> QED BY <3>1, <3>2, <3>3, <3>4, <3>5, <1>11
  <2> QED BY <2>1, <2>2
<1>24. HeldIsAsked'
  <2> SUFFICES ASSUME NEW g \in Handler, Holding(g)'
        PROVE  LET p == request'[g].q IN
                 /\ p \notin open
                 /\ gate'[p[1]].pc \in {"waiting", "givingUp", "outrun"}
                 /\ p = <<p[1], Len(gate'[p[1]].calls)>> /\ gate'[p[1]].box = "none"
                 /\ \A k \in Handler : Holding(k)' /\ request'[k].q = p => k = g
    BY <1>7 DEF HeldIsAsked, Blocked, Asking
  <2>1. \A k \in Handler : Holding(k)' => k # h /\ Holding(k) /\ request'[k] = request[k]
    BY <1>9, <1>14
  <2>2. request[g].q # q /\ request[g].q[1] \in Run
    BY <2>1, <1>8, RequestTyped DEF Holding
  <2>3. /\ request[g].q \notin open
        /\ Blocked(request[g].q[1]) /\ request[g].q = Asking(request[g].q[1])
        /\ gate[request[g].q[1]].box = "none"
        /\ \A k \in Handler : Holding(k) /\ request[k].q = request[g].q => k = g
    BY <2>1 DEF HeldIsAsked
  <2>4. request[g].q[1] # r BY <2>2, <2>3, <1>8
  <2>5. gate'[request[g].q[1]] = gate[request[g].q[1]] BY <2>2, <2>4, <1>10
  <2> QED BY <2>1, <2>3, <2>5 DEF Blocked, Asking
<1>25. RulesProposed'
  <2> SUFFICES ASSUME NEW g \in Handler, Writing(g)'
        PROVE  Proposed[gate'[request'[g].q[1]].calls[request'[g].q[2]]] \in Rule
    BY DEF RulesProposed, RuleFor, CallOf
  <2>1. g # h BY <1>3, <1>9 DEF Writing
  <2>2. request'[g] = request[g] /\ Writing(g) BY <2>1, <1>9 DEF Writing
  <2>3. request[g].q[1] \in Run BY <2>2, RequestTyped DEF Writing
  <2> QED BY <2>2, <2>3, <1>11 DEF RulesProposed, RuleFor, CallOf
<1> QED
  BY <1>15, <1>16, <1>17, <1>18, <1>19, <1>21, <1>22, <1>23, <1>24, <1>25

------------------------------------------------------------------------------

\* Whatever a request does by itself.
LEMMA ProceedInv == ASSUME IInv, NEW h \in Handler, Proceed(h) PROVE IInv'
<1>1. CASE NothingToAllow(h) BY <1>1, PutBackInv DEF NothingToAllow, Holding
<1> QED BY <1>1, ReadRulesInv, TruncateInv, WriteRulesInv, SendAnswerInv DEF Proceed

\* A stuttering step.
LEMMA Untouched == ASSUME IInv, UNCHANGED vars PROVE IInv'
<1>1. \A r \in Run : /\ Blocked(r)' <=> Blocked(r)
                     /\ gate'[r].calls = gate[r].calls
                     /\ gate'[r].box = gate[r].box
  BY DEF vars, Blocked
<1>2. gate' \in [Run -> GateRecord] /\ GaveReason'
  BY DEF vars, IInv, TypeOK, GaveReason
<1>3. UNCHANGED <<file, open, outcome, request, unsafe>> BY DEF vars
<1> QED BY <1>1, <1>2, <1>3, Still

\* One case per action.
LEMMA StepInv == ASSUME IInv, [Next]_vars PROVE IInv'
<1>1. ASSUME NEW h \in Handler, WriteFails(h) PROVE IInv'
  BY <1>1, PutBackInv DEF WriteFails, Writing, Holding
<1> QED
  BY <1>1, StartInv, CheckInv, StopWaitingInv, TakeAnswerInv, GiveUpInv, InterruptInv,
     TakeQuestionInv, ProceedInv, Untouched
  DEF Next

\* IInv is inductive.
LEMMA Invariance == Spec => []IInv
  BY InitInv, StepInv, PTL DEF Spec

\* Every variable keeps its type, and what is written to the file is a policy.
THEOREM TypeCorrect == Spec => []TypeOK
  BY Invariance, PTL DEF IInv

\* However requests, timeouts and interrupts race for a question, an answer a
\* person was told was taken is the only one and is the one recorded, and no run
\* goes on as approved or denied without one (takeApproval, giveUp).
THEOREM DecisionsStand == Spec => []AnswersStand
<1>1. ASSUME IInv PROVE AnswersStand
  <2> SUFFICES ASSUME NEW q \in Question
        PROVE  /\ \A h, g \in Handler : Answered(h, q) /\ Answered(g, q) => h = g
               /\ \A h \in Handler :
                    Answered(h, q) => outcome[q] \in {"none", Resolution(request[h].answer)}
               /\ outcome[q] \in {"approved", "denied"} => \E h \in Handler : Answered(h, q)
    BY DEF AnswersStand
  <2>1. \A h, g \in Handler : Answered(h, q) /\ Answered(g, q) => h = g
    BY <1>1 DEF IInv, AnsweredOnce, Answered, Ok
  <2>2. ASSUME NEW h \in Handler, Answered(h, q)
        PROVE  outcome[q] \in {"none", Resolution(request[h].answer)}
    <3>1. Ok(h) /\ request[h].q = q BY <2>2 DEF Answered, Ok
    <3> QED BY <1>1, <3>1 DEF IInv, AnswerArrives, Undecided
  <2>3. outcome[q] \in {"approved", "denied"} => \E h \in Handler : Answered(h, q)
    BY <1>1 DEF IInv, DecidedByAnswer
  <2> QED BY <2>1, <2>2, <2>3
<1> QED BY <1>1, Invariance, PTL

\* A question that can be answered is the one its run is blocked on.
THEOREM OpenQuestionsAreAsked == Spec => []OpenIsAsked
  BY Invariance, PTL DEF IInv

------------------------------------------------------------------------------

\* The rules a run decides by hold what its machine denies, and what it waits on
\* is nothing they deny.
DeniesHold ==
  \A r \in Run :
    IF gate[r].pc = "idle" THEN Len(gate[r].calls) = 0
    ELSE /\ gate[r].machine.deny \subseteq gate[r].rules.deny
         /\ Blocked(r) => ~Matches(gate[r].machine.deny, gate[r].calls[Len(gate[r].calls)])

\* A step that loads no rules and makes no call resolves at most what was asked.
LEMMA DenyKept ==
  ASSUME IInv, DeniesHold, DeniedNeverRuns,
         \A r \in Run : /\ gate'[r].machine = gate[r].machine
                        /\ gate'[r].rules = gate[r].rules
                        /\ gate'[r].calls = gate[r].calls
                        /\ gate'[r].pc = "idle" <=> gate[r].pc = "idle"
                        /\ Blocked(r)' => Blocked(r),
         \A q \in Question :
           \/ outcome'[q] = outcome[q]
           \/ Blocked(q[1]) /\ q = Asking(q[1])
  PROVE  (DeniesHold /\ DeniedNeverRuns)'
<1>1. DeniesHold' BY DEF DeniesHold, Matches
<1>2. ASSUME NEW q \in Question, outcome'[q] \in {"allowed", "approved"}
      PROVE  ~Matches(gate'[q[1]].machine.deny, gate'[q[1]].calls[q[2]])
  <2>1. q[1] \in Run BY DEF Question
  <2>2. CASE outcome'[q] = outcome[q] BY <1>2, <2>1, <2>2 DEF DeniedNeverRuns
  <2>3. CASE Blocked(q[1]) /\ q = Asking(q[1])
    <3>1. q[2] = Len(gate[q[1]].calls) BY <2>1, <2>3 DEF Asking
    <3>2. gate[q[1]].pc # "idle" BY <2>3 DEF Blocked
    <3>3. ~Matches(gate[q[1]].machine.deny, gate[q[1]].calls[q[2]])
      BY <2>1, <2>3, <3>1, <3>2 DEF DeniesHold
    <3> QED BY <2>1, <3>3
  <2> QED BY <1>2, <2>2, <2>3
<1>3. DeniedNeverRuns' BY <1>2 DEF DeniedNeverRuns, Matches
<1> QED BY <1>1, <1>3

\* newPolicyGate: the merged rules deny what the machine's do.
LEMMA StartDenies ==
  ASSUME IInv, DeniesHold, DeniedNeverRuns, NEW r \in Run, NEW own \in Own,
         newPolicyGate(r, own)
  PROVE  (DeniesHold /\ DeniedNeverRuns)'
<1> DEFINE machine == loadPolicyRules(file)
           rec == [gate[r] EXCEPT !.pc = "deciding", !.machine = machine,
                                  !.rules = mergePolicy(machine, own)]
<1>1. gate[r] \in GateRecord /\ gate \in [Run -> GateRecord] BY DEF IInv, TypeOK
<1>2. gate' = [gate EXCEPT ![r] = rec] /\ gate[r].pc = "idle" /\ UNCHANGED outcome
  BY <1>1 DEF newPolicyGate
<1>3. rec.pc = "deciding" /\ rec.machine = machine /\ rec.calls = gate[r].calls
      /\ rec.rules = mergePolicy(machine, own)
  BY <1>1 DEF GateRecord
<1>4. machine.deny \subseteq mergePolicy(machine, own).deny BY DEF mergePolicy
<1> HIDE DEF machine, rec
<1>5. gate'[r] = rec /\ \A s \in Run : s # r => gate'[s] = gate[s] BY <1>1, <1>2
<1>6. DeniesHold' BY <1>3, <1>4, <1>5 DEF DeniesHold, Blocked, Matches
<1>7. ASSUME NEW q \in Question, outcome'[q] \in {"allowed", "approved"}
      PROVE  ~Matches(gate'[q[1]].machine.deny, gate'[q[1]].calls[q[2]])
  <2>1. q[1] \in Run /\ q[2] \in Nat /\ q[2] > 0 BY DEF Question
  <2>2. CASE q[1] = r
    <3>1. q[2] > Len(gate[q[1]].calls) BY <1>2, <2>1, <2>2 DEF DeniesHold
    <3> QED BY <1>2, <1>7, <3>1 DEF IInv, Undecided
  <2>3. CASE q[1] # r BY <1>2, <1>5, <1>7, <2>1, <2>3 DEF DeniedNeverRuns
  <2> QED BY <2>2, <2>3
<1> QED BY <1>6, <1>7 DEF DeniedNeverRuns, Matches

\* check: a call the rules deny is neither run nor asked about.
LEMMA CheckDenies ==
  ASSUME IInv, DeniesHold, DeniedNeverRuns, NEW r \in Run, NEW call \in Call,
         check(r, call)
  PROVE  (DeniesHold /\ DeniedNeverRuns)'
<1> DEFINE n == Len(gate[r].calls)
           verdict == decide(gate[r].rules, call)
<1>1. /\ gate[r] \in GateRecord /\ gate \in [Run -> GateRecord] /\ n \in Nat
      /\ gate[r].calls \in Seq(Call) /\ gate[r].pc = "deciding"
  BY GateTyped DEF IInv, TypeOK, check, GateRecord
<1>2. /\ gate'[r].machine = gate[r].machine /\ gate'[r].rules = gate[r].rules
      /\ gate'[r].calls = Append(gate[r].calls, call)
      /\ gate'[r].pc \in {"deciding", "waiting"}
      /\ gate'[r].pc = "waiting" => verdict = "ask"
      /\ \A s \in Run : s # r => gate'[s] = gate[s]
  <2> DEFINE called == [gate EXCEPT ![r].calls = Append(@, call)]
  <2>1. /\ called[r].machine = gate[r].machine /\ called[r].rules = gate[r].rules
        /\ called[r].calls = Append(gate[r].calls, call) /\ called[r].pc = "deciding"
        /\ \A s \in Run : s # r => called[s] = gate[s]
    BY <1>1 DEF GateRecord
  <2>2. CASE verdict = "ask"
    <3>1. gate' = [called EXCEPT ![r].pc = "waiting", ![r].box = "none"] BY <2>2 DEF check
    <3> QED BY <1>1, <2>2, <3>1 DEF GateRecord
  <2>3. CASE verdict # "ask"
    <3>1. gate' = called BY <2>3 DEF check
    <3> QED BY <2>1, <3>1
  <2> QED BY <2>2, <2>3
<1>3. \A q \in Question : \/ outcome'[q] = outcome[q]
                          \/ q = <<r, n + 1>> /\ outcome'[q] = "refused"
                          \/ q = <<r, n + 1>> /\ verdict = "allow"
  BY DEF check, IInv, TypeOK
<1>4. verdict \in {"ask", "allow"} => ~Matches(gate[r].machine.deny, call)
  <2>1. verdict \in {"ask", "allow"} => ~Matches(gate[r].rules.deny, call) BY DEF decide
  <2>2. gate[r].machine.deny \subseteq gate[r].rules.deny BY <1>1 DEF DeniesHold
  <2> QED BY <2>1, <2>2 DEF Matches
<1> HIDE DEF verdict
<1>5. /\ Len(gate'[r].calls) = n + 1 /\ gate'[r].calls[n + 1] = call
      /\ \A i \in 1..n : gate'[r].calls[i] = gate[r].calls[i]
  BY <1>1, <1>2
<1> HIDE DEF n
<1>6. DeniesHold'
  <2>1. ASSUME NEW s \in Run, s # r
        PROVE  IF gate'[s].pc = "idle" THEN Len(gate'[s].calls) = 0
               ELSE /\ gate'[s].machine.deny \subseteq gate'[s].rules.deny
                    /\ Blocked(s)' => ~Matches(gate'[s].machine.deny,
                                               gate'[s].calls[Len(gate'[s].calls)])
    BY <1>2, <2>1 DEF DeniesHold, Blocked
  <2>2. gate'[r].machine.deny \subseteq gate'[r].rules.deny
    BY <1>1, <1>2 DEF DeniesHold
  <2>3. Blocked(r)' => ~Matches(gate'[r].machine.deny, gate'[r].calls[Len(gate'[r].calls)])
    BY <1>2, <1>4, <1>5 DEF Blocked
  <2>4. gate'[r].pc # "idle" BY <1>2
  <2> QED BY <2>1, <2>2, <2>3, <2>4 DEF DeniesHold, Matches
<1>7. ASSUME NEW q \in Question, outcome'[q] \in {"allowed", "approved"}
      PROVE  ~Matches(gate'[q[1]].machine.deny, gate'[q[1]].calls[q[2]])
  <2>1. q[1] \in Run /\ q[2] \in Nat /\ q[2] > 0 BY DEF Question
  <2>2. CASE q[1] # r
    <3>1. outcome'[q] = outcome[q] BY <1>3, <2>2
    <3> QED BY <1>2, <1>7, <2>1, <2>2, <3>1 DEF DeniedNeverRuns
  <2>3. CASE q[1] = r /\ q[2] = n + 1
    <3>1. outcome[q] = "none"
      <4>1. q[2] > Len(gate[q[1]].calls) BY <1>1, <2>3 DEF n
      <4> QED BY <4>1 DEF IInv, Undecided
    <3>2. verdict = "allow" BY <1>3, <1>7, <3>1
    <3> QED BY <1>2, <1>4, <1>5, <2>3, <3>2
  <2>4. CASE q[1] = r /\ q[2] # n + 1
    <3>1. outcome'[q] = outcome[q] BY <1>3, <2>4
    <3>2. ~(q[2] > n) BY <1>7, <2>4, <3>1 DEF IInv, Undecided, n
    <3>3. gate'[r].calls[q[2]] = gate[r].calls[q[2]]
      <4>1. q[2] \in 1..n BY <1>1, <2>1, <3>2
      <4> QED BY <1>5, <4>1
    <3> QED BY <1>2, <1>7, <2>4, <3>1, <3>3 DEF DeniedNeverRuns
  <2> QED BY <2>2, <2>3, <2>4
<1> QED BY <1>6, <1>7 DEF DeniedNeverRuns, Matches

\* What a run is told, and how its question ends.
LEMMA ResolveDenies ==
  ASSUME IInv, DeniesHold, DeniedNeverRuns, NEW r \in Run,
         NEW decision \in Answer \cup {"expired", "interrupted"}, Resolve(r, decision), Blocked(r)
  PROVE  (DeniesHold /\ DeniedNeverRuns)'
<1> DEFINE rec == [gate[r] EXCEPT !.pc = "deciding", !.box = "none"]
<1>1. gate[r] \in GateRecord /\ gate \in [Run -> GateRecord] BY DEF IInv, TypeOK
<1>2. gate' = [gate EXCEPT ![r] = rec] BY <1>1 DEF Resolve
<1>3. /\ rec.pc = "deciding" /\ rec.calls = gate[r].calls
      /\ rec.machine = gate[r].machine /\ rec.rules = gate[r].rules
  BY <1>1 DEF GateRecord
<1> HIDE DEF rec
<1>4. gate'[r] = rec /\ \A s \in Run : s # r => gate'[s] = gate[s] BY <1>1, <1>2
<1>5. \A q \in Question : outcome'[q] = outcome[q] \/ q = Asking(r)
  BY DEF Resolve, IInv, TypeOK
<1>6. Asking(r)[1] = r BY DEF Asking
<1> QED BY <1>3, <1>4, <1>5, <1>6, DenyKept DEF Blocked

\* A step that touches only how far a run has come.
LEMMA WaitDenies ==
  ASSUME IInv, DeniesHold, DeniedNeverRuns, NEW r \in Run, NEW rec,
         gate' = [gate EXCEPT ![r] = rec], UNCHANGED outcome,
         /\ rec.machine = gate[r].machine /\ rec.rules = gate[r].rules
         /\ rec.calls = gate[r].calls
         /\ rec.pc = gate[r].pc \/ (Blocked(r) /\ rec.pc \in {"givingUp", "outrun"})
  PROVE  (DeniesHold /\ DeniedNeverRuns)'
<1>1. gate \in [Run -> GateRecord] BY DEF IInv, TypeOK
<1>2. gate'[r] = rec /\ \A s \in Run : s # r => gate'[s] = gate[s] BY <1>1
<1> QED BY <1>2, DenyKept DEF Blocked

\* One case per action.
LEMMA StepDenies ==
  ASSUME IInv, DeniesHold, DeniedNeverRuns, [Next]_vars PROVE (DeniesHold /\ DeniedNeverRuns)'
<1>1. CASE UNCHANGED <<gate, outcome>> BY <1>1, DenyKept DEF Blocked
<1>2. ASSUME NEW r \in Run, TakeAnswer(r) PROVE (DeniesHold /\ DeniedNeverRuns)'
  <2>1. Blocked(r) /\ gate[r].box \in Answer
    BY <1>2, GateTyped DEF TakeAnswer, Blocked, GateRecord
  <2> QED BY <1>2, <2>1, ResolveDenies DEF TakeAnswer
<1>3. ASSUME NEW r \in Run, giveUp(r) PROVE (DeniesHold /\ DeniedNeverRuns)'
  <2>1. Blocked(r) /\ gate[r] \in GateRecord BY <1>3, GateTyped DEF giveUp, Blocked
  <2>2. CASE Asking(r) \in open
    <3>1. gate[r].why \in {"expired", "interrupted"} BY <1>3 DEF giveUp, IInv, GaveReason
    <3> QED BY <1>3, <2>1, <2>2, <3>1, ResolveDenies DEF giveUp
  <2>3. CASE Asking(r) \notin open
    <3> DEFINE rec == [gate[r] EXCEPT !.pc = "outrun"]
    <3>1. gate' = [gate EXCEPT ![r] = rec] /\ UNCHANGED outcome
      BY <1>3, <2>1, <2>3 DEF giveUp, IInv, TypeOK
    <3>2. /\ rec.machine = gate[r].machine /\ rec.rules = gate[r].rules
          /\ rec.calls = gate[r].calls /\ rec.pc = "outrun"
      BY <2>1 DEF GateRecord
    <3> HIDE DEF rec
    <3> QED BY <2>1, <3>1, <3>2, WaitDenies
  <2> QED BY <2>2, <2>3
<1>4. ASSUME NEW r \in Run, NEW why \in {"expired", "interrupted"}, StopWaiting(r, why)
      PROVE  (DeniesHold /\ DeniedNeverRuns)'
  <2> DEFINE rec == [gate[r] EXCEPT !.pc = "givingUp", !.why = why]
  <2>1. Blocked(r) /\ gate[r] \in GateRecord BY <1>4, GateTyped DEF StopWaiting, Blocked
  <2>2. gate' = [gate EXCEPT ![r] = rec] /\ UNCHANGED outcome
    BY <1>4, <2>1 DEF StopWaiting, IInv, TypeOK
  <2>3. /\ rec.machine = gate[r].machine /\ rec.rules = gate[r].rules
        /\ rec.calls = gate[r].calls /\ rec.pc = "givingUp"
    BY <2>1 DEF GateRecord
  <2> HIDE DEF rec
  <2> QED BY <2>1, <2>2, <2>3, WaitDenies
<1>5. ASSUME NEW r \in Run, Interrupt(r) PROVE (DeniesHold /\ DeniedNeverRuns)'
  <2> DEFINE rec == [gate[r] EXCEPT !.stopped = TRUE]
  <2>1. gate[r] \in GateRecord BY GateTyped
  <2>2. gate' = [gate EXCEPT ![r] = rec] /\ UNCHANGED outcome
    BY <1>5, <2>1 DEF Interrupt, IInv, TypeOK
  <2>3. /\ rec.machine = gate[r].machine /\ rec.rules = gate[r].rules
        /\ rec.calls = gate[r].calls /\ rec.pc = gate[r].pc
    BY <2>1 DEF GateRecord
  <2> HIDE DEF rec
  <2> QED BY <2>2, <2>3, WaitDenies
<1>6. ASSUME NEW h \in Handler, SendAnswer(h) PROVE (DeniesHold /\ DeniedNeverRuns)'
  <2> DEFINE r == request[h].q[1]
             rec == [gate[r] EXCEPT !.box = request[h].answer]
  <2>1. request[h].pc # "idle" BY <1>6 DEF SendAnswer
  <2>2. r \in Run /\ gate[r] \in GateRecord BY <2>1, RequestTyped, GateTyped
  <2>3. gate' = [gate EXCEPT ![r] = rec] /\ UNCHANGED outcome
    BY <1>6, <2>2 DEF SendAnswer, IInv, TypeOK
  <2>4. /\ rec.machine = gate[r].machine /\ rec.rules = gate[r].rules
        /\ rec.calls = gate[r].calls /\ rec.pc = gate[r].pc
    BY <2>2 DEF GateRecord
  <2> HIDE DEF r, rec
  <2> QED BY <2>2, <2>3, <2>4, WaitDenies
<1>7. ASSUME NEW h \in Handler, ~SendAnswer(h), Proceed(h) \/ WriteFails(h)
      PROVE  UNCHANGED <<gate, outcome>>
  BY <1>7 DEF Proceed, WriteFails, NothingToAllow, PutBack, ReadRules, Truncate, WriteRules
<1> QED
  BY <1>1, <1>2, <1>3, <1>4, <1>5, <1>6, <1>7, StartDenies, CheckDenies
  DEF Next, vars, TakeQuestion

\* No call runs that the machine's policy denied when its run resolved its rules,
\* whatever the notebook allows and whatever a person answers (mergePolicy, decide).
THEOREM DeniedCallsNeverRun == Spec => []DeniedNeverRuns
<1>1. Init => DeniesHold /\ DeniedNeverRuns
  BY DEF Init, NotStarted, DeniesHold, DeniedNeverRuns
<1> QED BY <1>1, InitInv, StepInv, StepDenies, PTL DEF Spec

------------------------------------------------------------------------------

\* "Always" is about to be answered, or was.
Promised(h) == request[h].pc \in {"sending", "ok"} /\ request[h].answer = "always"

\* As long as no request has read a file that was not whole, one rewrites it at a
\* time, and what it is about to write keeps every rule that was promised.
RulesKept ==
  ~unsafe =>
    /\ \A h, g \in Handler : Writing(h) /\ Writing(g) => h = g
    /\ \A h \in Handler :
         Promised(h) =>
           /\ file # Garbled => RuleFor(request[h].q) \in file.allow
           /\ \A g \in Handler : Writing(g) => RuleFor(request[h].q) \in request[g].policy.allow

\* The call a rule was promised for was made.
LEMMA RuleSettled ==
  ASSUME IInv, NEW h \in Handler, Promised(h)
  PROVE  /\ request[h].q[1] \in Run
         /\ request[h].q[2] \in 1..Len(gate[request[h].q[1]].calls)
<1> DEFINE q == request[h].q
<1>1. request[h].pc # "idle" BY DEF Promised
<1>2. q[1] \in Run /\ q[2] \in Nat /\ q[2] > 0 BY <1>1, RequestTyped DEF Question
<1>3. Len(gate[q[1]].calls) \in Nat BY <1>2, GateTyped
<1>4. CASE Ok(h)
  <2>1. q[2] <= Len(gate[q[1]].calls) BY <1>4 DEF IInv, AnswerArrives
  <2> QED BY <1>2, <1>3, <2>1
<1>5. CASE Holding(h)
  <2>1. q = Asking(q[1]) BY <1>5 DEF IInv, HeldIsAsked
  <2>2. q[2] = Len(gate[q[1]].calls) BY <2>1 DEF Asking
  <2> QED BY <1>2, <1>3, <2>2
<1> QED BY <1>4, <1>5 DEF Promised, Ok, Holding

\* A step of a run, whatever it calls.
LEMMA RunKeepsRules ==
  ASSUME IInv, RulesKept, UNCHANGED <<file, request, unsafe>>,
         \A r \in Run : \/ gate'[r].calls = gate[r].calls
                        \/ \E call \in Call : gate'[r].calls = Append(gate[r].calls, call)
  PROVE  RulesKept'
<1>1. ASSUME NEW h \in Handler, Promised(h) PROVE RuleFor(request[h].q)' = RuleFor(request[h].q)
  <2> DEFINE q == request[h].q
             calls == gate[q[1]].calls
  <2>1. q[1] \in Run /\ q[2] \in 1..Len(calls) BY <1>1, RuleSettled
  <2>2. calls \in Seq(Call) BY <2>1, GateTyped DEF GateRecord
  <2>3. gate'[q[1]].calls[q[2]] = calls[q[2]]
    <3>1. CASE gate'[q[1]].calls = calls BY <3>1
    <3>2. CASE \E call \in Call : gate'[q[1]].calls = Append(calls, call)
      <4> HIDE DEF calls
      <4> QED BY <2>1, <2>2, <3>2
    <3> QED BY <2>1, <3>1, <3>2
  <2> QED BY <2>3 DEF RuleFor, CallOf
<1> QED BY <1>1 DEF RulesKept, Promised, Writing

\* A step of a request that promises nothing and starts no rewriting.
LEMMA RequestKeepsRules ==
  ASSUME IInv, RulesKept, NEW h \in Handler, NEW rec,
         request' = [request EXCEPT ![h] = rec],
         \A r \in Run : gate'[r].calls = gate[r].calls,
         UNCHANGED unsafe, file' \in {file, Garbled},
         rec.pc \in {"truncating", "writing"} => Writing(h) /\ rec.policy = request[h].policy,
         rec.pc \in {"sending", "ok"} /\ rec.answer = "always" =>
           Promised(h) /\ rec.q = request[h].q
  PROVE  RulesKept'
<1>1. request'[h] = rec /\ \A g \in Handler : g # h => request'[g] = request[g]
  BY DEF IInv, TypeOK
<1>2. \A g \in Handler : Promised(g)' => Promised(g) /\ request'[g].q = request[g].q
  BY <1>1 DEF Promised
<1>3. \A g \in Handler : Writing(g)' => Writing(g) /\ request'[g].policy = request[g].policy
  BY <1>1 DEF Writing
<1>4. \A g \in Handler : Promised(g)' => RuleFor(request[g].q)' = RuleFor(request[g].q)
  BY <1>2, RuleSettled DEF RuleFor, CallOf
<1>5. ASSUME NEW g \in Handler, Promised(g)'
      PROVE  RuleFor(request[g].q)' = RuleFor(request[g].q)
  BY <1>4, <1>5
<1> QED BY <1>2, <1>3, <1>5 DEF RulesKept

\* appendAllowRule's read: what it is to write has every promised rule.
LEMMA ReadKeepsRules ==
  ASSUME IInv, RulesKept, NEW h \in Handler, ReadRules(h) PROVE RulesKept'
<1> DEFINE policy == loadPolicyRules(file)
           rule == RuleFor(request[h].q)
           pc == IF rule \in policy.allow THEN "sending" ELSE "truncating"
           rec == [request[h] EXCEPT !.policy = policy, !.pc = pc]
<1> SUFFICES ASSUME ~unsafe' PROVE RulesKept' BY DEF RulesKept
<1>1. /\ ~unsafe /\ file # Garbled /\ ~(\E g \in Handler : Writing(g))
      /\ UNCHANGED <<file, gate>>
  BY DEF ReadRules
<1>2. policy = file BY <1>1 DEF loadPolicyRules
<1>3. request' = [request EXCEPT ![h] = rec] BY DEF ReadRules, IInv, TypeOK
<1>4. request[h] \in Taken BY RequestTyped DEF ReadRules
<1>5. rec.pc = pc /\ rec.policy = file /\ rec.q = request[h].q BY <1>2, <1>4 DEF Taken
<1>6. pc \in {"sending", "truncating"} /\ (pc = "sending" => rule \in file.allow) BY <1>2
<1> HIDE DEF rec, pc, policy
<1>7. request'[h] = rec /\ \A g \in Handler : g # h => request'[g] = request[g]
  BY <1>3 DEF IInv, TypeOK
<1>8. \A g \in Handler : Writing(g)' => g = h /\ request'[g].policy = file
  BY <1>1, <1>5, <1>7 DEF Writing
<1>9. ASSUME NEW g \in Handler, Promised(g)' PROVE RuleFor(request[g].q)' \in file.allow
  <2>1. CASE g = h
    <3>1. pc = "sending" /\ request'[g].q = request[h].q
      BY <1>5, <1>6, <1>7, <1>9, <2>1 DEF Promised
    <3> QED BY <1>1, <1>6, <3>1 DEF RuleFor, CallOf, rule
  <2>2. CASE g # h
    <3>1. Promised(g) /\ request'[g] = request[g] BY <1>7, <1>9, <2>2 DEF Promised
    <3>2. RuleFor(request[g].q) \in file.allow BY <1>1, <3>1 DEF RulesKept
    <3> QED BY <1>1, <3>1, <3>2 DEF RuleFor, CallOf
  <2> QED BY <2>1, <2>2
<1> QED BY <1>1, <1>8, <1>9 DEF RulesKept

\* os.WriteFile's write: the file has them again, and the new one.
LEMMA WriteKeepsRules ==
  ASSUME IInv, RulesKept, NEW h \in Handler, WriteRules(h) PROVE RulesKept'
<1> DEFINE rule == RuleFor(request[h].q)
           rec == [request[h] EXCEPT !.pc = "sending"]
<1> SUFFICES ASSUME ~unsafe PROVE RulesKept' BY DEF RulesKept, WriteRules
<1>1. request[h].pc # "idle" /\ Writing(h) BY DEF WriteRules, Writing
<1>2. /\ rec.pc = "sending" /\ rec.q = request[h].q
      /\ request' = [request EXCEPT ![h] = rec]
  BY <1>1, BecomeRecord DEF WriteRules
<1>3. request'[h] = rec /\ \A g \in Handler : g # h => request'[g] = request[g]
  BY <1>2 DEF IInv, TypeOK
<1>4. UNCHANGED gate /\ file'.allow = request[h].policy.allow \cup {rule}
  <2>1. request[h].policy \in Policy BY <1>1, RequestTyped
  <2> QED BY <2>1 DEF WriteRules, Policy
<1> HIDE DEF rec
<1>5. \A g \in Handler : ~Writing(g)'
  BY <1>1, <1>2, <1>3 DEF RulesKept, Writing
<1>6. ASSUME NEW g \in Handler, Promised(g)' PROVE RuleFor(request[g].q)' \in file'.allow
  <2>1. CASE g = h BY <1>2, <1>3, <1>4, <2>1 DEF RuleFor, CallOf
  <2>2. CASE g # h
    <3>1. Promised(g) /\ request'[g] = request[g] BY <1>3, <1>6, <2>2 DEF Promised
    <3>2. RuleFor(request[g].q) \in request[h].policy.allow
      BY <1>1, <3>1 DEF RulesKept
    <3> QED BY <1>4, <3>1, <3>2 DEF RuleFor, CallOf
  <2> QED BY <2>1, <2>2
<1> QED BY <1>5, <1>6 DEF RulesKept

\* What a run's step does to its calls.
LEMMA CallsGrow ==
  ASSUME IInv, NEW r \in Run,
         \/ \E own \in Own : newPolicyGate(r, own)
         \/ \E call \in Call : check(r, call)
         \/ \E why \in {"expired", "interrupted"} : StopWaiting(r, why)
         \/ TakeAnswer(r) \/ giveUp(r) \/ Interrupt(r)
  PROVE  /\ UNCHANGED <<file, request, unsafe>>
         /\ \A s \in Run : \/ gate'[s].calls = gate[s].calls
                           \/ \E call \in Call : gate'[s].calls = Append(gate[s].calls, call)
<1>1. gate \in [Run -> GateRecord] /\ gate[r] \in GateRecord BY DEF IInv, TypeOK
<1>2. CASE \E own \in Own : newPolicyGate(r, own)
  <2>1. PICK own \in Own : newPolicyGate(r, own) BY <1>2
  <2> DEFINE machine == loadPolicyRules(file)
             rec == [gate[r] EXCEPT !.pc = "deciding", !.machine = machine,
                                    !.rules = mergePolicy(machine, own)]
  <2>2. gate' = [gate EXCEPT ![r] = rec] /\ UNCHANGED <<file, request, unsafe>>
    BY <1>1, <2>1 DEF newPolicyGate
  <2>3. rec.calls = gate[r].calls BY <1>1 DEF GateRecord
  <2> HIDE DEF rec
  <2> QED BY <1>1, <2>2, <2>3
<1>3. ASSUME NEW call \in Call, check(r, call)
      PROVE  /\ UNCHANGED <<file, request, unsafe>>
             /\ gate'[r].calls = Append(gate[r].calls, call)
             /\ \A s \in Run : s # r => gate'[s] = gate[s]
  <2> DEFINE called == [gate EXCEPT ![r].calls = Append(@, call)]
             verdict == decide(gate[r].rules, call)
  <2>1. /\ called[r].calls = Append(gate[r].calls, call)
        /\ \A s \in Run : s # r => called[s] = gate[s]
    BY <1>1 DEF GateRecord
  <2>2. CASE verdict = "ask"
    <3>1. gate' = [called EXCEPT ![r].pc = "waiting", ![r].box = "none"]
      BY <1>3, <2>2 DEF check
    <3> QED BY <1>1, <1>3, <3>1 DEF check, GateRecord
  <2>3. CASE verdict # "ask"
    <3>1. gate' = called BY <1>3, <2>3 DEF check
    <3> QED BY <1>3, <2>1, <3>1 DEF check
  <2> QED BY <2>2, <2>3
<1>4. CASE \E why \in {"expired", "interrupted"} : StopWaiting(r, why)
  BY <1>1, <1>4 DEF StopWaiting, GateRecord
<1>5. CASE TakeAnswer(r) BY <1>1, <1>5 DEF TakeAnswer, Resolve, GateRecord
<1>6. CASE giveUp(r)
  <2>1. CASE Asking(r) \in open
    <3>1. /\ gate' = [gate EXCEPT ![r].pc = "deciding", ![r].box = "none"]
          /\ UNCHANGED <<file, request, unsafe>>
      BY <1>6, <2>1 DEF giveUp, Resolve
    <3> QED BY <1>1, <3>1 DEF GateRecord
  <2>2. CASE Asking(r) \notin open BY <1>1, <1>6, <2>2 DEF giveUp, GateRecord
  <2> QED BY <2>1, <2>2
<1>7. CASE Interrupt(r) BY <1>1, <1>7 DEF Interrupt, GateRecord
<1> QED BY <1>2, <1>3, <1>4, <1>5, <1>6, <1>7

\* One case per action.
LEMMA StepKeepsRules == ASSUME IInv, RulesKept, [Next]_vars PROVE RulesKept'
<1>1. CASE UNCHANGED vars BY <1>1, RunKeepsRules DEF vars
<1>2. ASSUME NEW h \in Handler, NEW q \in Question, NEW decision \in Answer,
             TakeQuestion(h, q, decision)
      PROVE  RulesKept'
  <2> DEFINE rec == [pc |-> IF decision = "always" THEN "reading" ELSE "sending",
                     q |-> q, answer |-> decision, policy |-> Defaults]
  <2>1. /\ request' = [request EXCEPT ![h] = rec] /\ UNCHANGED <<file, gate, unsafe>>
    BY <1>2 DEF TakeQuestion
  <2>2. /\ rec.pc \notin {"truncating", "writing"}
        /\ ~(rec.pc \in {"sending", "ok"} /\ rec.answer = "always")
    OBVIOUS
  <2> HIDE DEF rec
  <2> QED BY <2>1, <2>2, RequestKeepsRules
<1>3. ASSUME NEW h \in Handler, NEW pc \in {"writing", "ok", "failed"}, Become(h, pc),
             \A r \in Run : gate'[r].calls = gate[r].calls,
             UNCHANGED unsafe, file' \in {file, Garbled},
             \/ pc = "writing" /\ request[h].pc = "truncating"
             \/ pc = "ok" /\ request[h].pc = "sending"
             \/ pc = "failed" /\ request[h].pc # "idle"
      PROVE  RulesKept'
  <2> DEFINE rec == [request[h] EXCEPT !.pc = pc]
  <2>1. request[h].pc # "idle" BY <1>3
  <2>2. request[h] \in Taken BY <2>1, RequestTyped
  <2>3. /\ rec.pc = pc /\ rec.q = request[h].q /\ rec.answer = request[h].answer
        /\ rec.policy = request[h].policy
    BY <2>2 DEF Taken
  <2>4. request' = [request EXCEPT ![h] = rec] BY <1>3 DEF Become, IInv, TypeOK
  <2> HIDE DEF rec
  <2> QED BY <1>3, <2>3, <2>4, RequestKeepsRules DEF Promised, Writing
<1>4. ASSUME NEW h \in Handler, SendAnswer(h) PROVE RulesKept'
  <2>1. request[h].pc # "idle" BY <1>4 DEF SendAnswer
  <2>2. request[h].q[1] \in Run BY <2>1, RequestTyped
  <2>3. \A r \in Run : gate'[r].calls = gate[r].calls
    BY <1>4, <2>2 DEF SendAnswer, IInv, TypeOK, GateRecord
  <2> QED BY <1>3, <1>4, <2>3 DEF SendAnswer
<1>5. ASSUME NEW h \in Handler, NothingToAllow(h) \/ WriteFails(h) PROVE RulesKept'
  BY <1>3, <1>5 DEF NothingToAllow, WriteFails, PutBack, Writing
<1>6. ASSUME NEW h \in Handler, Truncate(h) PROVE RulesKept'
  BY <1>3, <1>6 DEF Truncate
<1>7. ASSUME NEW r \in Run,
             \/ \E own \in Own : newPolicyGate(r, own)
             \/ \E call \in Call : check(r, call)
             \/ \E why \in {"expired", "interrupted"} : StopWaiting(r, why)
             \/ TakeAnswer(r) \/ giveUp(r) \/ Interrupt(r)
      PROVE  RulesKept'
  BY <1>7, CallsGrow, RunKeepsRules
<1> QED
  BY <1>1, <1>2, <1>4, <1>5, <1>6, <1>7, ReadKeepsRules, WriteKeepsRules
  DEF Next, Proceed

\* A call that was answered with "always" is not asked about again, as long as its rule
\* applies to it and no request found the permissions file truncated or being rewritten
\* (appendAllowRule, decide).
THEOREM AlwaysIsKept == Spec => []AlwaysIsNotAskedAgain
<1>1. Init => RulesKept
  BY DEF Init, RulesKept, Writing, Promised
<1>2. RulesKept => AlwaysIsNotAskedAgain
  <2> SUFFICES ASSUME RulesKept, file # Garbled, ~unsafe, NEW h \in Handler,
                      request[h].pc = "ok", request[h].answer = "always", NEW own \in Own,
                      RuleApplies(CallOf(request[h].q))
               PROVE  decide(mergePolicy(file, own), CallOf(request[h].q)) # "ask"
    BY DEF AlwaysIsNotAskedAgain
  <2> DEFINE call == CallOf(request[h].q)
             policy == mergePolicy(file, own)
  <2>1. RuleFor(request[h].q) \in file.allow BY DEF RulesKept, Promised
  <2>2. Proposed[call] \in policy.allow BY <2>1 DEF RuleFor, mergePolicy
  <2>3. call \notin Chained /\ Matches(policy.allow, call)
    BY <2>2 DEF RuleApplies, Matches
  <2> HIDE DEF call, policy
  <2>4. decide(policy, call) # "ask" BY <2>3 DEF decide
  <2> QED BY <2>4 DEF call, policy
<1> QED BY <1>1, <1>2, InitInv, StepInv, StepKeepsRules, PTL DEF Spec

------------------------------------------------------------------------------
\* SessionPrompts.

\* The blocks.
Block == [of : Prompts!Question, key : Key, shown : BOOLEAN, verdict : 0..MaxAsked]

\* What a handler, the sweeper or a click has in hand is a question.
InHand ==
  /\ \A h \in Notifier :
       /\ hook[h].pc \in {"set", "record", "append"} => hook[h].of \in Prompts!Question
       /\ hook[h].pc \in {"record", "append"} => hook[h].key \in Key
       /\ hook[h].pc = "append" => hook[h].block \in DOMAIN block
  /\ sweeper.pc # "idle" => sweeper.of \in Prompts!Question
  /\ \A a \in Clicker : answer[a].pc = "resolve" => answer[a].of \in Prompts!Question

\* A block that is not in the notebook yet is on its way there.
Landing ==
  \A b \in DOMAIN block :
    ~block[b].shown => \E h \in Notifier : hook[h].pc = "append" /\ hook[h].block = b

\* A pending question is being recorded, or stands, or one like it, or was answered.
Recorded ==
  pending # Prompts!Nothing /\ ~crossed =>
    \/ \E h \in Notifier : hook[h].pc = "read"
    \/ \E h \in Notifier :
         hook[h].pc = "record" /\ hook[h].of = pending.of /\ hook[h].key = pending.key
    \/ \E b \in DOMAIN block : block[b].verdict = Prompts!NoQ /\ block[b].key = pending.key
    \/ \E b \in DOMAIN block : block[b].verdict = pending.of

PromptsInv == Prompts!TypeOK /\ InHand /\ Landing /\ Recorded

------------------------------------------------------------------------------

LEMMA InitPrompts == ASSUME MaxAsked \in Nat, MaxPosts \in Nat, Prompts!Init PROVE PromptsInv
<1> USE DEF Prompts!NoQ, Prompts!NoBlock
<1>1. /\ block = <<>> /\ standing = Prompts!NoBlock
      /\ pending = Prompts!Nothing
      /\ misread = FALSE /\ crossed = FALSE
  BY DEF Prompts!Init
<1>2. asked \in 0..MaxAsked /\ dialog \in 0..asked /\ posts \in 0..MaxPosts
  <2>1. dialog = 0 /\ asked = 0 /\ posts = 0
    BY DEF Prompts!Init
  <2> QED BY <2>1
<1>3. hook \in [Notifier -> [pc : {"idle", "clear", "set", "read", "record", "append"},
                            of : 0..MaxAsked, key : Key \cup {Prompts!NoKey},
                            block : {Prompts!NoBlock} \cup DOMAIN block]]
  <2>1. hook = [h \in Notifier |-> Prompts!Idle]
    BY DEF Prompts!Init
  <2> QED BY <2>1 DEF Prompts!Idle
<1>4. sweeper \in [pc : {"idle", "clear", "resolve"}, of : 0..MaxAsked]
  <2>1. sweeper = [pc |-> "idle", of |-> Prompts!NoQ]
    BY DEF Prompts!Init
  <2> QED BY <2>1
<1>5. answer \in [Clicker -> [pc : {"idle", "resolve", "done"}, of : 0..MaxAsked,
                            keys : {"none", "primary", "sleeping", "done"}]]
  <2>1. answer = [a \in Clicker |-> [pc |-> "idle", of |-> Prompts!NoQ, keys |-> "none"]]
    BY DEF Prompts!Init
  <2> QED BY <2>1
<1>6. InHand
  BY DEF Prompts!Init, InHand, Prompts!Idle
<1>7. block \in Seq(Block) /\ DOMAIN block = {}
  BY <1>1
<1> QED BY <1>1, <1>2, <1>3, <1>4, <1>5, <1>6, <1>7 DEF PromptsInv, Prompts!TypeOK, Landing,
    Recorded, Block

\* A verdict keeps the blocks' types, and the invariant about what is pending.
LEMMA VerdictStep ==
  ASSUME PromptsInv, MaxAsked \in Nat, NEW of \in Prompts!Question, Prompts!resolveApproval(of),
         UNCHANGED pending
  PROVE  /\ block' \in Seq(Block) /\ Len(block') = Len(block) /\ DOMAIN block' = DOMAIN block
         /\ standing' = Prompts!NoBlock /\ crossed' \in BOOLEAN
         /\ \A b \in DOMAIN block :
              block'[b].shown = block[b].shown /\ block'[b].key = block[b].key
         /\ UNCHANGED hook => Recorded'
<1> USE DEF Prompts!NoQ, Prompts!NoBlock
<1>1. /\ block \in Seq(Block) /\ crossed \in BOOLEAN
      /\ standing # Prompts!NoBlock =>
           standing \in DOMAIN block /\ block[standing].verdict = Prompts!NoQ
      /\ pending # Prompts!Nothing => pending.of \in Prompts!Question
  BY DEF PromptsInv, Prompts!TypeOK, Block
<1>2. CASE standing = Prompts!NoBlock
  BY <1>1, <1>2 DEF Prompts!resolveApproval, PromptsInv, Recorded
<1>3. CASE standing # Prompts!NoBlock
  <2>1. block' = [block EXCEPT ![standing].verdict = of]
    BY <1>3 DEF Prompts!resolveApproval
  <2>2. crossed' = (crossed \/ pending.of \notin {Prompts!NoQ, of})
    BY <1>3 DEF Prompts!resolveApproval
  <2>3. /\ block' \in Seq(Block) /\ Len(block') = Len(block) /\ DOMAIN block' = DOMAIN block
    <3>1. standing \in 1..Len(block) /\ block[standing] \in Block
      BY <1>1, <1>3
    <3>2. [block[standing] EXCEPT !.verdict = of] \in Block
      BY <3>1 DEF Block, Prompts!Question
    <3>3. block' = [block EXCEPT ![standing] = [block[standing] EXCEPT !.verdict = of]]
      BY <2>1
    <3> QED BY <1>1, <3>1, <3>2, <3>3, ExceptSeq
  <2>4. \A b \in DOMAIN block :
          block'[b] = IF b = standing THEN [block[b] EXCEPT !.verdict = of] ELSE block[b]
    BY <1>1, <1>3, <2>1
  <2>5. \A b \in DOMAIN block : block[b] \in Block
    BY <1>1
  <2>6. \A b \in DOMAIN block :
          /\ block'[b].shown = block[b].shown /\ block'[b].key = block[b].key
          /\ block'[b].verdict = IF b = standing THEN of ELSE block[b].verdict
    BY <2>4, <2>5 DEF Block
  <2>7. ASSUME UNCHANGED hook PROVE Recorded'
    <3>1. SUFFICES ASSUME pending # Prompts!Nothing, ~crossed, pending.of = of PROVE Recorded'
      <4>1. SUFFICES ASSUME pending # Prompts!Nothing, ~crossed' PROVE Recorded'
        BY DEF Recorded, Prompts!resolveApproval
      <4>2. ~crossed /\ pending.of \in {Prompts!NoQ, of}
        BY <2>2, <4>1, Zenon
      <4> QED BY <1>1, <4>1, <4>2 DEF Prompts!Question
    <3>2. CASE \E h \in Notifier : hook[h].pc = "read"
      BY <2>7, <3>2 DEF Recorded
    <3>3. CASE \E h \in Notifier :
                 hook[h].pc = "record" /\ hook[h].of = pending.of /\ hook[h].key = pending.key
      BY <2>7, <3>3 DEF Recorded
    <3>4. CASE \E b \in DOMAIN block : block[b].verdict = Prompts!NoQ /\ block[b].key = pending.key
      BY <1>1, <1>3, <2>3, <2>6, <3>1 DEF Recorded
    <3>5. CASE \E b \in DOMAIN block : block[b].verdict = pending.of
      BY <1>1, <1>3, <2>3, <2>6, <3>1, <3>5 DEF Recorded, Prompts!Question
    <3> QED BY <3>1, <3>2, <3>3, <3>4, <3>5 DEF PromptsInv, Recorded
  <2> QED BY <1>1, <1>3, <2>2, <2>3, <2>6, <2>7 DEF Prompts!resolveApproval
<1> QED BY <1>2, <1>3

------------------------------------------------------------------------------
\* The steps: the CLI, the sweeper's test, a click and keystrokes touch no question.

OutsideOK ==
  /\ asked \in 0..MaxAsked /\ dialog \in 0..asked /\ misread \in BOOLEAN
  /\ sweeper \in [pc : {"idle", "clear", "resolve"}, of : 0..MaxAsked]
  /\ sweeper.pc # "idle" => sweeper.of \in Prompts!Question
  /\ answer \in [Clicker -> [pc : {"idle", "resolve", "done"}, of : 0..MaxAsked,
                            keys : {"none", "primary", "sleeping", "done"}]]
  /\ \A a \in Clicker : answer[a].pc = "resolve" => answer[a].of \in Prompts!Question

LEMMA OutsideStep ==
  ASSUME PromptsInv, MaxAsked \in Nat, MaxPosts \in Nat,
         \/ Prompts!Ask \/ Prompts!AnswerInTerminal \/ Prompts!Sweep
         \/ \E a \in Clicker :
              \/ Prompts!handleCellApprove(a) \/ Prompts!handleAgentAnswer(a)
              \/ Prompts!writePrimary(a) \/ Prompts!writeFallback(a)
  PROVE  PromptsInv'
<1> USE DEF Prompts!NoQ, Prompts!NoBlock
<1>1. UNCHANGED <<hook, Prompts!session, crossed>> /\ posts' = posts
  BY DEF Prompts!Ask, Prompts!AnswerInTerminal, Prompts!Sweep, Prompts!handleCellApprove,
      Prompts!handleAgentAnswer, Prompts!Click, Prompts!writePrimary,
    Prompts!writeFallback, Prompts!cli
<1>2. Landing' /\ Recorded'
  BY <1>1 DEF PromptsInv, Landing, Recorded, Prompts!session
<1>3. OutsideOK'
  <2> USE DEF PromptsInv, Prompts!TypeOK, InHand, OutsideOK
  <2>1. pending # Prompts!Nothing => pending.of \in Prompts!Question
    BY DEF PromptsInv, Prompts!TypeOK
  <2>2. CASE Prompts!Ask
    BY <2>2 DEF Prompts!Ask
  <2>3. CASE Prompts!AnswerInTerminal
    BY <2>3 DEF Prompts!AnswerInTerminal
  <2>4. CASE Prompts!Sweep
    <3>1. pending.of \in Prompts!Question
      BY <2>1, <2>4 DEF Prompts!Sweep, Prompts!pendingExpired, Prompts!Nothing
    <3> QED BY <2>4, <3>1 DEF Prompts!Sweep, Prompts!cli, Prompts!Question
  <2>5. ASSUME NEW a \in Clicker, NEW pc \in {"resolve", "done"}, Prompts!Click(a, pc),
               pc = "resolve" => pending # Prompts!Nothing
        PROVE  OutsideOK'
    BY <2>1, <2>5 DEF Prompts!Click, Prompts!cli, Prompts!Question, Prompts!Nothing
  <2>6. ASSUME NEW a \in Clicker, Prompts!writePrimary(a) PROVE OutsideOK'
    <3> DEFINE row == [pc : {"idle", "resolve", "done"}, of : 0..MaxAsked,
                       keys : {"none", "primary", "sleeping", "done"}]
               new == [answer[a] EXCEPT !.keys = "sleeping"]
    <3>1. /\ asked' = asked /\ sweeper' = sweeper /\ misread' = misread
          /\ dialog' \in {dialog, Prompts!NoQ} /\ answer' = [answer EXCEPT ![a] = new]
      BY <2>6 DEF Prompts!writePrimary, Prompts!Type
    <3>2. answer[a] \in row OBVIOUS
    <3>3. new \in row /\ new.pc = answer[a].pc /\ new.of = answer[a].of BY <3>2
    <3>4. answer \in [Clicker -> row] OBVIOUS
    <3> HIDE DEF row, new
    <3>5. /\ answer' \in [Clicker -> row]
          /\ \A b \in Clicker : answer'[b].pc = answer[b].pc /\ answer'[b].of = answer[b].of
      BY <3>1, <3>3, <3>4
    <3>6. dialog' \in 0..asked' BY <3>1
    <3> QED BY <3>1, <3>5, <3>6 DEF row
  <2>7. ASSUME NEW a \in Clicker, Prompts!writeFallback(a) PROVE OutsideOK'
    <3>1. misread' \in BOOLEAN
      <4>1. \/ misread' = misread
            \/ misread' = (misread \/ pending.of # answer[a].of)
        BY <2>7 DEF Prompts!writeFallback
      <4> QED BY <4>1, Zenon
    <3>2. /\ asked' = asked /\ sweeper' = sweeper /\ dialog' \in {dialog, Prompts!NoQ}
          /\ answer' = [answer EXCEPT ![a].keys = "done"]
      BY <2>7 DEF Prompts!writeFallback, Prompts!Type
    <3>3. /\ answer' \in [Clicker -> [pc : {"idle", "resolve", "done"}, of : 0..MaxAsked,
                                    keys : {"none", "primary", "sleeping", "done"}]]
          /\ \A b \in Clicker : answer'[b].pc = answer[b].pc /\ answer'[b].of = answer[b].of
      <4> DEFINE row == [pc : {"idle", "resolve", "done"}, of : 0..MaxAsked,
                         keys : {"none", "primary", "sleeping", "done"}]
                 new == [answer[a] EXCEPT !.keys = "done"]
      <4>1. answer[a] \in row OBVIOUS
      <4>2. new \in row /\ new.pc = answer[a].pc /\ new.of = answer[a].of BY <4>1
      <4>3. answer' = [answer EXCEPT ![a] = new] BY <3>2
      <4> HIDE DEF row, new
      <4>4. answer \in [Clicker -> row] BY DEF row
      <4> QED BY <4>2, <4>3, <4>4 DEF row
    <3>4. dialog' \in 0..asked'
      BY <3>2
    <3> QED BY <3>1, <3>2, <3>3, <3>4
  <2> QED BY <2>2, <2>3, <2>4, <2>5, <2>6, <2>7 DEF Prompts!handleCellApprove,
      Prompts!handleAgentAnswer
<1> QED BY <1>1, <1>2, <1>3 DEF PromptsInv, Prompts!TypeOK, InHand, OutsideOK, Prompts!session

\* The sweeper's other steps and the record of a click.

LEMMA SweeperStep ==
  ASSUME PromptsInv, MaxAsked \in Nat, MaxPosts \in Nat,
         \/ Prompts!Expire \/ Prompts!clearPending \/ Prompts!ResolveExpired
         \/ \E a \in Clicker : Prompts!recordApprovalResolution(a)
  PROVE  PromptsInv'
<1> USE DEF Prompts!NoQ, Prompts!NoBlock
<1>1. CASE Prompts!Expire
  <2>1. /\ pending # Prompts!Nothing /\ pending' = [pending EXCEPT !.late = TRUE]
        /\ UNCHANGED <<Prompts!cli, hook, standing, block, sweeper, answer, misread, crossed>>
    BY <1>1 DEF Prompts!Expire
  <2>2. pending \in [of : Prompts!Question, key : Key, late : BOOLEAN]
    BY <2>1 DEF PromptsInv, Prompts!TypeOK
  <2>3. /\ pending' \in [of : Prompts!Question, key : Key, late : BOOLEAN]
        /\ pending'.of = pending.of /\ pending'.key = pending.key
    BY <2>1, <2>2
  <2>4. Prompts!TypeOK'
    BY <2>1, <2>3 DEF PromptsInv, Prompts!TypeOK, Prompts!cli
  <2>5. InHand' /\ Landing'
    BY <2>1 DEF PromptsInv, InHand, Landing
  <2>6. Recorded'
    BY <2>1, <2>3 DEF PromptsInv, Recorded
  <2> QED BY <2>4, <2>5, <2>6 DEF PromptsInv
<1>2. CASE Prompts!clearPending
  <2>1. /\ sweeper.pc = "clear" /\ sweeper' = [sweeper EXCEPT !.pc = "resolve"]
        /\ pending' = Prompts!Nothing
        /\ UNCHANGED <<Prompts!cli, hook, standing, block, answer, misread, crossed>>
    BY <1>2 DEF Prompts!clearPending
  <2>2. /\ sweeper' \in [pc : {"idle", "clear", "resolve"}, of : 0..MaxAsked]
        /\ sweeper'.of \in Prompts!Question
    BY <2>1 DEF PromptsInv, Prompts!TypeOK, InHand
  <2>3. Prompts!TypeOK'
    BY <2>1, <2>2 DEF PromptsInv, Prompts!TypeOK, Prompts!cli
  <2>4. InHand' /\ Landing' /\ Recorded'
    BY <2>1, <2>2 DEF PromptsInv, InHand, Landing, Recorded, Prompts!Nothing
  <2> QED BY <2>3, <2>4 DEF PromptsInv
<1>3. ASSUME NEW of \in Prompts!Question, Prompts!resolveApproval(of), UNCHANGED <<Prompts!cli,
    hook, pending, misread>>,
             OutsideOK'
      PROVE  PromptsInv'
  <2>1. /\ block' \in Seq(Block) /\ DOMAIN block' = DOMAIN block
        /\ standing' = Prompts!NoBlock /\ crossed' \in BOOLEAN
        /\ \A b \in DOMAIN block : block'[b].shown = block[b].shown
        /\ Recorded'
    BY <1>3, VerdictStep
  <2>2. Prompts!TypeOK'
    BY <1>3, <2>1 DEF PromptsInv, Prompts!TypeOK, OutsideOK, Block, Prompts!cli
  <2>3. InHand' /\ Landing'
    BY <1>3, <2>1 DEF PromptsInv, InHand, Landing, OutsideOK
  <2> QED BY <2>1, <2>2, <2>3 DEF PromptsInv
<1>4. CASE Prompts!ResolveExpired
  <2>1. /\ sweeper.of \in Prompts!Question /\ Prompts!resolveApproval(sweeper.of)
        /\ UNCHANGED <<Prompts!cli, hook, pending, misread, answer>>
    BY <1>4 DEF Prompts!ResolveExpired, PromptsInv, InHand
  <2>2. OutsideOK'
    BY <1>4, <2>1 DEF Prompts!ResolveExpired, OutsideOK, PromptsInv, Prompts!TypeOK, InHand,
        Prompts!cli
  <2> QED BY <1>3, <2>1, <2>2
<1>5. ASSUME NEW a \in Clicker, Prompts!recordApprovalResolution(a) PROVE PromptsInv'
  <2>1. /\ answer[a].of \in Prompts!Question /\ Prompts!resolveApproval(answer[a].of)
        /\ UNCHANGED <<Prompts!cli, hook, pending, misread, sweeper>>
        /\ answer' = [answer EXCEPT ![a].pc = "done"]
    BY <1>5 DEF Prompts!recordApprovalResolution, PromptsInv, InHand
  <2>2. /\ answer' \in [Clicker -> [pc : {"idle", "resolve", "done"}, of : 0..MaxAsked,
                                  keys : {"none", "primary", "sleeping", "done"}]]
        /\ \A b \in Clicker : /\ answer'[b].pc = "resolve" => answer[b].pc = "resolve"
                             /\ answer'[b].of = answer[b].of
    <3> DEFINE row == [pc : {"idle", "resolve", "done"}, of : 0..MaxAsked,
                       keys : {"none", "primary", "sleeping", "done"}]
               new == [answer[a] EXCEPT !.pc = "done"]
    <3>1. answer \in [Clicker -> row] BY DEF PromptsInv, Prompts!TypeOK
    <3>2. answer[a] \in row BY <3>1
    <3>3. new \in row /\ new.pc = "done" /\ new.of = answer[a].of BY <3>2
    <3>4. answer' = [answer EXCEPT ![a] = new] BY <2>1
    <3> HIDE DEF row, new
    <3> QED BY <3>1, <3>3, <3>4 DEF row
  <2>3. OutsideOK'
    BY <2>1, <2>2 DEF OutsideOK, PromptsInv, Prompts!TypeOK, InHand, Prompts!cli
  <2> QED BY <1>3, <2>1, <2>3
<1> QED BY <1>1, <1>2, <1>4, <1>5

------------------------------------------------------------------------------
\* The steps of a hook.

HookRecord ==
  [pc : {"idle", "clear", "set", "read", "record", "append"},
   of : 0..MaxAsked, key : Key \cup {Prompts!NoKey}, block : {Prompts!NoBlock} \cup DOMAIN block]

\* A hook that moves to a place where it may be leaves the others alone.
LEMMA HookMoves ==
  ASSUME PromptsInv, NEW h \in Notifier, NEW to \in HookRecord,
         hook' = [hook EXCEPT ![h] = to],
         to.pc \in {"set", "record", "append"} => to.of \in Prompts!Question,
         to.pc \in {"record", "append"} => to.key \in Key,
         to.pc = "append" => to.block \in DOMAIN block
  PROVE  /\ hook' \in [Notifier -> HookRecord]
         /\ \A g \in Notifier : hook'[g] = IF g = h THEN to ELSE hook[g]
         /\ \A g \in Notifier :
              /\ hook'[g].pc \in {"set", "record", "append"} => hook'[g].of \in Prompts!Question
              /\ hook'[g].pc \in {"record", "append"} => hook'[g].key \in Key
              /\ hook'[g].pc = "append" => hook'[g].block \in DOMAIN block
<1>1. hook \in [Notifier -> HookRecord]
  BY DEF PromptsInv, Prompts!TypeOK, HookRecord
<1>2. \A g \in Notifier : hook'[g] = IF g = h THEN to ELSE hook[g]
  BY <1>1
<1>3. hook' \in [Notifier -> HookRecord]
  BY <1>1
<1> QED BY <1>2, <1>3 DEF PromptsInv, InHand

\* Only setPending and recordApproval change what the record of a question rests on.
LEMMA HookStep ==
  ASSUME PromptsInv, MaxAsked \in Nat, MaxPosts \in Nat, NEW h \in Notifier,
         \/ Prompts!Post(h) \/ Prompts!clearPendingUnlessApproval(h)
         \/ Prompts!setPending(h) \/ Prompts!recordApprovalRequest(h)
  PROVE  PromptsInv'
<1> USE DEF Prompts!NoQ, Prompts!NoBlock
<1>1. hook \in [Notifier -> HookRecord] /\ hook[h] \in HookRecord
  BY DEF PromptsInv, Prompts!TypeOK, HookRecord
<1>2. ASSUME NEW to \in HookRecord, hook' = [hook EXCEPT ![h] = to],
             to.pc = "set" => to.of \in Prompts!Question,
             to.pc = "record" => to.of \in Prompts!Question /\ to.key \in Key,
             to.pc # "append", hook[h].pc # "append",
             posts' \in 0..MaxPosts,
             pending' \in {Prompts!Nothing} \cup [of : Prompts!Question, key : Key, late : BOOLEAN],
             UNCHANGED <<dialog, asked, standing, block, sweeper, answer, misread, crossed>>
      PROVE  Prompts!TypeOK' /\ InHand' /\ Landing'
  <2>1. /\ hook' \in [Notifier -> HookRecord]
        /\ \A g \in Notifier : hook'[g] = IF g = h THEN to ELSE hook[g]
        /\ \A g \in Notifier :
              /\ hook'[g].pc \in {"set", "record", "append"} => hook'[g].of \in Prompts!Question
              /\ hook'[g].pc \in {"record", "append"} => hook'[g].key \in Key
              /\ hook'[g].pc = "append" => hook'[g].block \in DOMAIN block
    BY <1>2, HookMoves
  <2>2. Prompts!TypeOK'
    BY <1>2, <2>1 DEF PromptsInv, Prompts!TypeOK, HookRecord
  <2>3. InHand'
    BY <1>2, <2>1 DEF PromptsInv, InHand
  <2>4. Landing'
    BY <1>2, <2>1 DEF PromptsInv, Landing
  <2> QED BY <2>2, <2>3, <2>4
<1>3. CASE Prompts!Post(h)
  <2>1. PICK of \in {Prompts!NoQ, dialog}, pc \in {"clear", "set"} :
          /\ pc = "set" => of # Prompts!NoQ
          /\ hook' = [hook EXCEPT ![h] = [Prompts!Idle EXCEPT !.pc = pc, !.of = of]]
    BY <1>3 DEF Prompts!Post
  <2>2. /\ hook[h].pc = "idle" /\ posts' \in 0..MaxPosts
        /\ UNCHANGED <<dialog, asked, Prompts!session, sweeper, answer, misread, crossed>>
    BY <1>3 DEF Prompts!Post, PromptsInv, Prompts!TypeOK
  <2> DEFINE to == [Prompts!Idle EXCEPT !.pc = pc, !.of = of]
  <2>3. of \in 0..MaxAsked
    BY DEF PromptsInv, Prompts!TypeOK
  <2>4. /\ to \in HookRecord /\ to.pc = pc /\ to.of = of
    BY <2>3 DEF Prompts!Idle, HookRecord
  <2>5. /\ to.pc = "set" => to.of \in Prompts!Question
        /\ to.pc \in {"clear", "set"}
    BY <2>1, <2>3, <2>4 DEF Prompts!Question
  <2>6. Prompts!TypeOK' /\ InHand' /\ Landing'
    <3> HIDE DEF to
    <3> QED BY <1>2, <2>1, <2>2, <2>4, <2>5 DEF Prompts!session, PromptsInv, Prompts!TypeOK, to
  <2>7. \A g \in Notifier \ {h} : hook'[g] = hook[g]
    BY <1>1, <2>1
  <2>8. Recorded'
    BY <2>2, <2>7 DEF PromptsInv, Recorded, Prompts!session
  <2> QED BY <2>6, <2>8 DEF PromptsInv
<1>4. CASE Prompts!clearPendingUnlessApproval(h)
  <2>1. /\ hook[h].pc = "clear" /\ pending' = Prompts!Nothing
        /\ UNCHANGED <<Prompts!cli, standing, block, sweeper, answer, misread, crossed>>
    BY <1>4 DEF Prompts!clearPendingUnlessApproval
  <2>2. \E to \in HookRecord :
          /\ hook' = [hook EXCEPT ![h] = to] /\ to.pc \in {"idle", "set"}
          /\ to.pc = "set" => to.of \in Prompts!Question
    <3>1. CASE hook[h].of = Prompts!NoQ
      <4>1. hook' = [hook EXCEPT ![h] = Prompts!Idle]
        BY <1>4, <3>1 DEF Prompts!clearPendingUnlessApproval
      <4>2. Prompts!Idle \in HookRecord /\ Prompts!Idle.pc = "idle"
        BY DEF Prompts!Idle, HookRecord
      <4> QED BY <4>1, <4>2
    <3>2. CASE hook[h].of # Prompts!NoQ
      <4>1. hook' = [hook EXCEPT ![h] = [hook[h] EXCEPT !.pc = "set"]]
        BY <1>4, <3>2 DEF Prompts!clearPendingUnlessApproval, Prompts!Goto
      <4>2. /\ [hook[h] EXCEPT !.pc = "set"] \in HookRecord
            /\ [hook[h] EXCEPT !.pc = "set"].pc = "set"
            /\ [hook[h] EXCEPT !.pc = "set"].of = hook[h].of
            /\ hook[h].of \in 0..MaxAsked
        BY <1>1 DEF HookRecord
      <4>3. hook[h].of \in Prompts!Question
        BY <3>2, <4>2 DEF Prompts!Question
      <4> QED BY <4>1, <4>2, <4>3
    <3> QED BY <3>1, <3>2
  <2>3. posts' \in 0..MaxPosts
    BY <2>1 DEF Prompts!cli, PromptsInv, Prompts!TypeOK
  <2>4. Prompts!TypeOK' /\ InHand' /\ Landing'
    BY <1>2, <2>1, <2>2, <2>3 DEF Prompts!cli
  <2> QED BY <2>1, <2>4 DEF PromptsInv, Recorded
<1>5. CASE Prompts!setPending(h)
  <2>1. PICK k \in Key : pending' = [of |-> hook[h].of, key |-> k, late |-> FALSE]
    BY <1>5 DEF Prompts!setPending
  <2>2. /\ hook[h].pc = "set" /\ hook[h].of \in Prompts!Question
        /\ hook' = [hook EXCEPT ![h] = [hook[h] EXCEPT !.pc = "read"]]
        /\ UNCHANGED <<Prompts!cli, standing, block, sweeper, answer, misread, crossed>>
    BY <1>5 DEF Prompts!setPending, Prompts!Goto, PromptsInv, InHand
  <2>3. /\ [hook[h] EXCEPT !.pc = "read"] \in HookRecord
        /\ [hook[h] EXCEPT !.pc = "read"].pc = "read"
    BY <1>1 DEF HookRecord
  <2>4. posts' \in 0..MaxPosts /\ pending' \in [of : Prompts!Question, key : Key, late : BOOLEAN]
    BY <2>1, <2>2 DEF Prompts!cli, PromptsInv, Prompts!TypeOK
  <2>5. Prompts!TypeOK' /\ InHand' /\ Landing'
    BY <1>2, <2>2, <2>3, <2>4 DEF Prompts!cli
  <2>6. hook'[h].pc = "read"
    BY <1>1, <2>2, <2>3
  <2> QED BY <2>5, <2>6 DEF PromptsInv, Recorded
<1>6. CASE Prompts!recordApprovalRequest(h)
  <2>1. /\ hook[h].pc = "read"
        /\ UNCHANGED <<Prompts!cli, Prompts!session, sweeper, answer, misread, crossed>>
    BY <1>6 DEF Prompts!recordApprovalRequest
  <2>2. posts' \in 0..MaxPosts
        /\ pending' \in {Prompts!Nothing} \cup [of : Prompts!Question, key : Key, late : BOOLEAN]
    BY <2>1 DEF Prompts!cli, Prompts!session, PromptsInv, Prompts!TypeOK
  <2>3. CASE pending = Prompts!Nothing
    <3>1. hook' = [hook EXCEPT ![h] = Prompts!Idle]
      BY <1>6, <2>3 DEF Prompts!recordApprovalRequest
    <3>2. Prompts!Idle \in HookRecord /\ Prompts!Idle.pc = "idle"
      BY DEF Prompts!Idle, HookRecord
    <3>3. Prompts!TypeOK' /\ InHand' /\ Landing'
      BY <1>2, <2>1, <2>2, <3>1, <3>2 DEF Prompts!cli, Prompts!session
    <3> QED BY <2>1, <2>3, <3>3 DEF PromptsInv, Recorded, Prompts!session
  <2>4. CASE pending # Prompts!Nothing
    <3> DEFINE to == [hook[h] EXCEPT !.pc = "record", !.of = pending.of, !.key = pending.key]
    <3>1. hook' = [hook EXCEPT ![h] = to]
      BY <1>6, <2>4 DEF Prompts!recordApprovalRequest
    <3>2. pending.of \in Prompts!Question /\ pending.key \in Key
      BY <2>4 DEF PromptsInv, Prompts!TypeOK
    <3>3. /\ to \in HookRecord
          /\ to.pc = "record" /\ to.of = pending.of /\ to.key = pending.key
      <4>1. pending.of \in 0..MaxAsked
        BY <3>2 DEF Prompts!Question
      <4>2. [hook[h] EXCEPT !.pc = "record"] \in HookRecord
        BY <1>1 DEF HookRecord
      <4>3. [hook[h] EXCEPT !.pc = "record", !.of = pending.of] \in HookRecord
        BY <4>1, <4>2 DEF HookRecord
      <4> QED BY <3>2, <4>3 DEF HookRecord
    <3> HIDE DEF to
    <3>4. Prompts!TypeOK' /\ InHand' /\ Landing'
      BY <1>2, <2>1, <2>2, <3>1, <3>2, <3>3 DEF Prompts!cli, Prompts!session
    <3>5. hook'[h] = to
      BY <1>1, <3>1
    <3>6. /\ hook'[h].pc = "record"
          /\ hook'[h].of = pending'.of /\ hook'[h].key = pending'.key
      BY <2>1, <3>3, <3>5 DEF Prompts!session
    <3> QED BY <3>4, <3>6 DEF PromptsInv, Recorded
  <2> QED BY <2>3, <2>4
<1> QED BY <1>3, <1>4, <1>5, <1>6

LEMMA RecordStep ==
  ASSUME PromptsInv, MaxAsked \in Nat, MaxPosts \in Nat, NEW h \in Notifier,
      Prompts!recordApproval(h)
  PROVE  PromptsInv'
<1> USE DEF Prompts!NoQ, Prompts!NoBlock
<1>1. /\ hook \in [Notifier -> HookRecord] /\ block \in Seq(Block)
      /\ standing # Prompts!NoBlock =>
           standing \in DOMAIN block /\ block[standing].verdict = Prompts!NoQ
  BY DEF PromptsInv, Prompts!TypeOK, HookRecord, Block
<1>2. /\ hook[h].pc = "record" /\ hook[h].of \in Prompts!Question /\ hook[h].key \in Key
      /\ UNCHANGED <<Prompts!cli, pending, sweeper, answer, misread, crossed>>
  BY DEF Prompts!recordApproval, PromptsInv, InHand
<1>3. CASE Prompts!Standing(hook[h].key)
  <2>1. hook' = [hook EXCEPT ![h] = Prompts!Idle] /\ UNCHANGED <<standing, block>>
    BY <1>3 DEF Prompts!recordApproval
  <2>2. Prompts!Idle \in HookRecord /\ Prompts!Idle.pc = "idle"
    BY DEF Prompts!Idle, HookRecord
  <2>3. /\ hook' \in [Notifier -> HookRecord]
        /\ \A g \in Notifier : hook'[g] = IF g = h THEN Prompts!Idle ELSE hook[g]
    BY <2>1, <2>2, HookMoves
  <2>4. Prompts!TypeOK' /\ InHand'
    BY <1>2, <2>1, <2>2, <2>3 DEF PromptsInv, Prompts!TypeOK, InHand, HookRecord, Prompts!cli
  <2>5. Landing'
    BY <1>2, <2>1, <2>3 DEF PromptsInv, Landing
  <2>6. Recorded'
    BY <1>1, <1>2, <1>3, <2>1, <2>3 DEF PromptsInv, Recorded, Prompts!Standing
  <2> QED BY <2>4, <2>5, <2>6 DEF PromptsInv
<1>4. CASE ~Prompts!Standing(hook[h].key)
  <2> DEFINE new == [of |-> hook[h].of, key |-> hook[h].key, shown |-> FALSE,
      verdict |-> Prompts!NoQ]
             to == [hook[h] EXCEPT !.pc = "append", !.block = Len(block) + 1]
  <2>1. new \in Block /\ new.key = hook[h].key /\ new.verdict = Prompts!NoQ
    BY <1>2 DEF Block
  <2>2. block' = Append(block, new)
    BY <1>4 DEF Prompts!recordApproval
  <2> HIDE DEF new
  <2>3. /\ block' \in Seq(Block) /\ DOMAIN block' = 1..(Len(block) + 1)
        /\ DOMAIN block = 1..Len(block) /\ Len(block) \in Nat
        /\ \A b \in DOMAIN block : block'[b] = block[b]
        /\ block'[Len(block) + 1] = new
        /\ Len(block') = Len(block) + 1
    BY <1>1, <2>1, <2>2, AppendProperties
  <2>4. standing' = Len(block) + 1 /\ hook' = [hook EXCEPT ![h] = to]
    BY <1>4, <2>3 DEF Prompts!recordApproval
  <2>5. /\ to \in HookRecord' /\ to.pc = "append" /\ to.block = Len(block) + 1
        /\ to.of = hook[h].of /\ to.key = hook[h].key
    <3>1. hook[h] \in HookRecord'
      BY <1>1, <2>3 DEF HookRecord
    <3>2. Len(block) + 1 \in {Prompts!NoBlock} \cup DOMAIN block'
      BY <2>3
    <3>3. [hook[h] EXCEPT !.pc = "append"] \in HookRecord'
      BY <3>1 DEF HookRecord
    <3> QED BY <3>2, <3>3 DEF HookRecord
  <2> HIDE DEF to
  <2>6. \A g \in Notifier : hook'[g] = IF g = h THEN to ELSE hook[g]
    BY <1>1, <2>4
  <2>7. hook' \in [Notifier -> HookRecord']
    <3>1. \A g \in Notifier : hook[g] \in HookRecord'
      BY <1>1, <2>3 DEF HookRecord
    <3> QED BY <1>1, <2>4, <2>5, <3>1
  <2>8. Prompts!TypeOK'
    BY <1>2, <2>1, <2>3, <2>4, <2>7 DEF PromptsInv, Prompts!TypeOK, HookRecord, Block, Prompts!cli
  <2>9. InHand'
    BY <1>2, <2>3, <2>5, <2>6 DEF PromptsInv, InHand
  <2>10. Landing'
    BY <1>2, <2>3, <2>5, <2>6 DEF PromptsInv, Landing
  <2>11. Recorded'
    <3>1. SUFFICES ASSUME pending # Prompts!Nothing /\ ~crossed PROVE Recorded'
      BY <1>2 DEF Recorded
    <3>2. CASE \E g \in Notifier : hook[g].pc = "read"
      BY <1>2, <2>6, <3>2 DEF Recorded
    <3>3. CASE \E g \in Notifier :
                 hook[g].pc = "record" /\ hook[g].of = pending.of /\ hook[g].key = pending.key
      BY <1>2, <2>1, <2>3, <2>6, <3>3 DEF Recorded
    <3>4. CASE \E b \in DOMAIN block : block[b].verdict = Prompts!NoQ /\ block[b].key = pending.key
      BY <1>2, <2>3, <3>4 DEF Recorded
    <3>5. CASE \E b \in DOMAIN block : block[b].verdict = pending.of
      BY <1>2, <2>3, <3>5 DEF Recorded
    <3> QED BY <3>1, <3>2, <3>3, <3>4, <3>5 DEF PromptsInv, Recorded
  <2> QED BY <2>8, <2>9, <2>10, <2>11 DEF PromptsInv
<1> QED BY <1>3, <1>4

LEMMA AppendStep ==
  ASSUME PromptsInv, MaxAsked \in Nat, MaxPosts \in Nat, NEW h \in Notifier,
      Prompts!appendApproval(h)
  PROVE  PromptsInv'
<1> USE DEF Prompts!NoQ, Prompts!NoBlock
<1> DEFINE n == hook[h].block
<1>1. /\ hook \in [Notifier -> HookRecord] /\ block \in Seq(Block)
      /\ hook[h].pc = "append" /\ n \in DOMAIN block
  BY DEF PromptsInv, Prompts!TypeOK, HookRecord, Block, Prompts!appendApproval, InHand
<1>2. /\ block' = [block EXCEPT ![n] = [block[n] EXCEPT !.shown = TRUE]]
      /\ hook' = [hook EXCEPT ![h] = Prompts!Idle]
      /\ UNCHANGED <<Prompts!cli, pending, standing, sweeper, answer, misread, crossed>>
  BY DEF Prompts!appendApproval
<1> HIDE DEF n
<1>3. Prompts!Idle \in HookRecord /\ Prompts!Idle.pc = "idle"
  BY DEF Prompts!Idle, HookRecord
<1>4. /\ hook' \in [Notifier -> HookRecord]
      /\ \A g \in Notifier : hook'[g] = IF g = h THEN Prompts!Idle ELSE hook[g]
  BY <1>2, <1>3, HookMoves
<1>5. /\ block[n] \in Block /\ [block[n] EXCEPT !.shown = TRUE] \in Block
      /\ \A b \in DOMAIN block : block[b] \in Block
  <2>1. /\ block[n] \in Block /\ \A b \in DOMAIN block : block[b] \in Block
    BY <1>1
  <2>2. [block[n] EXCEPT !.shown = TRUE] \in Block
    BY <2>1 DEF Block
  <2> QED BY <2>1, <2>2
<1>6. /\ block' \in Seq(Block) /\ DOMAIN block' = DOMAIN block
      /\ \A b \in DOMAIN block :
           block'[b] = IF b = n THEN [block[n] EXCEPT !.shown = TRUE] ELSE block[b]
  BY <1>1, <1>2, <1>5, ExceptSeq
<1>7. \A b \in DOMAIN block :
        /\ block'[b].verdict = block[b].verdict /\ block'[b].key = block[b].key
        /\ block'[b].shown = (b = n \/ block[b].shown)
  BY <1>5, <1>6 DEF Block
<1>8. Prompts!TypeOK'
  BY <1>2, <1>4, <1>6, <1>7 DEF PromptsInv, Prompts!TypeOK, HookRecord, Block, Prompts!cli
<1>9. InHand'
  BY <1>2, <1>3, <1>4, <1>6 DEF PromptsInv, InHand
<1>10. Landing'
  BY <1>1, <1>2, <1>4, <1>6, <1>7 DEF PromptsInv, Landing, n
<1>11. Recorded'
  BY <1>1, <1>2, <1>4, <1>6, <1>7 DEF PromptsInv, Recorded
<1> QED BY <1>8, <1>9, <1>10, <1>11 DEF PromptsInv

------------------------------------------------------------------------------

LEMMA PromptsNext ==
  ASSUME PromptsInv, MaxAsked \in Nat, MaxPosts \in Nat,
      [Prompts!Next]_(Prompts!vars) PROVE PromptsInv'
<1>1. CASE UNCHANGED Prompts!vars
  BY <1>1 DEF Prompts!vars, Prompts!cli, Prompts!session, PromptsInv, Prompts!TypeOK, InHand,
      Landing, Recorded
<1>2. CASE Prompts!Next
  BY <1>2, OutsideStep, SweeperStep, HookStep, RecordStep, AppendStep DEF Prompts!Next,
      Prompts!Sweeping
<1> QED BY <1>1, <1>2

LEMMA PromptsInductive ==
  ASSUME MaxAsked \in Nat, MaxPosts \in Nat PROVE Prompts!Spec => []PromptsInv
<1>1. Prompts!Init => PromptsInv
  BY InitPrompts
<1>2. PromptsInv /\ [Prompts!Next]_(Prompts!vars) => PromptsInv'
  BY PromptsNext
<1> QED BY <1>1, <1>2, PTL DEF Prompts!Spec

\* Every variable has its type, whatever the CLI asks and whenever its hooks are served.
THEOREM PromptsTyped ==
  ASSUME MaxAsked \in Nat, MaxPosts \in Nat PROVE Prompts!Spec => []Prompts!TypeOK
<1>1. PromptsInv => Prompts!TypeOK
  BY DEF PromptsInv
<1> QED BY <1>1, PromptsInductive, PTL

\* A question whose hooks are done and which nobody answered has a block with buttons,
\* or one like it has (recordApproval, appendApproval, resolveApproval).
THEOREM PendingQuestionsAreVisible ==
  ASSUME MaxAsked \in Nat, MaxPosts \in Nat PROVE Prompts!Spec => []Prompts!PendingIsVisible
<1>1. PromptsInv => Prompts!PendingIsVisible
  <2> SUFFICES ASSUME PromptsInv, pending # Prompts!Nothing, ~crossed,
                      \A h \in Notifier : hook[h].pc \notin {"read", "record", "append"}
               PROVE  \/ \E b \in DOMAIN block : Prompts!Visible(b) /\ block[b].key = pending.key
                      \/ \E b \in DOMAIN block : block[b].verdict = pending.of
    BY DEF Prompts!PendingIsVisible
  <2>1. \A b \in DOMAIN block : block[b].shown
    BY DEF PromptsInv, Landing
  <2> QED BY <2>1 DEF PromptsInv, Recorded, Prompts!Visible
<1> QED BY <1>1, PromptsInductive, PTL

------------------------------------------------------------------------------
\* The two together: a step of one leaves the other where it was.

LEMMA QuestionsParts == QuestionsSpec => Spec /\ Prompts!Spec
<1>1. QuestionsInit => Init /\ Prompts!Init
  BY DEF QuestionsInit
<1>2. [QuestionsNext]_all => [Next]_vars /\ [Prompts!Next]_(Prompts!vars)
  <2>1. CASE Detached(Next)
    BY <2>1 DEF Detached, prompts, Prompts!vars, Prompts!cli, Prompts!session
  <2>2. CASE Mirrored(Prompts!Next)
    BY <2>2 DEF Mirrored
  <2>3. CASE UNCHANGED all
    BY <2>3 DEF all, prompts, Prompts!vars, Prompts!cli, Prompts!session
  <2> QED BY <2>1, <2>2, <2>3 DEF QuestionsNext
<1> QED BY <1>1, <1>2, PTL DEF QuestionsSpec, Spec, Prompts!Spec

\* A notebook's questions, its own or those of the session it mirrors, keep what is
\* promised of them: handleCellApprove's answers stand, and a pending question shows.
THEOREM QuestionsAreSafe ==
  ASSUME MaxAsked \in Nat, MaxPosts \in Nat
  PROVE  QuestionsSpec => []/\ AnswersStand /\ OpenIsAsked /\ DeniedNeverRuns
                            /\ AlwaysIsNotAskedAgain /\ PendingIsVisible
BY QuestionsParts, DecisionsStand, OpenQuestionsAreAsked, DeniedCallsNeverRun, AlwaysIsKept,
   PendingQuestionsAreVisible, PTL DEF PendingIsVisible

==============================================================================
