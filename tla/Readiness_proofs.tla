-------------------------- MODULE Readiness_proofs --------------------------
(***************************************************************************)
(* Proofs about Readiness.  All three properties rest on two facts: the    *)
(* time a request judges by is not in the future, so a result that is      *)
(* newer than the request always counts as cached; and whoever probes      *)
(* holds the mutex.                                                        *)
(***************************************************************************)
EXTENDS Readiness, TLAPS

\* The time of a request is past; the clock never shows the zero of "never probed".
Timely == clock >= 1 /\ \A p \in Callers : call[p].now <= clock

\* Whoever probes a dependency holds its mutex.
ProbersHold ==
  \A p \in Callers :
    call[p].pc = "probing" =>
      call[p].dep \in Indices /\ dep[call[p].dep].holder = p

\* The inductive invariant.
IInv == TypeOK /\ Timely /\ ProbersHold /\ AnswersWereCurrent

-----------------------------------------------------------------------------
LEMMA IndicesAreNat == Indices \subseteq Nat
BY DepsAssumption DEF Indices

\* Every lifetime lies between FailureTTL and that of a success, and is positive.
LEMMA Lifetimes ==
  ASSUME NEW d \in Indices, NEW failed \in BOOLEAN
  PROVE  /\ Lifetime(d, failed) \in Nat \ {0}
         /\ FailureTTL <= Lifetime(d, failed)
         /\ Lifetime(d, failed) = IF failed THEN FailureTTL ELSE Ttl[d]
         /\ FailureTTL \in Nat /\ Ttl[d] \in Nat
BY TtlAssumption DEF Lifetime

\* An answer is added at the position of its dependency.
LEMMA Answered ==
  ASSUME NEW c \in Request, c.dep = Len(c.answers) + 1,
         NEW at \in Nat, NEW failed \in BOOLEAN
  PROVE  LET a == Answer(c, at, failed) IN
         /\ a \in Request
         /\ a.pc = "asking" /\ a.now = c.now /\ a.dep = Len(a.answers) + 1
         /\ DOMAIN a.answers = DOMAIN c.answers \cup {c.dep}
         /\ a.answers[c.dep] = [at |-> at, failed |-> failed]
         /\ \A d \in DOMAIN c.answers : a.answers[d] = c.answers[d]
<1> DEFINE r == [at |-> at, failed |-> failed]
           a == Answer(c, at, failed)
<1>1. r \in Result
  BY DEF Result
<1>2. c.answers \in Seq(Result) /\ c.now \in Nat /\ c.dep \in Nat
  BY DEF Request, Answers
<1>3. a = [pc |-> "asking", now |-> c.now, dep |-> c.dep + 1, start |-> 0,
           answers |-> Append(c.answers, r)]
  BY DEF Answer
<1> HIDE DEF r, a
<1>4. /\ Append(c.answers, r) \in Seq(Result)
      /\ Len(Append(c.answers, r)) = Len(c.answers) + 1
      /\ Append(c.answers, r)[Len(c.answers) + 1] = r
      /\ \A d \in 1..Len(c.answers) : Append(c.answers, r)[d] = c.answers[d]
  BY <1>1, <1>2
<1>5. /\ DOMAIN c.answers = 1..Len(c.answers)
      /\ DOMAIN Append(c.answers, r) = 1..(Len(c.answers) + 1)
      /\ Len(c.answers) \in Nat
  BY <1>2, <1>4
<1>6. a \in Request
  BY <1>2, <1>3, <1>4 DEF Request, Answers
<1>7. 1..(Len(c.answers) + 1) = 1..Len(c.answers) \cup {Len(c.answers) + 1}
  BY <1>5
<1> QED BY <1>2, <1>3, <1>4, <1>5, <1>6, <1>7 DEF a, r

LEMMA EmptyAnswers == << >> \in Answers
BY DEF Answers

LEMMA Initial == Init => IInv
<1> SUFFICES ASSUME Init PROVE IInv
  OBVIOUS
<1>1. Untried \in Dependency
  BY DEF Untried, Dependency
<1>2. Idle \in Request /\ Idle.answers = << >> /\ Idle.dep = 1 /\ Idle.pc = "idle" /\ Idle.now = 0
  BY EmptyAnswers DEF Idle, Request
<1> QED BY <1>1, <1>2 DEF Init, IInv, TypeOK, Timely, ProbersHold, AnswersWereCurrent

-----------------------------------------------------------------------------
\* A step that gives a request its next answer keeps what was true of its answers.
LEMMA AnswerStep ==
  ASSUME IInv, NEW p \in Callers, NEW at \in Nat, NEW failed \in BOOLEAN,
         call[p].dep \in Indices,
         call[p].now - at < Lifetime(call[p].dep, failed),
         call' = [call EXCEPT ![p] = Answer(@, at, failed)],
         UNCHANGED clock
  PROVE  /\ call' \in [Callers -> Request]
         /\ \A q \in Callers : call'[q].dep = Len(call'[q].answers) + 1
         /\ Timely' /\ AnswersWereCurrent'
<1> DEFINE c == call[p]  a == Answer(c, at, failed)
<1>1. c \in Request /\ c.dep = Len(c.answers) + 1 /\ c.now \in Nat
  BY DEF IInv, TypeOK, Request
<1>2. /\ a \in Request
      /\ a.pc = "asking" /\ a.now = c.now /\ a.dep = Len(a.answers) + 1
      /\ DOMAIN a.answers = DOMAIN c.answers \cup {c.dep}
      /\ a.answers[c.dep] = [at |-> at, failed |-> failed]
      /\ \A d \in DOMAIN c.answers : a.answers[d] = c.answers[d]
  BY <1>1, Answered
<1>3. call'[p] = a /\ \A q \in Callers \ {p} : call'[q] = call[q]
  BY DEF IInv, TypeOK
<1> HIDE DEF a
<1>4. call' \in [Callers -> Request]
  BY <1>2 DEF IInv, TypeOK, a
<1>5. \A q \in Callers : call'[q].dep = Len(call'[q].answers) + 1
  BY <1>2, <1>3 DEF IInv, TypeOK
<1>6. Timely'
  BY <1>2, <1>3 DEF IInv, Timely
<1>7. ASSUME NEW q \in Callers, NEW d \in DOMAIN call'[q].answers
      PROVE  call'[q].now < call'[q].answers[d].at
                + (IF call'[q].answers[d].failed THEN FailureTTL ELSE Ttl[d])
  <2>1. CASE q = p /\ d = c.dep
    <3>1. c.now < at + (IF failed THEN FailureTTL ELSE Ttl[d])
      BY <2>1, <1>1, Lifetimes
    <3> QED BY <2>1, <3>1, <1>2, <1>3
  <2>2. CASE q = p /\ d # c.dep
    <3>1. d \in DOMAIN c.answers /\ call'[q].answers[d] = c.answers[d] /\ call'[q].now = c.now
      BY <2>2, <1>2, <1>3, <1>7
    <3> QED BY <3>1 DEF IInv, AnswersWereCurrent
  <2>3. CASE q # p
    BY <2>3, <1>3, <1>7 DEF IInv, AnswersWereCurrent
  <2> QED BY <2>1, <2>2, <2>3
<1>8. AnswersWereCurrent'
  BY <1>7 DEF AnswersWereCurrent
<1> QED BY <1>4, <1>5, <1>6, <1>8

\* The steps of the requests that do not answer anything.
LEMMA SilentStep ==
  ASSUME IInv, NEW p \in Callers, Check(p) \/ StartProbe(p) \/ Respond(p)
  PROVE  IInv'
<1> USE DEF IInv
<1>1. call[p] \in Request /\ clock \in Nat
  BY DEF TypeOK
<1>2. Idle \in Request /\ Idle.answers = << >> /\ Idle.dep = 1 /\ Idle.pc = "idle" /\ Idle.now = 0
  BY EmptyAnswers DEF Idle, Request
<1>3. CASE Check(p)
  <2> DEFINE c == Asked(clock)
  <2>1. c \in Request /\ c.answers = << >> /\ c.dep = 1 /\ c.pc = "asking" /\ c.now = clock
    BY <1>1, EmptyAnswers DEF Asked, Request
  <2>2. call' = [call EXCEPT ![p] = c] /\ UNCHANGED <<clock, dep>>
    BY <1>3 DEF Check
  <2> HIDE DEF c
  <2> QED BY <1>1, <2>1, <2>2 DEF TypeOK, Timely, ProbersHold, AnswersWereCurrent
<1>4. CASE StartProbe(p)
  <2> DEFINE d == call[p].dep
             c == [call[p] EXCEPT !.pc = "probing", !.start = clock]
  <2>1. /\ c \in Request /\ c.answers = call[p].answers /\ c.dep = d
        /\ c.pc = "probing" /\ c.now = call[p].now
    BY <1>1 DEF Request
  <2>2. /\ d \in Indices /\ dep[d].holder = Nobody /\ UNCHANGED clock
        /\ dep' = [dep EXCEPT ![d].holder = p]
        /\ call' = [call EXCEPT ![p] = c]
    BY <1>4 DEF StartProbe, Asking, TypeOK
  <2> HIDE DEF c, d
  <2>3. dep' \in [Indices -> Dependency] /\ dep'[d].holder = p /\ \A e \in Indices \ {d} : dep'[e] = dep[e]
    BY <2>2 DEF TypeOK, Dependency
  <2>4. TypeOK' /\ Timely' /\ AnswersWereCurrent'
    BY <2>1, <2>2, <2>3 DEF TypeOK, Timely, AnswersWereCurrent, d
  <2>5. \A q \in Callers \ {p} : call'[q] = call[q] /\ (call[q].pc = "probing" => call[q].dep # d)
    BY <2>2, DepsAssumption DEF TypeOK, ProbersHold
  <2>6. call'[p] = c
    BY <2>2 DEF TypeOK
  <2>7. ProbersHold'
    BY <2>1, <2>2, <2>3, <2>5, <2>6 DEF ProbersHold
  <2> QED BY <2>4, <2>7
<1>5. CASE Respond(p)
  <2>1. call' = [call EXCEPT ![p] = Idle] /\ UNCHANGED <<clock, dep>>
    BY <1>5 DEF Respond
  <2> QED BY <1>1, <1>2, <2>1 DEF TypeOK, Timely, ProbersHold, AnswersWereCurrent
<1> QED BY <1>3, <1>4, <1>5

\* An answer from the cache and an answer from a probe.
LEMMA AnsweringStep ==
  ASSUME IInv, NEW p \in Callers, ServeCached(p) \/ ProbeReturns(p)
  PROVE  IInv'
<1> DEFINE d == call[p].dep
<1>1. call[p] \in Request /\ call[p].now \in Nat /\ clock \in Nat /\ call[p].now <= clock
  BY DEF IInv, TypeOK, Timely, Request
<1>2. \A at, failed : Answer(call[p], at, failed).pc = "asking"
  BY DEF Answer
<1>3. CASE ServeCached(p)
  <2>1. /\ d \in Indices /\ UNCHANGED <<clock, dep>>
        /\ call[p].now - dep[d].at < Lifetime(d, dep[d].failed)
        /\ call' = [call EXCEPT ![p] = Answer(@, dep[d].at, dep[d].failed)]
    BY <1>3 DEF ServeCached, Asking, Cached
  <2>2. dep[d].at \in Nat /\ dep[d].failed \in BOOLEAN
    BY <2>1 DEF IInv, TypeOK, Dependency
  <2>3. /\ call' \in [Callers -> Request]
        /\ \A q \in Callers : call'[q].dep = Len(call'[q].answers) + 1
        /\ Timely' /\ AnswersWereCurrent'
    BY <2>1, <2>2, AnswerStep
  <2>4. call'[p].pc = "asking" /\ \A q \in Callers \ {p} : call'[q] = call[q]
    BY <1>2, <2>1 DEF IInv, TypeOK
  <2> QED BY <2>1, <2>3, <2>4 DEF IInv, TypeOK, ProbersHold
<1>4. CASE ProbeReturns(p)
  <2>1. PICK failed \in BOOLEAN :
          /\ dep' = [dep EXCEPT ![d] = [holder |-> Nobody, at |-> clock, failed |-> failed]]
          /\ call' = [call EXCEPT ![p] = Answer(@, clock, failed)]
    BY <1>4 DEF ProbeReturns
  <2>2. call[p].pc = "probing" /\ d \in Indices /\ dep[d].holder = p /\ UNCHANGED clock
    BY <1>4 DEF ProbeReturns, IInv, ProbersHold
  <2>3. call[p].now - clock < Lifetime(d, failed)
    BY <1>1, <2>2, Lifetimes
  <2>4. /\ call' \in [Callers -> Request]
        /\ \A q \in Callers : call'[q].dep = Len(call'[q].answers) + 1
        /\ Timely' /\ AnswersWereCurrent'
    BY <1>1, <2>1, <2>2, <2>3, AnswerStep
  <2>5. call'[p].pc = "asking" /\ \A q \in Callers \ {p} : call'[q] = call[q]
    BY <1>2, <2>1 DEF IInv, TypeOK
  <2>6. dep' \in [Indices -> Dependency] /\ \A e \in Indices \ {d} : dep'[e] = dep[e]
    BY <1>1, <2>1, <2>2 DEF IInv, TypeOK, Dependency
  <2>7. \A q \in Callers \ {p} : call[q].pc = "probing" => call[q].dep # d
    BY <2>2 DEF IInv, ProbersHold
  <2>8. ProbersHold'
    BY <2>5, <2>6, <2>7 DEF IInv, ProbersHold
  <2> QED BY <1>1, <2>2, <2>4, <2>6, <2>8 DEF IInv, TypeOK
<1> QED BY <1>3, <1>4

LEMMA Invariance == Spec => []IInv
<1>1. ASSUME IInv, [Next]_vars
      PROVE  IInv'
  <2>1. CASE UNCHANGED vars
    BY <1>1, <2>1 DEF vars, IInv, TypeOK, Timely, ProbersHold, AnswersWereCurrent
  <2>2. CASE Tick
    BY <1>1, <2>2 DEF Tick, IInv, TypeOK, Timely, ProbersHold, AnswersWereCurrent, Request
  <2>3. CASE \E p \in Callers : Check(p) \/ Progress(p)
    BY <1>1, <2>3, SilentStep, AnsweringStep DEF Progress
  <2> QED BY <1>1, <2>1, <2>2, <2>3 DEF Next
<1> QED BY <1>1, Initial, PTL DEF Spec

-----------------------------------------------------------------------------
\* The checker and what every request holds keep their types, and a request has the
\* answers of the dependencies it passed.
THEOREM TypeCorrect == Spec => []TypeOK
BY Invariance, PTL DEF IInv

\* No answer was too old when its request came in.
THEOREM Current == Spec => []AnswersWereCurrent
BY Invariance, PTL DEF IInv

\* Which of the steps start and end a probe.
LEMMA ProbeSteps ==
  ASSUME IInv, [Next]_vars, NEW p \in Callers
  PROVE  /\ call[p].pc = "probing" /\ call'[p].pc # "probing" => ProbeReturns(p)
         /\ call[p].pc # "probing" /\ call'[p].pc = "probing" => StartProbe(p)
<1>1. CASE UNCHANGED vars \/ Tick
  BY <1>1 DEF vars, Tick
<1>2. ASSUME NEW q \in Callers, Check(q) \/ Progress(q)
      PROVE  /\ q # p => call'[p] = call[p]
             /\ q = p => /\ call[p].pc = "probing" => ProbeReturns(p)
                         /\ call'[p].pc = "probing" => StartProbe(p)
  <2>1. q # p => call'[p] = call[p]
    BY <1>2 DEF Check, Progress, ServeCached, StartProbe, ProbeReturns, Respond, IInv, TypeOK
  <2>3. call[q].pc = "probing" => ProbeReturns(q)
    BY <1>2 DEF Check, Progress, ServeCached, StartProbe, Respond, Asking
  <2>4. Asked(clock).pc # "probing" /\ Idle.pc # "probing"
    BY DEF Asked, Idle
  <2>5. Check(q) \/ Respond(q) => call'[q].pc # "probing"
    BY <2>4 DEF Check, Respond, IInv, TypeOK
  <2>6. \A at, failed : Answer(call[q], at, failed).pc # "probing"
    BY DEF Answer
  <2>7. ServeCached(q) => call'[q].pc # "probing"
    <3>1. ASSUME ServeCached(q)
          PROVE  call'[q] = Answer(call[q], dep[call[q].dep].at, dep[call[q].dep].failed)
      BY <3>1 DEF ServeCached, IInv, TypeOK
    <3> QED BY <2>6, <3>1
  <2>8. ProbeReturns(q) => call'[q].pc # "probing"
    <3>1. ASSUME ProbeReturns(q)
          PROVE  \E failed \in BOOLEAN : call'[q] = Answer(call[q], clock, failed)
      BY <3>1 DEF ProbeReturns, IInv, TypeOK
    <3> QED BY <2>6, <3>1
  <2> QED BY <1>2, <2>1, <2>3, <2>5, <2>7, <2>8 DEF Progress
<1> QED BY <1>1, <1>2 DEF Next

\* Whoever waits for a mutex when a probe ends is served its result.
THEOREM Shared == Spec => ProbesAreShared
<1>1. ASSUME IInv, [Next]_vars,
             NEW p \in Callers, NEW q \in Callers, NEW d \in Indices,
             call[q].pc = "probing", call[q].dep = d, call'[q].pc # "probing",
             call[p].pc = "asking", call[p].dep = d
      PROVE  Cached(p, d)'
  <2>1. ProbeReturns(q)
    BY <1>1, ProbeSteps
  <2>2. PICK failed \in BOOLEAN :
          /\ dep' = [dep EXCEPT ![d] = [holder |-> Nobody, at |-> clock, failed |-> failed]]
          /\ call' = [call EXCEPT ![q] = Answer(@, clock, failed)]
    BY <1>1, <2>1 DEF ProbeReturns
  <2>3. dep'[d] = [holder |-> Nobody, at |-> clock, failed |-> failed] /\ call'[p] = call[p]
    BY <1>1, <2>2 DEF IInv, TypeOK
  <2>4. clock \in Nat /\ clock >= 1 /\ call[p].now \in Nat /\ call[p].now <= clock
    BY <1>1 DEF IInv, TypeOK, Timely, Request
  <2> QED BY <2>3, <2>4, Lifetimes DEF Cached
<1>2. IInv /\ [Next]_vars => [ProbesShared]_vars
  BY <1>1 DEF ProbesShared
<1> QED BY <1>2, Invariance, PTL DEF Spec, ProbesAreShared

\* A dependency is probed by one at a time and at most once in FailureTTL.
THEOREM Spaced == Spec => ProbesAreSpaced
<1>1. ASSUME IInv, [Next]_vars, NEW p \in Callers, NEW d \in Indices,
             call[p].pc # "probing", call'[p].pc = "probing", call[p].dep = d
      PROVE  /\ \A q \in Callers : ~(call[q].pc = "probing" /\ call[q].dep = d)
             /\ dep[d].at = 0 \/ clock >= dep[d].at + FailureTTL
  <2>1. StartProbe(p)
    BY <1>1, ProbeSteps
  <2>2. dep[d].holder = Nobody /\ ~Cached(p, d)
    BY <1>1, <2>1 DEF StartProbe
  <2>3. clock \in Nat /\ call[p].now \in Nat /\ call[p].now <= clock
        /\ dep[d].at \in Nat /\ dep[d].failed \in BOOLEAN
    BY <1>1 DEF IInv, TypeOK, Timely, Request, Dependency
  <2>4. dep[d].at = 0 \/ clock >= dep[d].at + FailureTTL
    BY <2>2, <2>3, Lifetimes DEF Cached
  <2>5. \A q \in Callers : ~(call[q].pc = "probing" /\ call[q].dep = d)
    BY <1>1, <2>2, DepsAssumption DEF IInv, ProbersHold
  <2> QED BY <2>4, <2>5
<1>2. IInv /\ [Next]_vars => [ProbesSpaced]_vars
  BY <1>1 DEF ProbesSpaced
<1> QED BY <1>2, Invariance, PTL DEF Spec, ProbesAreSpaced
=============================================================================
