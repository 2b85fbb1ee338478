----------------------------- MODULE Readiness -----------------------------
(***************************************************************************)
(* The readiness checker (internal/health/health.go) with the probes       *)
(* app/app.go registers: every /readyz request asks the dependencies one   *)
(* after the other, each behind a mutex that is held while its probe runs, *)
(* and serves a remembered result as long as it is young enough.           *)
(*                                                                         *)
(* A request reads the time ONCE, before the first mutex; a result carries *)
(* the time its probe ended.  A probe fails because the dependency is      *)
(* down, because it took too long, or because the client that happened to  *)
(* ask went away: its context is the request's.  HealthCheck alone does    *)
(* not look at the context while it waits for the OLT.                     *)
(***************************************************************************)
EXTENDS Integers, Sequences

CONSTANTS Callers,     \* requests
          Nobody,      \* no caller
          Deps,        \* dependencies, in the order they were registered
          Ttl,         \* how long a success is served, by dependency
          Unbounded,   \* dependencies whose probe ignores its context
          FailureTTL,  \* how long a failure is served at most
          Timeout,     \* how long the other probes take at most
          MaxClock     \* bound on time

Indices == DOMAIN Deps

ASSUME DepsAssumption == Deps \in Seq(STRING) /\ Nobody \notin Callers
ASSUME TtlAssumption ==
  /\ FailureTTL \in Nat \ {0}
  /\ Ttl \in [Indices -> Nat] /\ \A d \in Indices : FailureTTL <= Ttl[d]
ASSUME TimeAssumption == Timeout \in Nat /\ MaxClock \in Nat /\ Unbounded \subseteq Indices

VARIABLES clock,
          dep,    \* by dependency: holder of the mutex, time and outcome of the last probe
          call    \* by caller: position, its time, the probe's start, the answers

vars == <<clock, dep, call>>

-----------------------------------------------------------------------------
Untried == [holder |-> Nobody, at |-> 0, failed |-> FALSE]

Idle == [pc |-> "idle", now |-> 0, dep |-> 1, start |-> 0, answers |-> <<>>]

Asked(now) == [pc |-> "asking", now |-> now, dep |-> 1, start |-> 0, answers |-> <<>>]

Init ==
  /\ clock = 1
  /\ dep = [d \in Indices |-> Untried]
  /\ call = [p \in Callers |-> Idle]

\* Mutant: a failure is remembered as long as a success.
Lifetime_OfSuccess(d, failed) == Ttl[d]

Lifetime(d, failed) == IF failed THEN FailureTTL ELSE Ttl[d]

\* A result younger than the caller's time counts as cached, too.
Cached(p, d) ==
  /\ dep[d].at # 0
  /\ call[p].now - dep[d].at < Lifetime(d, dep[d].failed)

Check(p) ==
  /\ call[p].pc = "idle"
  /\ call' = [call EXCEPT ![p] = Asked(clock)]
  /\ UNCHANGED <<clock, dep>>

\* The answer on a dependency; the mutex is released.
Answer(c, at, failed) ==
  [pc |-> "asking", now |-> c.now, dep |-> c.dep + 1, start |-> 0,
   answers |-> Append(c.answers, [at |-> at, failed |-> failed])]

Asking(p) == call[p].pc = "asking" /\ call[p].dep \in Indices

ServeCached(p) ==
  LET d == call[p].dep IN
  /\ Asking(p) /\ dep[d].holder = Nobody /\ Cached(p, d)
  /\ call' = [call EXCEPT ![p] = Answer(@, dep[d].at, dep[d].failed)]
  /\ UNCHANGED <<clock, dep>>

\* Mutant: the mutex is not held while the probe runs.
StartProbe_Unlocked(p) ==
  LET d == call[p].dep IN
  /\ Asking(p) /\ dep[d].holder = Nobody /\ ~Cached(p, d)
  /\ call' = [call EXCEPT ![p].pc = "probing", ![p].start = clock]
  /\ UNCHANGED <<clock, dep>>

StartProbe(p) ==
  LET d == call[p].dep IN
  /\ Asking(p) /\ dep[d].holder = Nobody /\ ~Cached(p, d)
  /\ dep' = [dep EXCEPT ![d].holder = p]
  /\ call' = [call EXCEPT ![p].pc = "probing", ![p].start = clock]
  /\ UNCHANGED clock

\* Mutant: the result carries the time of the request.
ProbeReturns_AtNow(p) ==
  LET d == call[p].dep IN
  /\ call[p].pc = "probing"
  /\ \E failed \in BOOLEAN :
       /\ dep' = [dep EXCEPT ![d] = [holder |-> Nobody, at |-> call[p].now, failed |-> failed]]
       /\ call' = [call EXCEPT ![p] = Answer(@, call[p].now, failed)]
  /\ UNCHANGED clock

\* Mutant: a failing probe keeps the mutex.
ProbeReturns_Locked(p) ==
  LET d == call[p].dep IN
  /\ call[p].pc = "probing"
  /\ \E failed \in BOOLEAN :
       /\ dep' = [dep EXCEPT ![d] = [holder |-> IF failed THEN p ELSE Nobody,
                                     at |-> clock, failed |-> failed]]
       /\ call' = [call EXCEPT ![p] = Answer(@, clock, failed)]
  /\ UNCHANGED clock

ProbeReturns(p) ==
  LET d == call[p].dep IN
  /\ call[p].pc = "probing"
  /\ \E failed \in BOOLEAN :
       /\ dep' = [dep EXCEPT ![d] = [holder |-> Nobody, at |-> clock, failed |-> failed]]
       /\ call' = [call EXCEPT ![p] = Answer(@, clock, failed)]
  /\ UNCHANGED clock

\* The status is rendered and forgotten.
Respond(p) ==
  /\ call[p].pc = "asking" /\ call[p].dep \notin Indices
  /\ call' = [call EXCEPT ![p] = Idle]
  /\ UNCHANGED <<clock, dep>>

\* Time passes, but no probe that looks at its context outlives it.
Tick ==
  /\ clock < MaxClock
  /\ \A p \in Callers :
       call[p].pc = "probing" /\ call[p].dep \notin Unbounded => clock < call[p].start + Timeout
  /\ clock' = clock + 1
  /\ UNCHANGED <<dep, call>>

-----------------------------------------------------------------------------
Progress(p) == ServeCached(p) \/ StartProbe(p) \/ ProbeReturns(p) \/ Respond(p)

Next == Tick \/ \E p \in Callers : Check(p) \/ Progress(p)

Spec == Init /\ [][Next]_vars

\* Every probe ends (an exchange with an OLT has a timeout of its own), and a mutex is
\* handed to those who wait in turn: strong fairness.
FairSpec == Spec /\ \A p \in Callers : SF_vars(Progress(p))
-----------------------------------------------------------------------------
(***************************************************************************)
(* Properties.                                                             *)
(***************************************************************************)

Result     == [at : Nat, failed : BOOLEAN]
Dependency == [holder : Callers \cup {Nobody}, at : Nat, failed : BOOLEAN]
Answers    == Seq(Result)
Request    == [pc : {"idle", "asking", "probing"}, now : Nat, dep : Nat, start : Nat,
               answers : Answers]

\* Type invariant of the checker; a request has the answers of the dependencies before
\* its position, in their order.
TypeOK ==
  /\ clock \in Nat
  /\ dep \in [Indices -> Dependency]
  /\ call \in [Callers -> Request]
  /\ \A p \in Callers : call[p].dep = Len(call[p].answers) + 1

\* No answer was too old when its request came in, though the requests before it may
\* have held the mutexes for long: a success is younger than its lifetime, and a
\* failure than FailureTTL, counted from the time of the request.
AnswersWereCurrent ==
  \A p \in Callers : \A d \in DOMAIN call[p].answers :
    LET a == call[p].answers[d] IN
    call[p].now < a.at + (IF a.failed THEN FailureTTL ELSE Ttl[d])

ProbesShared ==
  \A p, q \in Callers : \A d \in Indices :
    /\ call[q].pc = "probing" /\ call[q].dep = d /\ call'[q].pc # "probing"
    /\ call[p].pc = "asking" /\ call[p].dep = d
    => Cached(p, d)'

\* Requests do not pile up behind a slow dependency: whoever waits for a mutex when a
\* probe ends is served its result, however long the probe took, and does not probe
\* again in its turn.
ProbesAreShared == [][ProbesShared]_vars

ProbesSpaced ==
  \A p \in Callers : \A d \in Indices :
    call[p].pc # "probing" /\ call'[p].pc = "probing" /\ call[p].dep = d =>
      /\ \A q \in Callers : ~(call[q].pc = "probing" /\ call[q].dep = d)
      /\ dep[d].at = 0 \/ clock >= dep[d].at + FailureTTL

\* Over all requests, a dependency is probed by one at a time and at most once in
\* FailureTTL: that long passes between the end of a probe and the start of the next.
ProbesAreSpaced == [][ProbesSpaced]_vars

\* Every request is answered: the mutexes are taken one at a time.
ChecksReturn == \A p \in Callers : call[p].pc # "idle" ~> call[p].pc = "idle"
=============================================================================
