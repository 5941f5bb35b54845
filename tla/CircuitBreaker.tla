--------------------------- MODULE CircuitBreaker ---------------------------
(***************************************************************************)
(* The circuit breaker in front of object storage, the malware scanner,    *)
(* Documenso and the language model: one per dependency and process,       *)
(* shared by the threads that handle requests. Its lock is held for the    *)
(* look at the state and for the count of a result, not during the call,   *)
(* so calls overlap and their results come in any order.                   *)
(***************************************************************************)
EXTENDS Naturals

CONSTANTS
    Threads,
    Threshold,      \* failure_threshold
    Recovery        \* recovery_timeout_seconds, in ticks of the clock

ASSUME ThresholdAssumption == Threshold \in Nat \ {0}

ASSUME RecoveryAssumption == Recovery \in Nat \ {0}

VARIABLES
    failures,       \* _failure_count, counted up to Threshold: the code asks
                    \* no more of it than whether it got there
    opened,         \* _opened_at is set
    age,            \* time since _opened_at, counted up to Recovery
    call,           \* per thread: no call, one that will succeed, one that an
                    \* outage struck, or one that raises whatever the
                    \* dependency does (a 4xx from Documenso, NoSuchKey)
    up,             \* the dependency answers
    fresh           \* history: calls under way, let in since the last opening

vars == <<failures, opened, age, call, up, fresh>>

TypeOK ==
    /\ failures \in 0..Threshold
    /\ opened \in BOOLEAN
    /\ age \in 0..Recovery
    /\ call \in [Threads -> {"none", "sound", "struck", "doomed"}]
    /\ up \in BOOLEAN
    /\ fresh \subseteq Threads

Init ==
    /\ failures = 0
    /\ opened = FALSE
    /\ age = 0
    /\ call = [t \in Threads |-> "none"]
    /\ up = TRUE
    /\ fresh = {}

-----------------------------------------------------------------------------
\* Variant: the cooldown ends a tick early.
OpenTooShort == opened /\ age + 1 < Recovery

Open == opened /\ age < Recovery

HalfOpen == opened /\ age = Recovery

\* The look at the state, under the lock; a call that finds the circuit open
\* is refused and leaves everything as it was.
Enter(t) ==
    /\ call[t] = "none"
    /\ ~Open
    /\ \E kind \in {IF up THEN "sound" ELSE "struck", "doomed"} :
         call' = [call EXCEPT ![t] = kind]
    /\ fresh' = fresh \cup {t}
    /\ UNCHANGED <<failures, opened, age, up>>

\* A call that was struck can still get through once the outage is over.
CanSucceed(t) == call[t] = "sound" \/ (call[t] = "struck" /\ up)

Return(t) ==
    /\ call' = [call EXCEPT ![t] = "none"]
    /\ UNCHANGED up

\* Variants: a success that keeps the count, or leaves the circuit open.
CountKept == failures
LeftOpen == opened

CountAfterSuccess == 0
OpenedAfterSuccess == FALSE

\* Any success closes the circuit, one that began before it opened too.
Succeed(t) ==
    /\ CanSucceed(t)
    /\ Return(t)
    /\ failures' = CountAfterSuccess
    /\ opened' = OpenedAfterSuccess
    /\ age' = 0
    /\ fresh' = fresh \ {t}

\* Variants: counted on; a failure of the trial leaves the circuit half open.
CountedOn == failures + 1
OpensOnce == failures + 1 = Threshold

Counted == IF failures < Threshold THEN failures + 1 ELSE failures

Opens == Counted = Threshold

\* Whatever a call raises is counted, an answer of a dependency that is up but
\* refuses the request as much as a timeout; with Threshold of them in a row,
\* each opens the circuit, or starts its cooldown anew.
Fail(t) ==
    /\ call[t] \in {"struck", "doomed"}
    /\ Return(t)
    /\ failures' = Counted
    /\ IF Opens
       THEN opened' = TRUE /\ age' = 0 /\ fresh' = {}
       ELSE fresh' = fresh \ {t} /\ UNCHANGED <<opened, age>>

Tick ==
    /\ opened /\ age < Recovery
    /\ age' = age + 1
    /\ UNCHANGED <<failures, opened, call, up, fresh>>

\* The dependency goes down on the calls it has not answered, and comes back.
Outage ==
    /\ up
    /\ up' = FALSE
    /\ \E hit \in SUBSET {t \in Threads : call[t] = "sound"} :
         call' = [t \in Threads |-> IF t \in hit THEN "struck" ELSE call[t]]
    /\ UNCHANGED <<failures, opened, age, fresh>>

Restore ==
    /\ ~up
    /\ up' = TRUE
    /\ UNCHANGED <<failures, opened, age, call, fresh>>

Next ==
    \/ \E t \in Threads : Enter(t) \/ Succeed(t) \/ Fail(t)
    \/ Tick
    \/ Outage
    \/ Restore

\* Every call returns: each client bounds its calls with a timeout. Requests
\* that need the dependency keep coming; the clock runs. Outages come and go
\* as they please.
Fairness ==
    /\ \A t \in Threads : WF_vars(Succeed(t) \/ Fail(t))
    /\ \A t \in Threads : WF_vars(Enter(t))
    /\ WF_vars(Tick)

Spec == Init /\ [][Next]_vars /\ Fairness

-----------------------------------------------------------------------------
\* The circuit has opened exactly when as many results as the threshold were
\* failures, with no success since: neither a late success nor a late failure
\* leaves the time of the opening and the count apart.
OpenIffStreak == opened <=> failures = Threshold

\* While the circuit is open, every call under way began before it opened:
\* after an opening nothing gets through for the whole cooldown, unless a late
\* success closes the circuit.
CooldownShut == opened /\ age < Recovery => fresh = {}

\* The dependency answers, and no call under way is one that it will refuse.
Healthy == up /\ \A t \in Threads : call[t] # "doomed"

\* "Recovers automatically after the cooldown" (app/core/storage.py): once the
\* dependency stays up and requests that it refuses stop, the circuit ends up
\* closed for good. Without the second premise it does not: refusals count
\* like timeouts, and Threshold of them in a row open it again and again.
Recovers == <>[]Healthy => <>[]~opened

\* Once the dependency stays down, the circuit ends up open but for trials: it
\* is never closed again, and no thread is always let through.
ShedsLoad == <>[]~up => <>[]opened /\ []<>Open

\* "The next call is let through as a trial" (the class's docstring): after
\* the cooldown, one call at a time tries the dependency.
SingleTrial == HalfOpen => \A t, u \in fresh : t = u
=============================================================================
