--------------------------- MODULE TransportProofs ---------------------------
(***************************************************************************)
(* For every number of threads, interval, number of attempts and of        *)
(* priming URLs: the transport spaces its requests and bounds what one     *)
(* call may send and how many failed logons it may spend.                  *)
(***************************************************************************)
EXTENDS Transport, TLAPS

(* Only the holder of the lock sleeps, and it sleeps as long as the        *)
(* limiter is on hold; the time since the last grant and the time to the   *)
(* next one make up an interval.                                           *)
SpacingInv ==
    /\ since + hold >= Interval
    /\ \A t \in Threads : pc[t] = "sleep" => wait[t] = hold

(* Only a request of the call itself is retried, while attempts are left.  *)
RetryInv == \A t \in Threads :
    pc[t] = "backoff" => stage[t] # "prime" /\ attempt[t] < MaxRetries

(* Where a call is in post_soap says how often it has been refused: the    *)
(* ladder goes beyond the endpoint only when nothing has refused it there. *)
LogonInv == \A t \in Threads :
    /\ stage[t] = "call" =>
          refusals[t] <= 1 /\ (pc[t] # "idle" => refusals[t] = 0)
    /\ stage[t] = "call" => ~refused[t]
    /\ stage[t] # "call" => kind[t] = "soap"
    /\ stage[t] = "prime" =>
          /\ refusals[t] <= 3
          /\ pc[t] # "idle" =>
                /\ rung[t] >= 1
                /\ refusals[t] = IF refused[t] THEN 2 ELSE 1
                /\ refused[t] => rung[t] = 2
    /\ stage[t] = "again" =>
          /\ accepted
          /\ 1 <= refusals[t] /\ refusals[t] <= 3
          /\ pc[t] # "idle" => refusals[t] <= 2

(* What a call may have been granted when it has got where it is.          *)
Budget(t) ==
    IF stage[t] = "call" THEN attempt[t]
    ELSE IF stage[t] = "prime" THEN MaxRetries + rung[t]
    ELSE MaxRetries + 2 + Candidates + attempt[t]

RequestInv == \A t \in Threads :
    /\ requests[t] <= Budget(t)
    /\ pc[t] \in {"acquire", "sleep"} => requests[t] < Budget(t)

(* Every step keeps the types and the discipline of the lock.              *)
LEMMA NextTypeOK == TypeOK /\ RetryInv /\ [Next]_vars => TypeOK' /\ RetryInv'
<1> SUFFICES ASSUME TypeOK, RetryInv, [Next]_vars PROVE TypeOK' /\ RetryInv'
  OBVIOUS
<1> USE TransportAssumption DEF TypeOK, RetryInv, Steps, Stages, Results, limiter, call, history
<1>1. CASE Tick
  BY <1>1 DEF Tick, Pass
<1>2. ASSUME NEW t \in Threads, Start(t) PROVE TypeOK' /\ RetryInv'
  BY <1>2 DEF Start
<1>3. ASSUME NEW t \in Threads, Lock(t) PROVE TypeOK' /\ RetryInv'
  BY <1>3 DEF Lock
<1>4. ASSUME NEW t \in Threads, Grant(t) PROVE TypeOK' /\ RetryInv'
  BY <1>4 DEF Grant
<1>5. ASSUME NEW t \in Threads, Answered(t) PROVE TypeOK' /\ RetryInv'
  BY <1>5 DEF Answered, Sent, End
<1>6. ASSUME NEW t \in Threads, Flaky(t) PROVE TypeOK' /\ RetryInv'
  BY <1>6 DEF Flaky, Sent, End
<1>7. ASSUME NEW t \in Threads, Backoff(t) PROVE TypeOK' /\ RetryInv'
  BY <1>7 DEF Backoff
<1>8. ASSUME NEW t \in Threads, Refused(t) PROVE TypeOK' /\ RetryInv'
  BY <1>8 DEF Refused, Sent, End, Request, Eligible
<1>9. ASSUME NEW t \in Threads, PrimeUnanswered(t) PROVE TypeOK' /\ RetryInv'
  BY <1>9 DEF PrimeUnanswered, Rung, Climb, End, Request, GoesOn
<1>10. ASSUME NEW t \in Threads, PrimeRefused(t) PROVE TypeOK' /\ RetryInv'
  BY <1>10 DEF PrimeRefused, Rung, Climb, End, Request, GoesOn
<1>11. ASSUME NEW t \in Threads, PrimeCarried(t) PROVE TypeOK' /\ RetryInv'
  BY <1>11 DEF PrimeCarried, Rung, CallAgain, Request
<1>12. ASSUME NEW t \in Threads, PrimeBare(t) PROVE TypeOK' /\ RetryInv'
  BY <1>12 DEF PrimeBare, Rung, CallAgain, Climb, End, Request, GoesOn
<1>13. ASSUME NEW t \in Threads, PrimeRaises(t) PROVE TypeOK' /\ RetryInv'
  BY <1>13 DEF PrimeRaises, Rung, End
<1>14. CASE UNCHANGED vars
  BY <1>14 DEF vars
<1> QED
  BY <1>1, <1>2, <1>3, <1>4, <1>5, <1>6, <1>7, <1>8, <1>9, <1>10, <1>11, <1>12, <1>13, <1>14 DEF Next, Work

(* Every step keeps the spacing.                                           *)
LEMMA NextSpacing == TypeOK /\ SpacingInv /\ [Next]_vars => SpacingInv'
<1> SUFFICES ASSUME TypeOK /\ SpacingInv, [Next]_vars PROVE SpacingInv'
  OBVIOUS
<1> USE TransportAssumption DEF TypeOK, SpacingInv, Steps, limiter, call, history
<1>1. CASE Tick
  BY <1>1 DEF Tick, Pass
<1>2. ASSUME NEW t \in Threads, Start(t) PROVE SpacingInv'
  BY <1>2 DEF Start
<1>3. ASSUME NEW t \in Threads, Lock(t) PROVE SpacingInv'
  BY <1>3 DEF Lock
<1>4. ASSUME NEW t \in Threads, Grant(t) PROVE SpacingInv'
  BY <1>4 DEF Grant
<1>5. ASSUME NEW t \in Threads, Answered(t) PROVE SpacingInv'
  BY <1>5 DEF Answered, Sent, End
<1>6. ASSUME NEW t \in Threads, Flaky(t) PROVE SpacingInv'
  BY <1>6 DEF Flaky, Sent, End
<1>7. ASSUME NEW t \in Threads, Backoff(t) PROVE SpacingInv'
  BY <1>7 DEF Backoff
<1>8. ASSUME NEW t \in Threads, Refused(t) PROVE SpacingInv'
  BY <1>8 DEF Refused, Sent, End, Request, Eligible
<1>9. ASSUME NEW t \in Threads, PrimeUnanswered(t) PROVE SpacingInv'
  BY <1>9 DEF PrimeUnanswered, Rung, Climb, End, Request, GoesOn
<1>10. ASSUME NEW t \in Threads, PrimeRefused(t) PROVE SpacingInv'
  BY <1>10 DEF PrimeRefused, Rung, Climb, End, Request, GoesOn
<1>11. ASSUME NEW t \in Threads, PrimeCarried(t) PROVE SpacingInv'
  BY <1>11 DEF PrimeCarried, Rung, CallAgain, Request
<1>12. ASSUME NEW t \in Threads, PrimeBare(t) PROVE SpacingInv'
  BY <1>12 DEF PrimeBare, Rung, CallAgain, Climb, End, Request, GoesOn
<1>13. ASSUME NEW t \in Threads, PrimeRaises(t) PROVE SpacingInv'
  BY <1>13 DEF PrimeRaises, Rung, End
<1>14. CASE UNCHANGED vars
  BY <1>14 DEF vars
<1> QED
  BY <1>1, <1>2, <1>3, <1>4, <1>5, <1>6, <1>7, <1>8, <1>9, <1>10, <1>11, <1>12, <1>13, <1>14 DEF Next, Work

(* Every step keeps the count of refusals.                                 *)
LEMMA NextLogons == TypeOK /\ LogonInv /\ [Next]_vars => LogonInv'
<1> SUFFICES ASSUME TypeOK /\ LogonInv, [Next]_vars PROVE LogonInv'
  OBVIOUS
<1> USE TransportAssumption DEF TypeOK, LogonInv, Steps, Stages, Results, limiter, call, history
<1>1. CASE Tick
  BY <1>1 DEF Tick, Pass
<1>2. ASSUME NEW t \in Threads, Start(t) PROVE LogonInv'
  BY <1>2 DEF Start
<1>3. ASSUME NEW t \in Threads, Lock(t) PROVE LogonInv'
  BY <1>3 DEF Lock
<1>4. ASSUME NEW t \in Threads, Grant(t) PROVE LogonInv'
  BY <1>4 DEF Grant
<1>5. ASSUME NEW t \in Threads, Answered(t) PROVE LogonInv'
  BY <1>5 DEF Answered, Sent, End
<1>6. ASSUME NEW t \in Threads, Flaky(t) PROVE LogonInv'
  BY <1>6 DEF Flaky, Sent, End
<1>7. ASSUME NEW t \in Threads, Backoff(t) PROVE LogonInv'
  BY <1>7 DEF Backoff
<1>8. ASSUME NEW t \in Threads, Refused(t) PROVE LogonInv'
  BY <1>8 DEF Refused, Sent, End, Request, Eligible
<1>9. ASSUME NEW t \in Threads, PrimeUnanswered(t) PROVE LogonInv'
  BY <1>9 DEF PrimeUnanswered, Rung, Climb, End, Request, GoesOn
<1>10. ASSUME NEW t \in Threads, PrimeRefused(t) PROVE LogonInv'
  BY <1>10 DEF PrimeRefused, Rung, Climb, End, Request, GoesOn
<1>11. ASSUME NEW t \in Threads, PrimeCarried(t) PROVE LogonInv'
  BY <1>11 DEF PrimeCarried, Rung, CallAgain, Request
<1>12. ASSUME NEW t \in Threads, PrimeBare(t) PROVE LogonInv'
  BY <1>12 DEF PrimeBare, Rung, CallAgain, Climb, End, Request, GoesOn
<1>13. ASSUME NEW t \in Threads, PrimeRaises(t) PROVE LogonInv'
  BY <1>13 DEF PrimeRaises, Rung, End
<1>14. CASE UNCHANGED vars
  BY <1>14 DEF vars
<1> QED
  BY <1>1, <1>2, <1>3, <1>4, <1>5, <1>6, <1>7, <1>8, <1>9, <1>10, <1>11, <1>12, <1>13, <1>14 DEF Next, Work

(* Every step keeps the call within its budget of requests.                *)
LEMMA NextRequests == TypeOK /\ RetryInv /\ LogonInv /\ RequestInv /\ [Next]_vars => RequestInv'
<1> SUFFICES ASSUME TypeOK, RetryInv, LogonInv, RequestInv, [Next]_vars PROVE RequestInv'
  OBVIOUS
<1> USE TransportAssumption DEF TypeOK, RetryInv, LogonInv, RequestInv, Budget, Steps, Stages, limiter, call, history
<1>1. CASE Tick
  BY <1>1 DEF Tick, Pass
<1>2. ASSUME NEW t \in Threads, Start(t) PROVE RequestInv'
  BY <1>2 DEF Start
<1>3. ASSUME NEW t \in Threads, Lock(t) PROVE RequestInv'
  BY <1>3 DEF Lock
<1>4. ASSUME NEW t \in Threads, Grant(t) PROVE RequestInv'
  BY <1>4 DEF Grant
<1>5. ASSUME NEW t \in Threads, Answered(t) PROVE RequestInv'
  BY <1>5 DEF Answered, Sent, End
<1>6. ASSUME NEW t \in Threads, Flaky(t) PROVE RequestInv'
  BY <1>6 DEF Flaky, Sent, End
<1>7. ASSUME NEW t \in Threads, Backoff(t) PROVE RequestInv'
  BY <1>7 DEF Backoff
<1>8. ASSUME NEW t \in Threads, Refused(t) PROVE RequestInv'
  BY <1>8 DEF Refused, Sent, End, Request, Eligible
<1>9. ASSUME NEW t \in Threads, PrimeUnanswered(t) PROVE RequestInv'
  BY <1>9 DEF PrimeUnanswered, Rung, Climb, End, Request, GoesOn
<1>10. ASSUME NEW t \in Threads, PrimeRefused(t) PROVE RequestInv'
  BY <1>10 DEF PrimeRefused, Rung, Climb, End, Request, GoesOn
<1>11. ASSUME NEW t \in Threads, PrimeCarried(t) PROVE RequestInv'
  BY <1>11 DEF PrimeCarried, Rung, CallAgain, Request
<1>12. ASSUME NEW t \in Threads, PrimeBare(t) PROVE RequestInv'
  BY <1>12 DEF PrimeBare, Rung, CallAgain, Climb, End, Request, GoesOn
<1>13. ASSUME NEW t \in Threads, PrimeRaises(t) PROVE RequestInv'
  BY <1>13 DEF PrimeRaises, Rung, End
<1>14. CASE UNCHANGED vars
  BY <1>14 DEF vars
<1> QED
  BY <1>1, <1>2, <1>3, <1>4, <1>5, <1>6, <1>7, <1>8, <1>9, <1>10, <1>11, <1>12, <1>13, <1>14 DEF Next, Work

(* A grant comes a whole interval after the one before.                    *)
LEMMA GrantsAreSpaced ==
  TypeOK /\ SpacingInv /\ [Next]_vars =>
      ((\E t \in Threads : Granted(t)) => since >= Interval)
<1> SUFFICES ASSUME TypeOK, SpacingInv, [Next]_vars, NEW t \in Threads, Granted(t)
             PROVE since >= Interval
  OBVIOUS
<1> USE TransportAssumption DEF TypeOK, SpacingInv, Granted, limiter, call, history
<1>1. wait[t] = 0
  <2>1. CASE Tick
    BY <2>1 DEF Tick
  <2>2. ASSUME NEW u \in Threads, Start(u) PROVE wait[t] = 0
    BY <2>2 DEF Start
  <2>3. ASSUME NEW u \in Threads, Lock(u) PROVE wait[t] = 0
    BY <2>3 DEF Lock
  <2>4. ASSUME NEW u \in Threads, Grant(u) PROVE wait[t] = 0
    BY <2>4 DEF Grant
  <2>5. ASSUME NEW u \in Threads, Answered(u) PROVE wait[t] = 0
    BY <2>5 DEF Answered, Sent, End
  <2>6. ASSUME NEW u \in Threads, Flaky(u) PROVE wait[t] = 0
    BY <2>6 DEF Flaky, Sent, End
  <2>7. ASSUME NEW u \in Threads, Backoff(u) PROVE wait[t] = 0
    BY <2>7 DEF Backoff
  <2>8. ASSUME NEW u \in Threads, Refused(u) PROVE wait[t] = 0
    BY <2>8 DEF Refused, Sent, End, Request, Eligible
  <2>9. ASSUME NEW u \in Threads, PrimeUnanswered(u) PROVE wait[t] = 0
    BY <2>9 DEF PrimeUnanswered, Rung, Climb, End, Request, GoesOn
  <2>10. ASSUME NEW u \in Threads, PrimeRefused(u) PROVE wait[t] = 0
    BY <2>10 DEF PrimeRefused, Rung, Climb, End, Request, GoesOn
  <2>11. ASSUME NEW u \in Threads, PrimeCarried(u) PROVE wait[t] = 0
    BY <2>11 DEF PrimeCarried, Rung, CallAgain, Request
  <2>12. ASSUME NEW u \in Threads, PrimeBare(u) PROVE wait[t] = 0
    BY <2>12 DEF PrimeBare, Rung, CallAgain, Climb, End, Request, GoesOn
  <2>13. ASSUME NEW u \in Threads, PrimeRaises(u) PROVE wait[t] = 0
    BY <2>13 DEF PrimeRaises, Rung, End
  <2>14. CASE UNCHANGED vars
    BY <2>14 DEF vars
  <2> QED
    BY <2>1, <2>2, <2>3, <2>4, <2>5, <2>6, <2>7, <2>8, <2>9, <2>10, <2>11, <2>12, <2>13, <2>14 DEF Next, Work
<1> QED
  BY <1>1

(* The state a transport starts in.                                        *)
LEMMA InitInv == Init => TypeOK /\ RetryInv /\ SpacingInv /\ LogonInv /\ RequestInv
  BY TransportAssumption
     DEF Init, TypeOK, RetryInv, SpacingInv, LogonInv, RequestInv, Budget, Steps, Stages, Results

(* Type correctness, for which the retries must be counted right.          *)
LEMMA TypeInvariant == Spec => [](TypeOK /\ RetryInv)
  BY InitInv, NextTypeOK, PTL DEF Spec

(* Type correctness and the discipline of the limiter's lock.              *)
THEOREM TypeCorrect == Spec => []TypeOK
  BY TypeInvariant, PTL

(* Requests of all threads together are granted an interval apart.         *)
THEOREM SpacedHolds == Spec => Spaced
<1>1. Spec => [](TypeOK /\ SpacingInv)
  BY InitInv, TypeInvariant, NextSpacing, PTL DEF Spec
<1> QED
  BY <1>1, GrantsAreSpaced, PTL DEF Spec, Spaced

(* The inductive invariant of one call.                                    *)
LEMMA CallInvariant == Spec => [](TypeOK /\ LogonInv /\ RequestInv)
  BY InitInv, TypeInvariant, NextLogons, NextRequests, PTL DEF Spec

(* A SOAP call spends at most three failed logons, a GET one.              *)
THEOREM FewLogonsHolds == Spec => []FewLogons
<1>1. ASSUME TypeOK, LogonInv, NEW t \in Threads
      PROVE refusals[t] <= IF kind[t] = "soap" THEN 3 ELSE 1
  <2>1. stage[t] \in Stages /\ refusals[t] \in Nat
    BY <1>1 DEF TypeOK
  <2>2. CASE stage[t] = "call"
    BY <1>1, <2>1, <2>2 DEF LogonInv
  <2>3. CASE stage[t] \in {"prime", "again"}
    BY <1>1, <2>1, <2>3 DEF LogonInv
  <2> QED
    BY <2>1, <2>2, <2>3 DEF Stages
<1>2. TypeOK /\ LogonInv => FewLogons
  BY <1>1 DEF FewLogons
<1> QED
  BY <1>2, CallInvariant, PTL

(* A refused call is made again only when a credential was accepted.       *)
THEOREM RepeatedWhenAcceptedHolds == Spec => []RepeatedWhenAccepted
<1>1. TypeOK /\ LogonInv => RepeatedWhenAccepted
  BY DEF TypeOK, LogonInv, RepeatedWhenAccepted
<1> QED
  BY <1>1, CallInvariant, PTL

(* A call sends at most two rounds of attempts and one ladder.             *)
THEOREM FewRequestsHolds == Spec => []FewRequests
<1>1. ASSUME TypeOK, RequestInv, NEW t \in Threads
      PROVE requests[t] <= 2 * MaxRetries + 2 + Candidates
  <2>1. /\ requests[t] \in Nat /\ requests[t] <= Budget(t)
        /\ attempt[t] \in 1..MaxRetries /\ rung[t] \in 0..(2 + Candidates)
    BY <1>1 DEF TypeOK, RequestInv
  <2>2. MaxRetries \in Nat \ {0} /\ Candidates \in Nat
    BY TransportAssumption
  <2>3. Budget(t) \in Nat /\ Budget(t) <= 2 * MaxRetries + 2 + Candidates
    BY <2>1, <2>2 DEF Budget
  <2> QED
    BY <2>1, <2>2, <2>3
<1>2. TypeOK /\ RequestInv => FewRequests
  BY <1>1 DEF FewRequests
<1> QED
  BY <1>2, CallInvariant, PTL
=============================================================================
