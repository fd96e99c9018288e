------------------------------ MODULE Transport ------------------------------
(***************************************************************************)
(* The transport every request goes through: RateLimiter and Transport in  *)
(* src/spconnect/transport.py, shared by all threads.  A call is either a  *)
(* SOAP POST (post_soap) or a GET; it makes one request with its retries   *)
(* (request, _send), and a SOAP call that is refused may climb the ladder  *)
(* of priming requests (_prime_connection) and be made once more.          *)
(*                                                                         *)
(* Time is discrete and relative: `hold` is how far away the limiter's     *)
(* next_allowed is.  The server answers as it likes, every time.           *)
(***************************************************************************)
EXTENDS Naturals

CONSTANTS
    Threads,
    NoThread,     \* nobody holds the limiter's lock
    Interval,     \* 1 / SP_REQUESTS_PER_SECOND, in ticks
    MaxRetries,   \* SP_MAX_RETRIES, the attempts of one request
    Candidates,   \* how many URLs _prime_urls offers after the endpoint
    PrimingOn,    \* SP_NTLM_PRIME_CONNECTION, in an auth mode that uses NTLM
    MaxCalls      \* bound: the calls each thread makes

ASSUME TransportAssumption ==
    /\ NoThread \notin Threads
    /\ Interval \in Nat \ {0}
    /\ MaxRetries \in Nat \ {0}
    /\ Candidates \in Nat /\ MaxCalls \in Nat
    /\ PrimingOn \in BOOLEAN

VARIABLES
    lock,       \* the thread inside RateLimiter.acquire, or NoThread
    hold,       \* ticks until next_allowed
    wait,       \* what is left of each thread's sleep inside acquire
    accepted,   \* credential_accepted, which probe_version may have set before
    pc,         \* where each thread is
    kind,       \* its call: "soap" or "get"
    stage,      \* the request it is at: "call", "prime", "again" (_primed)
    attempt,    \* the number of this attempt at a request
    rung,       \* the number of this priming request
    refused,    \* local `refused` of _prime_connection
    result,     \* how its last call ended
    calls,      \* how many calls it has begun
    since,      \* history: ticks since the last grant, at most Interval
    requests,   \* history: requests this call was granted
    refusals    \* history: 401 and 403 answers this call got

limiter == <<lock, hold, wait>>
call    == <<kind, stage, attempt, rung, refused, calls>>
history == <<since, requests, refusals>>
vars    == <<limiter, accepted, pc, call, result, history>>

Steps   == {"idle", "acquire", "sleep", "send", "backoff"}
Stages  == {"call", "prime", "again"}
Results == {"none", "ok", "error", "auth"}
----------------------------------------------------------------------------
Init ==
    /\ lock = NoThread /\ hold = 0 /\ since = Interval
    /\ wait = [t \in Threads |-> 0]
    /\ accepted \in BOOLEAN
    /\ pc = [t \in Threads |-> "idle"]
    /\ kind = [t \in Threads |-> "get"]
    /\ stage = [t \in Threads |-> "call"]
    /\ attempt = [t \in Threads |-> 1] /\ rung = [t \in Threads |-> 0]
    /\ refused = [t \in Threads |-> FALSE]
    /\ result = [t \in Threads |-> "none"]
    /\ calls = [t \in Threads |-> 0]
    /\ requests = [t \in Threads |-> 0] /\ refusals = [t \in Threads |-> 0]

Start(t) ==
    /\ pc[t] = "idle" /\ calls[t] < MaxCalls
    /\ pc' = [pc EXCEPT ![t] = "acquire"]
    /\ \E k \in {"soap", "get"} : kind' = [kind EXCEPT ![t] = k]
    /\ stage' = [stage EXCEPT ![t] = "call"]
    /\ attempt' = [attempt EXCEPT ![t] = 1]
    /\ rung' = [rung EXCEPT ![t] = 0]
    /\ refused' = [refused EXCEPT ![t] = FALSE]
    /\ result' = [result EXCEPT ![t] = "none"]
    /\ calls' = [calls EXCEPT ![t] = @ + 1]
    /\ requests' = [requests EXCEPT ![t] = 0]
    /\ refusals' = [refusals EXCEPT ![t] = 0]
    /\ UNCHANGED <<limiter, accepted, since>>
----------------------------------------------------------------------------
(* RateLimiter.acquire: the lock is held over the sleep.                   *)

(* Mutant: the sleep is outside the lock.                                  *)
LockUnheld(t) ==
    /\ pc[t] = "acquire"
    /\ pc' = [pc EXCEPT ![t] = "sleep"]
    /\ wait' = [wait EXCEPT ![t] = hold]
    /\ UNCHANGED <<lock, hold, accepted, call, result, history>>

Lock(t) ==
    /\ pc[t] = "acquire"
    /\ lock = NoThread
    /\ lock' = t
    /\ pc' = [pc EXCEPT ![t] = "sleep"]
    /\ wait' = [wait EXCEPT ![t] = hold]
    /\ UNCHANGED <<hold, accepted, call, result, history>>

(* Mutant: the lock is not released.                                       *)
GrantKeepingLock(t) ==
    /\ pc[t] = "sleep" /\ wait[t] = 0
    /\ hold' = Interval
    /\ pc' = [pc EXCEPT ![t] = "send"]
    /\ since' = 0
    /\ requests' = [requests EXCEPT ![t] = @ + 1]
    /\ UNCHANGED <<lock, wait, accepted, call, result, refusals>>

(* The sleep is over, however late: the next interval starts now.          *)
Grant(t) ==
    /\ pc[t] = "sleep" /\ wait[t] = 0
    /\ lock' = NoThread
    /\ hold' = Interval
    /\ pc' = [pc EXCEPT ![t] = "send"]
    /\ since' = 0
    /\ requests' = [requests EXCEPT ![t] = @ + 1]
    /\ UNCHANGED <<wait, accepted, call, result, refusals>>

Pass(n) == IF n > 0 THEN n - 1 ELSE 0

Tick ==
    /\ hold > 0 \/ since < Interval
    /\ hold' = Pass(hold)
    /\ wait' = [t \in Threads |-> Pass(wait[t])]
    /\ since' = IF since < Interval THEN since + 1 ELSE since
    /\ UNCHANGED <<lock, accepted, pc, call, result, requests, refusals>>
----------------------------------------------------------------------------
(* The outcomes of _send, and what the retry loop makes of them.           *)

End(t, r) ==
    /\ pc' = [pc EXCEPT ![t] = "idle"]
    /\ result' = [result EXCEPT ![t] = r]

Request(t, s) ==
    /\ pc' = [pc EXCEPT ![t] = "acquire"]
    /\ stage' = [stage EXCEPT ![t] = s]

Sent(t) == pc[t] = "send" /\ stage[t] # "prime"

(* A usable answer, which may be a SOAP fault; or one that is raised and   *)
(* not retried: 404, a redirect of a POST, another 4xx to a GET.           *)
Answered(t) ==
    /\ Sent(t)
    /\ End(t, "ok") \/ End(t, "error")
    /\ UNCHANGED <<limiter, accepted, call, history>>

(* No answer, or a 5xx without a SOAP fault.                               *)
Flaky(t) ==
    /\ Sent(t)
    /\ IF attempt[t] < MaxRetries
          THEN pc' = [pc EXCEPT ![t] = "backoff"] /\ UNCHANGED result
          ELSE End(t, "error")
    /\ UNCHANGED <<limiter, accepted, call, history>>

Backoff(t) ==
    /\ pc[t] = "backoff"
    /\ pc' = [pc EXCEPT ![t] = "acquire"]
    /\ attempt' = [attempt EXCEPT ![t] = @ + 1]
    /\ UNCHANGED <<limiter, accepted, kind, stage, rung, refused, calls,
                   result, history>>

(* Mutant: a call that was made again may be primed again.                 *)
EligibleAlways(t) == PrimingOn /\ kind[t] = "soap"

(* post_soap primes the connection only for a first refusal.               *)
Eligible(t) == PrimingOn /\ kind[t] = "soap" /\ stage[t] = "call"

(* 401 or 403: an AuthenticationError, never retried as such.              *)
Refused(t) ==
    /\ Sent(t)
    /\ refusals' = [refusals EXCEPT ![t] = @ + 1]
    /\ \/ /\ Eligible(t)
          /\ Request(t, "prime")
          /\ rung' = [rung EXCEPT ![t] = 1]
          /\ UNCHANGED <<attempt, result>>
       \/ /\ ~Eligible(t)
          /\ End(t, "auth")
          /\ UNCHANGED <<stage, attempt, rung>>
    /\ UNCHANGED <<limiter, accepted, kind, refused, calls, since, requests>>
----------------------------------------------------------------------------
(* The ladder: an empty POST and a GET to the endpoint, whatever they say, *)
(* and then the candidates as long as nothing has refused the credential.  *)

(* Mutant: a refusal does not keep the ladder from its candidates.         *)
GoesOnRegardless(r, no) == r < 2 + Candidates

GoesOn(r, no) == r = 1 \/ (~no /\ r < 2 + Candidates)

(* The rung authenticated nothing: the next one, or the first refusal is   *)
(* raised after all.                                                       *)
Climb(t, no) ==
    /\ refused' = [refused EXCEPT ![t] = no]
    /\ \/ /\ GoesOn(rung[t], no)
          /\ Request(t, "prime")
          /\ rung' = [rung EXCEPT ![t] = @ + 1]
          /\ UNCHANGED result
       \/ /\ ~GoesOn(rung[t], no)
          /\ End(t, "auth")
          /\ UNCHANGED <<stage, rung>>
    /\ UNCHANGED attempt

CallAgain(t) ==
    /\ Request(t, "again")
    /\ attempt' = [attempt EXCEPT ![t] = 1]
    /\ UNCHANGED <<rung, refused, result>>

Rung(t) == pc[t] = "send" /\ stage[t] = "prime"

PrimeUnanswered(t) ==
    /\ Rung(t)
    /\ Climb(t, refused[t])
    /\ UNCHANGED <<limiter, accepted, kind, calls, history>>

PrimeRefused(t) ==
    /\ Rung(t)
    /\ refusals' = [refusals EXCEPT ![t] = @ + 1]
    /\ Climb(t, TRUE)
    /\ UNCHANGED <<limiter, accepted, kind, calls, since, requests>>

(* Served, and the request carried the credential.                         *)
PrimeCarried(t) ==
    /\ Rung(t)
    /\ accepted' = TRUE
    /\ CallAgain(t)
    /\ UNCHANGED <<limiter, kind, calls, history>>

(* Mutant: a request served anonymously passes for a handshake.            *)
PrimeBareTrusted(t) ==
    /\ Rung(t)
    /\ CallAgain(t)
    /\ UNCHANGED <<limiter, accepted, kind, calls, history>>

(* Served bare: on a connection authenticated before, or to anybody.       *)
PrimeBare(t) ==
    /\ Rung(t)
    /\ IF accepted THEN CallAgain(t) ELSE Climb(t, refused[t])
    /\ UNCHANGED <<limiter, accepted, kind, calls, history>>

(* _prime_attempt expects a lost connection or a timeout; what else the    *)
(* request dies of replaces the refusal that was being handled.            *)
PrimeRaises(t) ==
    /\ Rung(t)
    /\ End(t, "error")
    /\ UNCHANGED <<limiter, accepted, call, history>>
----------------------------------------------------------------------------
Work(t) ==
    \/ Lock(t) \/ Grant(t) \/ Answered(t) \/ Flaky(t) \/ Backoff(t) \/ Refused(t)
    \/ PrimeUnanswered(t) \/ PrimeRefused(t) \/ PrimeCarried(t) \/ PrimeBare(t)
    \/ PrimeRaises(t)

Next == Tick \/ \E t \in Threads : Start(t) \/ Work(t)

(* Time passes, every request and every sleep has an end, and a thread     *)
(* that can go on does.  The lock is not fair; a run makes finitely many   *)
(* calls.                                                                  *)
Spec     == Init /\ [][Next]_vars
FairSpec == Spec /\ WF_vars(Tick) /\ \A t \in Threads : WF_vars(Work(t))
----------------------------------------------------------------------------
(* Type invariant, with the discipline of the lock: the thread that holds  *)
(* it is inside acquire, and nobody else is past its first line.           *)
TypeOK ==
    /\ hold \in 0..Interval /\ since \in 0..Interval
    /\ wait \in [Threads -> 0..Interval]
    /\ accepted \in BOOLEAN
    /\ pc \in [Threads -> Steps] /\ kind \in [Threads -> {"soap", "get"}]
    /\ stage \in [Threads -> Stages] /\ result \in [Threads -> Results]
    /\ attempt \in [Threads -> 1..MaxRetries]
    /\ rung \in [Threads -> 0..(2 + Candidates)]
    /\ refused \in [Threads -> BOOLEAN]
    /\ calls \in [Threads -> Nat]
    /\ requests \in [Threads -> Nat] /\ refusals \in [Threads -> Nat]
    /\ lock \in Threads \cup {NoThread}
    /\ \A t \in Threads : pc[t] = "sleep" <=> lock = t

Granted(t) == pc[t] = "sleep" /\ pc'[t] = "send"

(* SP_REQUESTS_PER_SECOND holds for all threads together, the priming      *)
(* requests and the retries included: two requests are never granted       *)
(* closer to each other than the interval.  (A thread may be slow to send  *)
(* what it was granted; the legs of an NTLM handshake are not counted.)    *)
Spaced == [][(\E t \in Threads : Granted(t)) => since >= Interval]_vars

(* An account may have a lockout policy: a SOAP call that the server keeps *)
(* refusing spends at most three failed logons, whatever the ladder of     *)
(* priming requests meets, and a GET at most one.                          *)
FewLogons ==
    \A t \in Threads : refusals[t] <= IF kind[t] = "soap" THEN 3 ELSE 1

(* A refused SOAP call is made again only in a session that has seen its   *)
(* credential accepted; being served anonymously is no reason to.          *)
RepeatedWhenAccepted ==
    \A t \in Threads : stage[t] = "again" => accepted /\ refusals[t] > 0

(* Retries inside a repeated call do not multiply beyond two rounds of     *)
(* attempts and one ladder.                                                *)
FewRequests ==
    \A t \in Threads : requests[t] <= 2 * MaxRetries + 2 + Candidates

(* Every call ends, whatever the server answers and the other threads do.  *)
CallsEnd == \A t \in Threads : pc[t] # "idle" ~> pc[t] = "idle"
=============================================================================
