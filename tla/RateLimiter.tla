---------------------------- MODULE RateLimiter ----------------------------
(***************************************************************************)
(* The middlewares a request passes before its handler: the login rate     *)
(* limiter (web/rate_limit.py), basic authentication (web/auth.py) and the *)
(* CSRF check (web/csrf.py).                                               *)
(*                                                                         *)
(* Requests of one client overlap: a slot is reserved on arrival, given    *)
(* back when the credentials turn out valid or when the request ends       *)
(* without a verdict, and otherwise kept until it is a window old.  The    *)
(* asyncio lock is held over straight code only, so each of its bodies is  *)
(* one step.  Whitelisted paths pass by all three and are left out.        *)
(***************************************************************************)
EXTENDS Naturals, FiniteSets

CONSTANTS
    Clients,    \* client addresses, as _client_ip reports them
    Attempts,   \* the requests, each used once
    Limit,      \* auth_rate_limit_per_minute + auth_rate_limit_burst
    Window,     \* _WINDOW_SECONDS, also the interval of the global pruning
    MaxTime     \* bound: the clock

ASSUME LimiterAssumption ==
    IsFiniteSet(Attempts) /\ Limit \in Nat /\ Window \in Nat \ {0} /\ MaxTime \in Nat

VARIABLES
    now,        \* the monotonic clock
    held,       \* _attempts: the requests that hold a slot, of all clients
    nextPrune,  \* _next_global_prune_at
    phase,      \* where each request is
    client,     \* whose request it is
    arrived     \* recorded_at

limiterVars == <<now, held, nextPrune, phase, client, arrived>>

Phases == {"new", "reserved", "valid", "failed", "dropped", "limited", "answered"}

LimiterInit ==
    /\ now = 0 /\ held = {} /\ nextPrune = Window
    /\ phase = [a \in Attempts |-> "new"]
    /\ client \in [Attempts -> Clients]
    /\ arrived = [a \in Attempts |-> 0]

Tick ==
    /\ now < MaxTime /\ now' = now + 1
    /\ UNCHANGED <<held, nextPrune, phase, client, arrived>>

-----------------------------------------------------------------------------
\* _evict_expired: slots are appended in the order of the clock, so that the old
\* ones are at the front.
Expired(a) == arrived[a] + Window <= now

\* What the pruning, of all clients when it is due, and the eviction leave.
Kept(c) ==
    {a \in held : Expired(a) => client[a] # c /\ now < nextPrune}

OfClient(S, c) == {a \in S : client[a] = c}

\* _reserve_attempt_slot, and the answer 429.
Arrive(a) ==
    /\ phase[a] = "new"
    /\ nextPrune' = IF now < nextPrune THEN nextPrune ELSE now + Window
    /\ \/ /\ Cardinality(OfClient(Kept(client[a]), client[a])) >= Limit
          /\ held' = Kept(client[a])
          /\ phase' = [phase EXCEPT ![a] = "limited"]
          /\ UNCHANGED arrived
       \/ /\ Cardinality(OfClient(Kept(client[a]), client[a])) < Limit
          /\ held' = Kept(client[a]) \cup {a}
          /\ phase' = [phase EXCEPT ![a] = "reserved"]
          /\ arrived' = [arrived EXCEPT ![a] = now]
    /\ UNCHANGED <<now, client>>

\* _release_attempt_slot: the slot may be gone already.
Release(a) == held' = held \ {a}

Becomes(a, p) ==
    /\ phase' = [phase EXCEPT ![a] = p]
    /\ UNCHANGED <<now, nextPrune, client, arrived>>

\* BasicAuthMiddleware: notify_auth_result(True) gives the slot back at once.
VerdictValid(a) ==
    /\ phase[a] = "reserved" /\ Release(a) /\ Becomes(a, "valid")

FaultFailureReleases(a) ==
    /\ phase[a] = "reserved" /\ Release(a) /\ Becomes(a, "failed")

\* notify_auth_result(False) and the answer 401, or a 401 without a verdict.
VerdictInvalid(a) ==
    /\ phase[a] = "reserved" /\ Becomes(a, "failed") /\ UNCHANGED held

FaultDropKeeps(a) ==
    /\ phase[a] = "reserved" /\ Becomes(a, "dropped") /\ UNCHANGED held

\* Cancelled, raised or answered otherwise before there was a verdict.
Dropped(a) ==
    /\ phase[a] = "reserved" /\ Release(a) /\ Becomes(a, "dropped")

\* A request with valid credentials ends: refused by the CSRF check, answered by
\* its handler, cancelled or raised.  The verdict is in, the slot is gone.
Answered(a) ==
    /\ phase[a] = "valid" /\ Becomes(a, "answered") /\ UNCHANGED held

LimiterNext ==
    \/ Tick
    \/ \E a \in Attempts :
          Arrive(a) \/ VerdictValid(a) \/ VerdictInvalid(a) \/ Dropped(a) \/ Answered(a)

LimiterSpec == LimiterInit /\ [][LimiterNext]_limiterVars

-----------------------------------------------------------------------------
(* Properties. *)

\* The requests of a client that count against it: refused, or still undecided.
Spent(c) ==
    {a \in Attempts : client[a] = c /\ phase[a] \in {"reserved", "failed"} /\ ~Expired(a)}

\* However its requests overlap, within a window a client has at most Limit
\* attempts that failed or may yet fail.
AttemptsBounded == \A c \in Clients : Cardinality(Spent(c)) <= Limit

LimitedNow(a) ==
    phase[a] # "limited" /\ phase'[a] = "limited" => Cardinality(Spent(client[a])) >= Limit

\* A request is turned away only when that many attempts of its client are spent:
\* neither valid, broken off nor expired requests leave a slot behind.
LimitedOnlyWhenSpent == [][\A a \in Attempts : LimitedNow(a)]_limiterVars
=============================================================================
