-------------------------------- MODULE MCWeb --------------------------------
(***************************************************************************)
(* The request middlewares, the status polls and the safety reads of a     *)
(* foreign import, checked side by side for TLC.  They share no state:     *)
(* part says which of the three moves.                                     *)
(***************************************************************************)
EXTENDS RateLimiter, StatusPolls, ForeignSafety, TLC

VARIABLE part

\* The parts that do not move start in one state only.
Init ==
    /\ LimiterInit /\ PollInit /\ ForeignInit
    /\ part \in {"limiter", "polls", "foreign"}
    /\ part # "polls" => ~mirrorBad
    /\ part # "limiter" => \A a, b \in Attempts : client[a] = client[b]
    /\ part # "foreign" => onDisks = NoConfig

Next ==
    \/ part = "limiter" /\ LimiterNext /\ UNCHANGED <<part, pollVars, foreignVars>>
    \/ part = "polls" /\ PollNext /\ UNCHANGED <<part, limiterVars, foreignVars>>
    \/ part = "foreign" /\ ForeignNext /\ UNCHANGED <<part, limiterVars, pollVars>>

\* Requests and clients are interchangeable.
Symmetry ==
    Permutations(Attempts) \cup Permutations(Clients)

Spec == Init /\ [][Next]_<<limiterVars, pollVars, foreignVars, part>>
=============================================================================
