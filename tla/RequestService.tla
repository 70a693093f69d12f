--------------------------- MODULE RequestService ---------------------------
(***************************************************************************)
(* What the service mode promises its user, without slots, batches, caches *)
(* or rounds: requests are numbered in the order they are accepted, taken  *)
(* into service in that order, at most Capacity at a time, and answered    *)
(* once each, in any order; after the input is closed nothing more is      *)
(* accepted, what was accepted is still answered, and only then does the   *)
(* service stop.  It may break down at any time, and then answers nobody.  *)
(***************************************************************************)
EXTENDS Integers, FiniteSets

CONSTANTS Capacity,       \* requests in service at a time
          InitialRequests \* requests that may be waiting at the start

VARIABLES accepted,   \* how many requests were accepted: 0 .. accepted - 1
          started,    \* how many of them were taken into service
          answered,   \* the requests that were answered
          closed,     \* no request will be accepted any more
          status      \* "up", "down" (stopped in order) or "broken"

vars == <<accepted, started, answered, closed, status>>

InService == (0 .. started - 1) \ answered

Init ==
    /\ accepted \in 0 .. InitialRequests
    /\ started = 0
    /\ answered = {}
    /\ closed = FALSE
    /\ status = "up"

Accept ==
    /\ status = "up" /\ ~closed
    /\ accepted' = accepted + 1
    /\ UNCHANGED <<started, answered, closed, status>>

(* The oldest waiting requests are taken into service. *)
Start(n) ==
    /\ status = "up"
    /\ n > 0 /\ started + n <= accepted
    /\ Cardinality(InService) + n <= Capacity
    /\ started' = started + n
    /\ UNCHANGED <<accepted, answered, closed, status>>

Respond(id) ==
    /\ status = "up"
    /\ id \in InService
    /\ answered' = answered \cup {id}
    /\ UNCHANGED <<accepted, started, closed, status>>

Close ==
    /\ status = "up" /\ ~closed
    /\ closed' = TRUE
    /\ UNCHANGED <<accepted, started, answered, status>>

Stop ==
    /\ status = "up" /\ closed
    /\ started = accepted /\ InService = {}
    /\ status' = "down"
    /\ UNCHANGED <<accepted, started, answered, closed>>

BreakDown ==
    /\ status = "up"
    /\ status' = "broken"
    /\ UNCHANGED <<accepted, started, answered, closed>>

Next ==
    \/ Accept
    \/ \E n \in 1 .. Capacity : Start(n)
    \/ \E id \in InService : Respond(id)
    \/ Close
    \/ Stop
    \/ BreakDown

Spec == Init /\ [][Next]_vars

=============================================================================
