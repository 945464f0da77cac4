------------------------------ MODULE VisitStats ------------------------------
(***************************************************************************)
(* What the statistics sink promises (spec 4.8 and 8): every visit event  *)
(* that the resolver publishes is counted at least once, and is           *)
(* acknowledged to the broker only after it has been counted.  A count    *)
(* adds one page view, and one unique visitor when the visitor token was  *)
(* never counted before.  The broker may deliver an event several times,  *)
(* so pv may count one visit more than once (the documented              *)
(* non-idempotence), while uv counts each token exactly once.  A visit's  *)
(* count is one atomic step here.  (The unique-IP counter follows the    *)
(* same rule as uv and is left out.)                                      *)
(***************************************************************************)
EXTENDS Naturals

CONSTANTS Visits,   \* the visit events the resolver may publish
          UvOf      \* UvOf[m]: the visitor token carried by event m

VARIABLES published, counted, acked, pv, uv, seenUv

vars == <<published, counted, acked, pv, uv, seenUv>>

Init == /\ published = {}
        /\ counted = {}
        /\ acked = {}
        /\ pv = 0 /\ uv = 0
        /\ seenUv = {}

Publish(m) == /\ m \notin published
              /\ published' = published \cup {m}
              /\ UNCHANGED <<counted, acked, pv, uv, seenUv>>

\* One (re)delivery of m is counted.
Count(m) == /\ m \in published
            /\ pv' = pv + 1
            /\ uv' = uv + (IF UvOf[m] \in seenUv THEN 0 ELSE 1)
            /\ seenUv' = seenUv \cup {UvOf[m]}
            /\ counted' = counted \cup {m}
            /\ UNCHANGED <<published, acked>>

Ack(m) == /\ m \in counted \ acked
          /\ acked' = acked \cup {m}
          /\ UNCHANGED <<published, counted, pv, uv, seenUv>>

Next == \E m \in Visits : Publish(m) \/ Count(m) \/ Ack(m)

Spec == Init /\ [][Next]_vars
=============================================================================
