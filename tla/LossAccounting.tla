--------------------------- MODULE LossAccounting ---------------------------
(***************************************************************************)
(* What the tracker of a subscription, or of a client, promises about      *)
(* losses: messages arrive in increasing order of their numbers, and each  *)
(* arrival settles every number below it: arrived, or missing for good.    *)
(* PubSub, ClientService and ActionService implement this specification,   *)
(* for messages, responses and replies.                                    *)
(***************************************************************************)
EXTENDS Integers

CONSTANTS
  Subscriptions,
  Numbers          \* the numbers messages may carry

VARIABLES
  arrived,         \* arrived[s]: the numbers s has received
  missing          \* missing[s]: the numbers s has counted as lost

vars == <<arrived, missing>>

Init ==
  /\ arrived = [s \in Subscriptions |-> {}]
  /\ missing = [s \in Subscriptions |-> {}]

\* A message arrives whose number n is higher than every settled number.
Arrive(s, n) ==
  /\ \A k \in arrived[s] \union missing[s] : k < n
  /\ arrived' = [arrived EXCEPT ![s] = @ \union {n}]
  /\ missing' = [missing EXCEPT
                   ![s] = @ \union ({k \in Numbers : k < n} \ arrived[s])]

Next == \E s \in Subscriptions, n \in Numbers : Arrive(s, n)

Spec == Init /\ [][Next]_vars
=============================================================================
