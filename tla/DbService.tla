------------------------------- MODULE DbService -------------------------------
(***************************************************************************)
(* What the database service promises to an HTTP handler, without threads, *)
(* locks and retries: the effect of a request takes place at most once,    *)
(* before its answer, and the answer says whether it did.                  *)
(***************************************************************************)
EXTENDS Naturals

CONSTANT Requests

VARIABLES answer,   \* "none" until the request is answered, then "ok", "failed"
          effects   \* how many times the effect of the request has taken place

Init == /\ answer = [r \in Requests |-> "none"]
        /\ effects = [r \in Requests |-> 0]

Perform(r) == /\ answer[r] = "none" /\ effects[r] = 0
              /\ effects' = [effects EXCEPT ![r] = 1]
              /\ UNCHANGED answer

Succeed(r) == /\ answer[r] = "none" /\ effects[r] = 1
              /\ answer' = [answer EXCEPT ![r] = "ok"]
              /\ UNCHANGED effects

Refuse(r) == /\ answer[r] = "none" /\ effects[r] = 0
             /\ answer' = [answer EXCEPT ![r] = "failed"]
             /\ UNCHANGED effects

Next == \E r \in Requests : Perform(r) \/ Succeed(r) \/ Refuse(r)

Spec == Init /\ [][Next]_<<answer, effects>>
================================================================================
