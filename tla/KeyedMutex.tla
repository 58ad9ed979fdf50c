----------------------------- MODULE KeyedMutex -----------------------------
(***************************************************************************)
(* What the node's two keyed work queues promise: a worker asks for a key, *)
(* is granted it only while no other worker has it, and gives it back.     *)
(* Nothing is said of the order in which the waiting workers are served.   *)
(***************************************************************************)
CONSTANTS Workers, Keys

VARIABLES
    claim,   \* claim[w]: "idle", "wants" or "has"
    want     \* want[w]: the key of w's current or last request

mvars == <<claim, want>>

Init == /\ claim = [w \in Workers |-> "idle"]
        /\ want \in [Workers -> Keys]

Ask(w) == /\ claim[w] = "idle"
          /\ claim' = [claim EXCEPT ![w] = "wants"]
          /\ \E k \in Keys : want' = [want EXCEPT ![w] = k]

\* asking for a key that is free is granted at once
AskFree(w) == /\ claim[w] = "idle"
              /\ \E k \in Keys :
                    /\ \A v \in Workers : claim[v] = "has" => want[v] # k
                    /\ want' = [want EXCEPT ![w] = k]
              /\ claim' = [claim EXCEPT ![w] = "has"]

Grant(w) == /\ claim[w] = "wants"
            /\ \A v \in Workers : claim[v] = "has" => want[v] # want[w]
            /\ claim' = [claim EXCEPT ![w] = "has"]
            /\ UNCHANGED want

GiveBack(w) == /\ claim[w] = "has"
               /\ claim' = [claim EXCEPT ![w] = "idle"]
               /\ UNCHANGED want

Next == \E w \in Workers : Ask(w) \/ AskFree(w) \/ Grant(w) \/ GiveBack(w)

Spec == Init /\ [][Next]_mvars
=============================================================================
