------------------------------- MODULE Once -------------------------------
(***************************************************************************)
(* What an idempotency key promises (docs/09 rule 2: "A completed          *)
(* idempotency key cannot produce a second side effect"): a key has at     *)
(* most one remembered outcome, the effect it stands for happens when the  *)
(* outcome appears and not again while it is remembered, and it is not     *)
(* forgotten while that effect is still being carried out.                 *)
(***************************************************************************)
CONSTANTS Keys, Ids, NoKey, NoId

VARIABLES outcome,  \* per key, the effect that is remembered, or NoId
          owner,    \* per effect, the key it happened for, or NoKey
          open      \* effects still being carried out

Init ==
  /\ outcome = [k \in Keys |-> NoId]
  /\ owner = [i \in Ids |-> NoKey]
  /\ open = {}

Happen(k, i) ==
  /\ outcome[k] = NoId /\ owner[i] = NoKey
  /\ outcome' = [outcome EXCEPT ![k] = i]
  /\ owner' = [owner EXCEPT ![i] = k]
  /\ open' \in {open, open \cup {i}}

Close(i) ==
  /\ i \in open /\ open' = open \ {i}
  /\ UNCHANGED <<outcome, owner>>

Forget(k) ==
  /\ outcome[k] \in Ids \ open
  /\ outcome' = [outcome EXCEPT ![k] = NoId]
  /\ UNCHANGED <<owner, open>>

Next ==
  \/ \E k \in Keys, i \in Ids : Happen(k, i)
  \/ \E i \in Ids : Close(i)
  \/ \E k \in Keys : Forget(k)

Spec == Init /\ [][Next]_<<outcome, owner, open>>
=============================================================================
