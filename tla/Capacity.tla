------------------------------ MODULE Capacity ------------------------------
(***************************************************************************)
(* Capacity vectors (internal/capacity/capacity.go).  A vector is a        *)
(* function from the dimensions it mentions to integers; a dimension it    *)
(* does not mention reads as zero, as a Go map does.                       *)
(***************************************************************************)
EXTENDS Integers, Functions

At(v, dim) == IF dim \in DOMAIN v THEN v[dim] ELSE 0

(* The requested capacity of constraints {dim: {min: n}}: zeros are        *)
(* dropped.                                                                *)
WantFromConstraints(c) ==
    [dim \in {k \in DOMAIN c : c[k] > 0} |-> c[dim]]

(* want fits into total minus used; a dimension total does not track is    *)
(* refused.                                                                *)
Fits(total, used, want) ==
    \A dim \in DOMAIN want :
        dim \in DOMAIN total /\ total[dim] - At(used, dim) >= want[dim]

(* ParseRequest: a request without dimensions means the whole machine.     *)
exclusive(req) == req.exclusive \/ DOMAIN WantFromConstraints(req.constraints) = {}

(* SumActive: capacity per dimension over active leases, where cap gives   *)
(* the vector of each.                                                     *)
SumActive(cap) ==
    [dim \in UNION {DOMAIN cap[l] : l \in DOMAIN cap} |->
        SumFunction([l \in DOMAIN cap |-> At(cap[l], dim)])]
=============================================================================
