------------------------------ MODULE Billing -------------------------------
(***************************************************************************)
(* The arithmetic of billing periods (internal/billing/billing.go): what a *)
(* lifetime costs, when the cost next jumps, and the window before that    *)
(* instant in which an idle machine is reclaimed.  Times are whole numbers *)
(* of the clock's unit.                                                    *)
(***************************************************************************)
EXTENDS Integers, Sequences, FiniteSets

(* BillingPolicy: minimum, increment and buffer, each 0 when not stated.   *)
Policy == [minimum : Nat, increment : Nat, buffer : Nat]

FineGrained(p) == p.minimum = 0 /\ p.increment = 0

(* The billed duration of a lifetime: whole increments, at least one, and  *)
(* at least the minimum.                                                   *)
Paid(lifetime, p) ==
    LET life   == IF lifetime < 0 THEN 0 ELSE lifetime
        n      == life \div p.increment
                    + (IF life = 0 \/ life % p.increment # 0 THEN 1 ELSE 0)
        billed == IF p.increment > 0 THEN n * p.increment ELSE life
    IN  IF billed < p.minimum THEN p.minimum ELSE billed

NoBoundary == -1

(* Mutant: an increment that has just begun has its end for its boundary   *)
(* one increment late.                                                     *)
NextBoundaryLate(created, p, now) ==
    IF p.increment > 0
    THEN created + ((now - created) \div p.increment + 2) * p.increment
    ELSE IF now - created < p.minimum THEN created + p.minimum ELSE NoBoundary

(* The next instant after now at which Paid jumps.  The loop over whole    *)
(* increments k stops at the first jump, or beyond the minimum.            *)
NextBoundary(created, p, now) ==
    LET elapsed == IF now < created THEN 0 ELSE now - created
        first   == elapsed \div p.increment + 1
        Stops(k) == LET t == k * p.increment
                    IN  \/ Paid(t + 1, p) > Paid(t - 1, p)
                        \/ t > p.minimum + p.increment
        last    == first + p.minimum \div p.increment + 2
        k0      == CHOOSE k \in first..last :
                      Stops(k) /\ \A j \in first..(k - 1) : ~Stops(j)
    IN  IF p.increment > 0 THEN created + k0 * p.increment
        ELSE IF p.minimum > 0 /\ elapsed < p.minimum THEN created + p.minimum
        ELSE NoBoundary

(* Mutant: a policy's own buffer is used as it is.                         *)
EffectiveBufferUnfloored(p, interval, slack) == p.buffer

(* The kernel's floor under a policy's buffer, so that a periodic sweep    *)
(* meets the window: two intervals and some slack (5s in the code).        *)
EffectiveBuffer(p, interval, slack) ==
    LET floor == 2 * interval + slack
    IN  IF p.buffer > floor THEN p.buffer ELSE floor

(* The window of a boundary; the cutoff is half of the buffer.             *)
Window(boundary, buffer) ==
    [boundary |-> boundary, start |-> boundary - buffer,
     cutoff |-> boundary - buffer \div 2]

Decide(w, now) ==
    IF now < w.start THEN "keep"
    ELSE IF now <= w.cutoff THEN "terminate"
    ELSE "crossed"

(* The p95 of the observed durations: entry (n * 95) / 100 of the sorted   *)
(* list, counted from 0.                                                   *)
P95(observed) ==
    LET at == (Len(observed) * 95) \div 100
        Rank(v) == Cardinality({i \in DOMAIN observed : observed[i] < v})
        Upto(v) == Cardinality({i \in DOMAIN observed : observed[i] <= v})
    IN  CHOOSE v \in {observed[i] : i \in DOMAIN observed} : Rank(v) <= at /\ at < Upto(v)

AdaptiveBuffer(observed, floor, margin, cap) ==
    LET p95 == P95(observed)
        buf == IF observed # <<>> /\ p95 + margin > floor THEN p95 + margin ELSE floor
    IN  IF cap > 0 /\ buf > cap THEN cap ELSE buf
=============================================================================
