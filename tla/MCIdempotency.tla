-------------------------- MODULE MCIdempotency --------------------------
\* Model-checking instance of Idempotency: one key per endpoint.
EXTENDS Idempotency, TLC
CONSTANTS k1, k2, k3
MCKindOf == k1 :> "create" @@ k2 :> "delete" @@ k3 :> "acquire"
=============================================================================
