---------------------------- MODULE Idempotency ----------------------------
(***************************************************************************)
(* Idempotency keys (internal/storage/sqlite/idempotency.go) under the     *)
(* handlers that use them: create, delete and acquire.  A client sends one *)
(* request, identified by its key and the hash of its body, and sends it   *)
(* again whenever it has no answer.  The handler claims the key, journals  *)
(* its effect and stores the answer inside one write transaction; the      *)
(* process may crash between any two of those calls, an answer may be      *)
(* lost, and other clients may use the same key.                           *)
(***************************************************************************)
EXTENDS FiniteSets, Naturals

CONSTANTS Clients, Keys, Hashes, Ids,
          NoKey, NoId, NoTx, NoHash,
          KindOf,      \* the endpoint a key was sent to; it is part of the scope
          MaxCrashes   \* bound on crashes, lost answers and refusals

ASSUME KindOfType == KindOf \in [Keys -> {"create", "delete", "acquire"}]
ASSUME Nobody == NoKey \notin Keys /\ NoId \notin Ids /\ NoTx \notin Clients /\ NoHash \notin Hashes
\* What a client may be told or be doing other than holding an effect.
Told == {"idle", "waiting", "inflight", "mismatch", "error"}
ASSUME IdsAreNotWords == Ids \cap Told = {}
ASSUME MaxCrashesNat == MaxCrashes \in Nat

VARIABLES req,      \* per client, the key and the hash it sends
          reply,    \* per client, what it is waiting for or was told
          rec,      \* the committed idempotency records
          eff,      \* the committed effects: key, hash and kind of each
          open,     \* effects whose operation is not terminal
          tx,       \* the client whose handler holds the write transaction
          pc,       \* the next call of that handler
          wrec,     \* the record that transaction has written
          weff,     \* the effect that transaction has written
          crashes

vars == <<req, reply, rec, eff, open, tx, pc, wrec, weff, crashes>>

Kinds == {"operation", "tombstone", "acquisition"}
NoRec == [state |-> "none", hash |-> NoHash, body |-> NoId, kind |-> "operation", expired |-> FALSE]
NoEff == [key |-> NoKey, hash |-> NoHash]

Key == req[tx].key
Hash == req[tx].hash
Unused(i) == eff[i].key = NoKey

Init ==
  /\ req \in [Clients -> [key : Keys, hash : Hashes]]
  /\ reply = [c \in Clients |-> "idle"]
  /\ rec = [k \in Keys |-> NoRec]
  /\ eff = [i \in Ids |-> NoEff]
  /\ open = {}
  /\ tx = NoTx /\ pc = "idle" /\ wrec = NoRec /\ weff = NoId
  /\ crashes = 0

Fault == crashes < MaxCrashes /\ crashes' = crashes + 1

---------------------------------------------------------------------------
(* The client.                                                             *)

Send(c) ==
  /\ reply[c] = "idle"
  /\ reply' = [reply EXCEPT ![c] = "waiting"]
  /\ UNCHANGED <<req, rec, eff, open, tx, pc, wrec, weff, crashes>>

\* The answer is lost, or the client is told that the request is in flight:
\* it will send the request again.
Retry(c) ==
  /\ reply[c] \in Ids \cup {"inflight"}
  /\ IF reply[c] = "inflight" THEN UNCHANGED crashes ELSE Fault
  /\ reply' = [reply EXCEPT ![c] = "idle"]
  /\ UNCHANGED <<req, rec, eff, open, tx, pc, wrec, weff>>

---------------------------------------------------------------------------
(* The handler, one call of its transaction at a time.                     *)

\* There is one writer connection: transactions do not overlap.
BeginTx(c) ==
  /\ tx = NoTx /\ reply[c] = "waiting"
  /\ tx' = c /\ pc' = "begin"
  /\ UNCHANGED <<req, reply, rec, eff, open, wrec, weff, crashes>>

\* The transaction ends without a trace and its client is told r.
Rollback(r) ==
  /\ reply' = [reply EXCEPT ![tx] = r]
  /\ tx' = NoTx /\ pc' = "idle" /\ wrec' = NoRec /\ weff' = NoId
  /\ UNCHANGED <<req, rec, eff, open>>

\* Begin inserts the key, or reads back whoever was first.
BeginNew ==
  /\ rec[Key].state = "none"
  /\ wrec' = [NoRec EXCEPT !.state = "in_progress", !.hash = Hash]
  /\ pc' = "effect"
  /\ UNCHANGED <<req, reply, rec, eff, open, tx, weff>>

\* Mutant: a stored answer is replayed to whoever holds the key.
AnswerOfAnyHash(r, hash) ==
  IF r.state = "in_progress" THEN "inflight" ELSE r.body

AnswerOf(r, hash) ==
  IF r.hash # hash THEN "mismatch"
  ELSE IF r.state = "in_progress" THEN "inflight" ELSE r.body

BeginExisting ==
  /\ rec[Key].state # "none"
  /\ Rollback(AnswerOf(rec[Key], Hash))

\* Mutant: the claim is committed before the effect.
BeginCommits ==
  /\ pc = "begin"
  /\ \/ /\ rec[Key].state = "none"
        /\ rec' = [rec EXCEPT ![Key] = [NoRec EXCEPT !.state = "in_progress", !.hash = Hash]]
        /\ wrec' = rec'[Key]
        /\ pc' = "effect"
        /\ UNCHANGED <<req, reply, eff, open, tx, weff>>
     \/ BeginExisting
  /\ UNCHANGED crashes

Begin ==
  /\ pc = "begin"
  /\ BeginNew \/ BeginExisting
  /\ UNCHANGED crashes

\* What a request does: an operation is journaled, a row that never got a
\* machine is tombstoned, an acquisition is inserted.
Does(k) ==
  [create |-> {"operation"}, delete |-> {"operation", "tombstone"}, acquire |-> {"acquisition"}][KindOf[k]]

Effect ==
  /\ pc = "effect"
  /\ \E i \in Ids, kind \in Does(Key) :
       /\ Unused(i)
       /\ weff' = i
       /\ wrec' = [wrec EXCEPT !.kind = kind]
  /\ pc' = "complete"
  /\ UNCHANGED <<req, reply, rec, eff, open, tx, crashes>>

\* A gate, a conflict or a cancelled context: the claim is undone with it.
Refuse ==
  /\ pc = "effect" /\ Fault
  /\ Rollback("error")

\* Complete requires the record to be in progress.
Complete ==
  /\ pc = "complete" /\ wrec.state = "in_progress"
  /\ wrec' = [wrec EXCEPT !.state = "completed", !.body = weff]
  /\ pc' = "commit"
  /\ UNCHANGED <<req, reply, rec, eff, open, tx, weff, crashes>>

\* The answer leaves after the commit, and may get lost on the way.
Commit ==
  /\ pc = "commit"
  /\ rec' = [rec EXCEPT ![Key] = wrec]
  /\ eff' = [eff EXCEPT ![weff] = [key |-> Key, hash |-> Hash]]
  /\ open' = IF wrec.kind = "operation" THEN open \cup {weff} ELSE open
  /\ \/ reply' = [reply EXCEPT ![tx] = weff] /\ UNCHANGED crashes
     \/ reply' = [reply EXCEPT ![tx] = "idle"] /\ Fault
  /\ tx' = NoTx /\ pc' = "idle" /\ wrec' = NoRec /\ weff' = NoId
  /\ UNCHANGED req

\* Mutant: what the transaction has written survives it.
CrashKeepsWrites ==
  /\ Fault
  /\ reply' = [c \in Clients |-> IF reply[c] = "waiting" THEN "idle" ELSE reply[c]]
  /\ tx' = NoTx /\ pc' = "idle"
  /\ UNCHANGED <<req, rec, eff, open, wrec, weff>>

\* The process dies: an open transaction is rolled back and every client in
\* a call is left without an answer.
Crash ==
  /\ Fault
  /\ reply' = [c \in Clients |-> IF reply[c] = "waiting" THEN "idle" ELSE reply[c]]
  /\ tx' = NoTx /\ pc' = "idle" /\ wrec' = NoRec /\ weff' = NoId
  /\ UNCHANGED <<req, rec, eff, open>>

---------------------------------------------------------------------------
(* Time, the engine and collection.                                        *)

\* The engine ends the operation.
OpTerminal(i) ==
  /\ i \in open /\ open' = open \ {i}
  /\ UNCHANGED <<req, reply, rec, eff, tx, pc, wrec, weff, crashes>>

\* The retention period of a completed record is over.
Expire(k) ==
  /\ rec[k].state = "completed" /\ ~rec[k].expired
  /\ rec' = [rec EXCEPT ![k].expired = TRUE]
  /\ UNCHANGED <<req, reply, eff, open, tx, pc, wrec, weff, crashes>>

\* Mutant: expiry alone decides.
CollectableExpired(k) == rec[k].expired

\* The record of a tombstoned row names an operation that was never appended:
\* it stays.
Collectable(k) ==
  /\ rec[k].expired
  /\ rec[k].kind = "acquisition" \/ (rec[k].kind = "operation" /\ rec[k].body \notin open)

\* Identities left for the requests that may still have an effect.
Room(k) == Cardinality({j \in {req[c].key : c \in Clients} : rec[j].state = "none"} \cup {k}) <= Cardinality({i \in Ids : Unused(i)})

GC(k) ==
  /\ tx = NoTx /\ Collectable(k) /\ Room(k)
  /\ rec' = [rec EXCEPT ![k] = NoRec]
  /\ UNCHANGED <<req, reply, eff, open, tx, pc, wrec, weff, crashes>>

Handle == Begin \/ Effect \/ Complete \/ Commit

Next ==
  \/ \E c \in Clients : Send(c) \/ Retry(c) \/ BeginTx(c)
  \/ Begin \/ Effect \/ Refuse \/ Complete \/ Commit \/ Crash
  \/ \E i \in Ids : OpTerminal(i)
  \/ \E k \in Keys : Expire(k) \/ GC(k)

Spec == Init /\ [][Next]_vars

\* Handlers run to their end, the writer connection is handed out in turn and
\* clients retry.
FairSpec ==
  /\ Spec
  /\ WF_vars(Handle)
  /\ \A c \in Clients : WF_vars(Send(c)) /\ SF_vars(BeginTx(c)) /\ WF_vars(reply[c] = "inflight" /\ Retry(c))

---------------------------------------------------------------------------
Records == [state : {"none", "in_progress", "completed"}, hash : Hashes \cup {NoHash},
            body : Ids \cup {NoId}, kind : Kinds, expired : BOOLEAN]

\* The handler's place: who holds the transaction and what it has written.
Place ==
  \/ tx = NoTx /\ pc = "idle" /\ wrec = NoRec /\ weff = NoId
  \/ tx \in Clients /\ pc \in {"begin", "effect", "complete", "commit"}

TypeOK ==
  /\ req \in [Clients -> [key : Keys, hash : Hashes]]
  /\ reply \in [Clients -> Told \cup Ids]
  /\ rec \in [Keys -> Records]
  /\ eff \in [Ids -> [key : Keys \cup {NoKey}, hash : Hashes \cup {NoHash}]]
  /\ open \subseteq Ids
  /\ wrec \in Records /\ weff \in Ids \cup {NoId}
  /\ Place
  /\ crashes \in 0..MaxCrashes

\* An answer is always of an effect that is on disk, and that happened for
\* this client's key and this client's body: nothing is answered that a crash
\* could undo, and no client is told of another request's effect.
AnswersAreDurable ==
  \A c \in Clients : reply[c] \in Ids => eff[reply[c]] = req[c]

\* Between the crashes, retries and collections a key behaves as Once says.
Outcome == INSTANCE Once WITH
  outcome <- [k \in Keys |-> rec[k].body],
  owner   <- [i \in Ids |-> eff[i].key],
  open    <- open

ActsOnce == Outcome!Spec

\* A client that keeps asking gets a final answer.
Answered == \A c \in Clients : reply[c] = "waiting" ~> reply[c] \in Ids \cup {"mismatch", "error"}
=============================================================================
