------------------------- MODULE IdempotencyProofs -------------------------
(***************************************************************************)
(* Idempotency keys, proved for every set of clients, keys and effects:    *)
(* type correctness, durable answers, and that the handlers and the store  *)
(* implement Once.                                                         *)
(***************************************************************************)
EXTENDS Idempotency, TLAPS

\* What the open transaction has written at each place of the handler.
Written ==
  /\ pc = "begin" => wrec = NoRec /\ weff = NoId
  /\ pc = "effect" => wrec.state = "in_progress" /\ weff = NoId
  /\ pc = "complete" => wrec.state = "in_progress" /\ weff \in Ids
  /\ pc = "commit" => wrec.state = "completed" /\ weff \in Ids /\ wrec.body = weff
  /\ pc \in {"effect", "complete", "commit"} => wrec.hash = Hash /\ ~wrec.expired

\* A transaction past Begin is the only user of its key and of its effect.
Claimed ==
  /\ pc \in {"effect", "complete", "commit"} => rec[Key].state = "none"
  /\ pc \in {"complete", "commit"} => Unused(weff)

\* A committed record is complete and names the effect of its own request.
RecordsTrue ==
  \A k \in Keys :
    \/ rec[k] = NoRec
    \/ /\ rec[k].state = "completed" /\ rec[k].body \in Ids
       /\ eff[rec[k].body] = [key |-> k, hash |-> rec[k].hash]

\* The key of an open operation still remembers it.
OpenRemembered ==
  \A i \in open :
    /\ eff[i].key \in Keys
    /\ rec[eff[i].key].body = i
    /\ rec[eff[i].key].kind = "operation"

IInv == TypeOK /\ Written /\ Claimed /\ RecordsTrue /\ OpenRemembered /\ AnswersAreDurable

USE KindOfType, Nobody, IdsAreNotWords, MaxCrashesNat

\* Every kind of effect an endpoint has is a kind.
LEMMA DoesKinds == \A k \in Keys : Does(k) \subseteq Kinds
  BY DEF Does, Kinds

\* The absent record is a record, and holds nothing.
LEMMA NoRecFacts ==
  /\ NoRec \in Records
  /\ NoRec.state = "none" /\ NoRec.body = NoId /\ ~NoRec.expired /\ NoRec.kind = "operation"
  BY DEF NoRec, Records, Kinds

\* The initial state satisfies the invariant.
LEMMA InitIInv == Init => IInv
<1> SUFFICES ASSUME Init PROVE IInv
  OBVIOUS
<1>1. TypeOK
  BY NoRecFacts DEF Init, TypeOK, Place, NoEff, Told
<1>2. Written /\ Claimed
  BY DEF Init, Written, Claimed
<1>3. RecordsTrue /\ OpenRemembered
  BY DEF Init, RecordsTrue, OpenRemembered
<1>4. AnswersAreDurable
  BY DEF Init, AnswersAreDurable, Told
<1> QED
  BY <1>1, <1>2, <1>3, <1>4 DEF IInv

\* Undoing a transaction keeps the invariant, whatever its client is told, if
\* that is a word or the effect of this very request.
LEMMA RollbackKeeps ==
  ASSUME IInv, NEW r \in Told \cup Ids, tx \in Clients,
         r \in Ids => eff[r] = req[tx],
         Rollback(r), crashes' \in 0..MaxCrashes
  PROVE  IInv'
<1> USE DEF IInv
<1>1. TypeOK'
  BY NoRecFacts DEF TypeOK, Rollback, Place
<1>2. Written' /\ Claimed'
  BY DEF Written, Claimed, Rollback
<1>3. RecordsTrue' /\ OpenRemembered'
  BY DEF RecordsTrue, OpenRemembered, Rollback
<1>4. AnswersAreDurable'
  BY DEF AnswersAreDurable, Rollback, TypeOK
<1> QED
  BY <1>1, <1>2, <1>3, <1>4

\* A fault is counted within its bound.
LEMMA FaultBounded == TypeOK /\ Fault => crashes' \in 0..MaxCrashes
  BY DEF TypeOK, Fault

\* Every step keeps the invariant.
LEMMA NextIInv == IInv /\ [Next]_vars => IInv'
<1> SUFFICES ASSUME IInv, [Next]_vars PROVE IInv'
  OBVIOUS
<1> USE DEF IInv
<1>1. ASSUME NEW c \in Clients, Send(c) PROVE IInv'
  <2> USE <1>1 DEF Send
  <2>1. TypeOK'
    BY DEF TypeOK, Told, Place
  <2>2. Written' /\ Claimed'
    BY DEF Written, Claimed, Key, Hash, Unused
  <2>3. RecordsTrue' /\ OpenRemembered'
    BY DEF RecordsTrue, OpenRemembered
  <2>4. AnswersAreDurable'
    BY DEF AnswersAreDurable, TypeOK, Told
  <2> QED
    BY <2>1, <2>2, <2>3, <2>4
<1>2. ASSUME NEW c \in Clients, Retry(c) PROVE IInv'
  <2> USE <1>2 DEF Retry
  <2>1. crashes' \in 0..MaxCrashes
    BY FaultBounded DEF TypeOK
  <2>2. TypeOK'
    BY <2>1 DEF TypeOK, Told, Place
  <2>3. Written' /\ Claimed'
    BY DEF Written, Claimed, Key, Hash, Unused
  <2>4. RecordsTrue' /\ OpenRemembered'
    BY DEF RecordsTrue, OpenRemembered
  <2>5. AnswersAreDurable'
    BY DEF AnswersAreDurable, TypeOK, Told
  <2> QED
    BY <2>2, <2>3, <2>4, <2>5
<1>3. ASSUME NEW c \in Clients, BeginTx(c) PROVE IInv'
  <2> USE <1>3 DEF BeginTx
  <2>1. wrec = NoRec /\ weff = NoId
    BY DEF TypeOK, Place
  <2>2. TypeOK'
    BY DEF TypeOK, Place
  <2>3. Written' /\ Claimed'
    BY <2>1 DEF Written, Claimed
  <2>4. RecordsTrue' /\ OpenRemembered'
    BY DEF RecordsTrue, OpenRemembered
  <2>5. AnswersAreDurable'
    BY DEF AnswersAreDurable
  <2> QED
    BY <2>2, <2>3, <2>4, <2>5
<1>4. CASE Begin
  <2>0. tx \in Clients /\ pc = "begin" /\ crashes' = crashes
    BY <1>4 DEF Begin, TypeOK, Place
  <2>1. CASE BeginNew
    <3> USE <2>0, <2>1 DEF BeginNew
    <3>0. /\ wrec' \in Records /\ wrec'.state = "in_progress" /\ wrec'.hash = Hash /\ ~wrec'.expired
          /\ Key \in Keys /\ Hash \in Hashes
      BY NoRecFacts DEF NoRec, Records, Hash, Key, TypeOK
    <3>1. TypeOK'
      BY <3>0 DEF TypeOK, Place
    <3>2. Written' /\ Claimed'
      BY <3>0 DEF Written, Claimed, Key, Hash, Unused
    <3>3. RecordsTrue' /\ OpenRemembered'
      BY DEF RecordsTrue, OpenRemembered
    <3>4. AnswersAreDurable'
      BY DEF AnswersAreDurable
    <3> QED
      BY <3>1, <3>2, <3>3, <3>4
  <2>2. CASE BeginExisting
    <3> DEFINE r == AnswerOf(rec[Key], Hash)
    <3>1. Key \in Keys /\ Hash \in Hashes /\ req[tx] = [key |-> Key, hash |-> Hash]
      BY <2>0 DEF TypeOK, Key, Hash
    <3>2. rec[Key] # NoRec
      BY <2>2, NoRecFacts DEF BeginExisting
    <3>3. /\ rec[Key].state = "completed" /\ rec[Key].body \in Ids
          /\ eff[rec[Key].body] = [key |-> Key, hash |-> rec[Key].hash]
      BY <3>1, <3>2 DEF RecordsTrue
    <3>4. r \in Told \cup Ids /\ (r \in Ids => eff[r] = req[tx])
      BY <3>1, <3>3 DEF AnswerOf, Told
    <3>5. Rollback(r) /\ crashes' \in 0..MaxCrashes
      BY <2>0, <2>2 DEF BeginExisting, TypeOK
    <3> QED
      BY <2>0, <3>4, <3>5, RollbackKeeps
  <2> QED
    BY <1>4, <2>1, <2>2 DEF Begin
<1>5. CASE Effect
  <2>0. tx \in Clients /\ Key \in Keys
    BY <1>5 DEF Effect, TypeOK, Place, Key
  <2>1. PICK i \in Ids, kind \in Does(Key) : Unused(i) /\ weff' = i /\ wrec' = [wrec EXCEPT !.kind = kind]
    BY <1>5 DEF Effect
  <2>2. wrec' \in Records /\ wrec'.state = wrec.state /\ wrec'.hash = wrec.hash /\ wrec'.expired = wrec.expired
    BY <2>0, <2>1, DoesKinds DEF TypeOK, Records
  <2> USE <1>5 DEF Effect
  <2>3. TypeOK'
    BY <2>0, <2>1, <2>2 DEF TypeOK, Place
  <2>4. Written' /\ Claimed'
    BY <2>1, <2>2 DEF Written, Claimed, Key, Hash, Unused
  <2>5. RecordsTrue' /\ OpenRemembered'
    BY DEF RecordsTrue, OpenRemembered
  <2>6. AnswersAreDurable'
    BY DEF AnswersAreDurable
  <2> QED
    BY <2>3, <2>4, <2>5, <2>6
<1>6. CASE Refuse
  <2>1. tx \in Clients /\ Rollback("error")
    BY <1>6 DEF Refuse, TypeOK, Place
  <2>2. crashes' \in 0..MaxCrashes
    BY <1>6, FaultBounded DEF Refuse
  <2>3. "error" \in Told /\ "error" \notin Ids
    BY DEF Told
  <2> QED
    BY <2>1, <2>2, <2>3, RollbackKeeps
<1>7. CASE Complete
  <2> USE <1>7 DEF Complete
  <2>0. tx \in Clients /\ weff \in Ids
    BY DEF TypeOK, Place, Written
  <2>1. /\ wrec' \in Records /\ wrec'.state = "completed" /\ wrec'.body = weff
        /\ wrec'.hash = wrec.hash /\ wrec'.expired = wrec.expired
    BY <2>0 DEF TypeOK, Records
  <2>2. TypeOK'
    BY <2>0, <2>1 DEF TypeOK, Place
  <2>3. Written' /\ Claimed'
    BY <2>0, <2>1 DEF Written, Claimed, Key, Hash, Unused
  <2>4. RecordsTrue' /\ OpenRemembered'
    BY DEF RecordsTrue, OpenRemembered
  <2>5. AnswersAreDurable'
    BY DEF AnswersAreDurable
  <2> QED
    BY <2>2, <2>3, <2>4, <2>5
<1>8. CASE Commit
  <2> USE <1>8 DEF Commit
  <2>0. /\ tx \in Clients /\ Key \in Keys /\ Hash \in Hashes
        /\ req[tx] = [key |-> Key, hash |-> Hash]
    BY DEF TypeOK, Place, Key, Hash
  <2>1. /\ weff \in Ids /\ wrec.state = "completed" /\ wrec.body = weff /\ wrec.hash = Hash
        /\ rec[Key].state = "none" /\ eff[weff].key = NoKey
    BY DEF Written, Claimed, Unused
  <2>2. crashes' \in 0..MaxCrashes
    BY FaultBounded DEF TypeOK
  <2>3. eff' \in [Ids -> [key : Keys \cup {NoKey}, hash : Hashes \cup {NoHash}]]
    BY <2>0, <2>1 DEF TypeOK
  <2>4. eff'[weff] = [key |-> Key, hash |-> Hash] /\ \A i \in Ids \ {weff} : eff'[i] = eff[i]
    BY <2>1 DEF TypeOK
  <2>5. TypeOK'
    <3>1. reply' \in [Clients -> Told \cup Ids]
      BY <2>0, <2>1 DEF TypeOK, Told
    <3>2. rec' \in [Keys -> Records] /\ open' \subseteq Ids
      BY <2>0, <2>1 DEF TypeOK
    <3> QED
      BY <2>2, <2>3, <3>1, <3>2, NoRecFacts DEF TypeOK, Place
  <2>6. Written' /\ Claimed'
    BY DEF Written, Claimed
  <2>7. RecordsTrue'
    <3> SUFFICES ASSUME NEW k \in Keys
                 PROVE  \/ rec'[k] = NoRec
                        \/ /\ rec'[k].state = "completed" /\ rec'[k].body \in Ids
                           /\ eff'[rec'[k].body] = [key |-> k, hash |-> rec'[k].hash]
      BY DEF RecordsTrue
    <3>1. CASE k = Key
      BY <2>0, <2>1, <2>4, <3>1 DEF TypeOK
    <3>2. CASE k # Key
      <4>1. rec'[k] = rec[k]
        BY <2>0, <3>2 DEF TypeOK
      <4>2. CASE rec[k] = NoRec
        BY <4>1, <4>2
      <4>3. CASE rec[k] # NoRec
        <5>1. rec[k].state = "completed" /\ rec[k].body \in Ids /\ eff[rec[k].body] = [key |-> k, hash |-> rec[k].hash]
          BY <4>3 DEF RecordsTrue
        <5>2. rec[k].body # weff
          BY <2>1, <5>1
        <5> QED
          BY <2>4, <4>1, <5>1, <5>2
      <4> QED
        BY <4>2, <4>3
    <3> QED
      BY <3>1, <3>2
  <2>8. OpenRemembered'
    <3> SUFFICES ASSUME NEW i \in open'
                 PROVE  /\ eff'[i].key \in Keys
                        /\ rec'[eff'[i].key].body = i
                        /\ rec'[eff'[i].key].kind = "operation"
      BY DEF OpenRemembered
    <3>1. CASE i = weff
      <4>1. weff \notin open
        BY <2>1 DEF OpenRemembered
      <4>2. wrec.kind = "operation"
        BY <3>1, <4>1
      <4> QED
        BY <2>0, <2>1, <2>4, <3>1, <4>2 DEF TypeOK
    <3>2. CASE i # weff
      <4>1. i \in open /\ i \in Ids
        BY <3>2 DEF TypeOK
      <4>2. eff'[i] = eff[i] /\ eff[i].key \in Keys /\ rec[eff[i].key].body = i /\ rec[eff[i].key].kind = "operation"
        BY <2>4, <3>2, <4>1 DEF OpenRemembered
      <4>3. eff[i].key # Key
        <5> SUFFICES ASSUME eff[i].key = Key PROVE FALSE
          OBVIOUS
        <5>1. rec[Key] = NoRec
          BY <2>0, <2>1 DEF RecordsTrue
        <5> QED
          BY <4>1, <4>2, <5>1, NoRecFacts
      <4> QED
        BY <2>0, <4>2, <4>3 DEF TypeOK
    <3> QED
      BY <3>1, <3>2
  <2>9. AnswersAreDurable'
    <3> SUFFICES ASSUME NEW c \in Clients, reply'[c] \in Ids PROVE eff'[reply'[c]] = req[c]
      BY DEF AnswersAreDurable
    <3>1. CASE c = tx
      BY <2>0, <2>1, <2>4, <3>1 DEF TypeOK, Told
    <3>2. CASE c # tx
      <4>1. reply'[c] = reply[c] /\ eff[reply[c]] = req[c]
        BY <3>2 DEF TypeOK, AnswersAreDurable
      <4>2. reply[c] # weff
        BY <2>1, <4>1 DEF TypeOK
      <4> QED
        BY <2>4, <4>1, <4>2
    <3> QED
      BY <3>1, <3>2
  <2> QED
    BY <2>5, <2>6, <2>7, <2>8, <2>9
<1>9. CASE Crash
  <2> USE <1>9 DEF Crash
  <2>1. crashes' \in 0..MaxCrashes
    BY FaultBounded
  <2>2. TypeOK'
    BY <2>1, NoRecFacts DEF TypeOK, Place, Told
  <2>3. Written' /\ Claimed'
    BY DEF Written, Claimed
  <2>4. RecordsTrue' /\ OpenRemembered'
    BY DEF RecordsTrue, OpenRemembered
  <2>5. AnswersAreDurable'
    BY DEF AnswersAreDurable, TypeOK, Told
  <2> QED
    BY <2>2, <2>3, <2>4, <2>5
<1>10. ASSUME NEW i \in Ids, OpTerminal(i) PROVE IInv'
  <2> USE <1>10 DEF OpTerminal
  <2>1. TypeOK'
    BY DEF TypeOK, Place
  <2>2. Written' /\ Claimed'
    BY DEF Written, Claimed, Key, Hash, Unused
  <2>3. RecordsTrue' /\ OpenRemembered'
    BY DEF RecordsTrue, OpenRemembered
  <2>4. AnswersAreDurable'
    BY DEF AnswersAreDurable
  <2> QED
    BY <2>1, <2>2, <2>3, <2>4
<1>11. ASSUME NEW k \in Keys, Expire(k) PROVE IInv'
  <2> USE <1>11 DEF Expire
  <2>1. /\ rec' \in [Keys -> Records]
        /\ \A j \in Keys : /\ rec'[j].state = rec[j].state /\ rec'[j].hash = rec[j].hash
                           /\ rec'[j].body = rec[j].body /\ rec'[j].kind = rec[j].kind
        /\ \A j \in Keys \ {k} : rec'[j] = rec[j]
    BY DEF TypeOK, Records
  <2>2. TypeOK'
    BY <2>1 DEF TypeOK, Place
  <2>3. pc \in {"effect", "complete", "commit"} => Key \in Keys
    BY DEF TypeOK, Place, Key
  <2>4. Written' /\ Claimed'
    BY <2>1, <2>3 DEF Written, Claimed, Key, Hash, Unused
  <2>5. RecordsTrue'
    BY <2>1, NoRecFacts DEF RecordsTrue
  <2>6. OpenRemembered'
    BY <2>1 DEF OpenRemembered
  <2>7. AnswersAreDurable'
    BY DEF AnswersAreDurable
  <2> QED
    BY <2>2, <2>4, <2>5, <2>6, <2>7
<1>12. ASSUME NEW k \in Keys, GC(k) PROVE IInv'
  <2> USE <1>12 DEF GC
  <2>1. rec' \in [Keys -> Records] /\ rec'[k] = NoRec /\ \A j \in Keys \ {k} : rec'[j] = rec[j]
    BY NoRecFacts DEF TypeOK
  <2>2. TypeOK'
    BY <2>1 DEF TypeOK, Place
  <2>3. Written' /\ Claimed'
    BY DEF Written, Claimed, TypeOK, Place
  <2>4. RecordsTrue'
    BY <2>1 DEF RecordsTrue
  <2>5. OpenRemembered'
    <3>1. \A i \in open : eff[i].key # k
      BY DEF OpenRemembered, Collectable
    <3> QED
      BY <2>1, <3>1 DEF OpenRemembered
  <2>6. AnswersAreDurable'
    BY DEF AnswersAreDurable
  <2> QED
    BY <2>2, <2>3, <2>4, <2>5, <2>6
<1>13. CASE UNCHANGED vars
  BY <1>13 DEF vars, TypeOK, Place, Written, Claimed, RecordsTrue, OpenRemembered, AnswersAreDurable, Key, Hash, Unused
<1> QED
  BY <1>1, <1>2, <1>3, <1>4, <1>5, <1>6, <1>7, <1>8, <1>9, <1>10, <1>11, <1>12, <1>13 DEF Next

\* The invariant holds of every behaviour.
THEOREM Inductive == Spec => []IInv
<1>1. IInv /\ [Next]_vars => IInv'
  BY NextIInv
<1> QED
  BY <1>1, InitIInv, PTL DEF Spec

\* Type correctness of the key store and its handlers.
THEOREM TypeCorrect == Spec => []TypeOK
<1>1. IInv => TypeOK
  BY DEF IInv
<1> QED
  BY <1>1, Inductive, PTL

\* No client is ever answered with an effect that is not on disk or that is
\* another request's.
THEOREM Durable == Spec => []AnswersAreDurable
<1>1. IInv => AnswersAreDurable
  BY DEF IInv
<1> QED
  BY <1>1, Inductive, PTL

\* A key never has two operations under way, not even after its record has
\* expired and been collected.
THEOREM OneOpenPerKey == Spec => [](\A i, j \in open : eff[i].key = eff[j].key => i = j)
<1>1. IInv => \A i, j \in open : eff[i].key = eff[j].key => i = j
  BY DEF IInv, OpenRemembered
<1> QED
  BY <1>1, Inductive, PTL

\* Handlers, store, crashes and collection implement Once: a key's effect
\* happens when its outcome appears, and not again while it is remembered.
THEOREM Refinement == Spec => ActsOnce
<1> DEFINE outcome == [k \in Keys |-> rec[k].body]
           owner == [i \in Ids |-> eff[i].key]
<1>1. Init => Outcome!Init
  BY NoRecFacts DEF Init, Outcome!Init, NoEff
<1>2. IInv /\ [Next]_vars => [Outcome!Next]_<<outcome, owner, open>>
  <2> SUFFICES ASSUME IInv, [Next]_vars PROVE Outcome!Next \/ UNCHANGED <<outcome, owner, open>>
    OBVIOUS
  <2> USE DEF IInv
  <2>1. CASE Commit
    <3>1. /\ tx \in Clients /\ Key \in Keys /\ weff \in Ids /\ wrec.body = weff
          /\ rec[Key] = NoRec /\ eff[weff].key = NoKey
      BY <2>1, NoRecFacts DEF Commit, TypeOK, Place, Key, Written, Claimed, Unused, RecordsTrue
    <3>2. outcome[Key] = NoId /\ owner[weff] = NoKey
      BY <3>1, NoRecFacts
    <3>3. outcome' = [outcome EXCEPT ![Key] = weff]
      BY <2>1, <3>1 DEF Commit, TypeOK
    <3>4. owner' = [owner EXCEPT ![weff] = Key]
      BY <2>1, <3>1 DEF Commit, TypeOK
    <3>5. open' \in {open, open \cup {weff}}
      BY <2>1 DEF Commit
    <3>6. PICK k \in Keys, i \in Ids : k = Key /\ i = weff
      BY <3>1
    <3>7. outcome[k] = NoId /\ owner[i] = NoKey
      BY <3>2, <3>6, Zenon
    <3>8. /\ outcome' = [outcome EXCEPT ![k] = i]
          /\ owner' = [owner EXCEPT ![i] = k]
          /\ open' \in {open, open \cup {i}}
      BY <3>3, <3>4, <3>5, <3>6, Zenon
    <3> QED
      BY <3>7, <3>8 DEF Outcome!Next, Outcome!Happen
  <2>2. ASSUME NEW i \in Ids, OpTerminal(i) PROVE Outcome!Next
    BY <2>2 DEF OpTerminal, Outcome!Next, Outcome!Close
  <2>3. ASSUME NEW k \in Keys, Expire(k) PROVE UNCHANGED <<outcome, owner, open>>
    <3>1. \A j \in Keys : rec'[j].body = rec[j].body
      BY <2>3 DEF Expire, TypeOK, Records
    <3> QED
      BY <2>3, <3>1 DEF Expire
  <2>4. ASSUME NEW k \in Keys, GC(k) PROVE Outcome!Next
    <3>1. rec[k] # NoRec
      BY <2>4, NoRecFacts DEF GC, Collectable
    <3>2. rec[k].body \in Ids /\ eff[rec[k].body].key = k
      <4>1. rec[k].body \in Ids /\ eff[rec[k].body] = [key |-> k, hash |-> rec[k].hash]
        BY <3>1, Zenon DEF RecordsTrue
      <4> QED
        BY <4>1
    <3>3. rec[k].body \notin open
      BY <2>4, <3>2 DEF GC, Collectable, OpenRemembered
    <3>4. outcome' = [outcome EXCEPT ![k] = NoId]
      BY <2>4, NoRecFacts DEF GC, TypeOK
    <3>5. Outcome!Forget(k)
      BY <2>4, <3>2, <3>3, <3>4 DEF GC, Outcome!Forget
    <3> QED
      BY <3>5 DEF Outcome!Next
  <2>5. ASSUME NEW c \in Clients, Send(c) \/ Retry(c) \/ BeginTx(c) PROVE UNCHANGED <<outcome, owner, open>>
    BY <2>5 DEF Send, Retry, BeginTx
  <2>6. CASE Begin \/ Effect \/ Refuse \/ Complete \/ Crash
    BY <2>6 DEF Begin, BeginNew, BeginExisting, Rollback, Effect, Refuse, Complete, Crash
  <2>7. CASE UNCHANGED vars
    BY <2>7 DEF vars
  <2> QED
    BY <2>1, <2>2, <2>3, <2>4, <2>5, <2>6, <2>7 DEF Next
<1> QED
  BY <1>1, <1>2, Inductive, PTL DEF Spec, ActsOnce, Outcome!Spec
=============================================================================
