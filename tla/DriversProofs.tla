---------------------------- MODULE DriversProofs ----------------------------
(***************************************************************************)
(* Proofs about Drivers for every driver, any set of machines and any      *)
(* number of faults and operations.                                        *)
(***************************************************************************)
EXTENDS Drivers, FiniteSetTheorems, TLAPS

TypeInv ==
    /\ driver \in {"aws", "gcp", "hetzner", "digitalocean", "docker", "fake"}
    /\ cloud \in [Machines -> States]
    /\ listed \subseteq Machines
    /\ op \in Ops
    /\ faults \in Nat

(* Only EC2 goes on showing an instance after its end. *)
TerminatedInv == driver # "aws" => \A m \in Machines : cloud[m] # "terminated"

(* Whatever state it is in, there is one machine: the strengthening of     *)
(* OneMachine.  A create is sent only when a name or a token would refuse  *)
(* a second machine, or when there is none.                                *)
AtMostOne == \A m, n \in Machines : cloud[m] # "none" /\ cloud[n] # "none" => m = n

(* Clouds without unique names rely on the read and the verification.      *)
NothingSent ==
    /\ driver \in {"digitalocean", "fake"} /\ op.kind = "create" /\ op.stage \in {"journaled", "send"}
    => \A m \in Machines : cloud[m] = "none"

(* Docker has not taken the reply to a create for a refusal. *)
Readable == ~op.garbled

(* A create that may be sent again, or has failed, without a reference has *)
(* no machine.                                                             *)
NothingLeft ==
    /\ op.kind = "create" /\ op.stage \in {"journaled", "send", "failed"} /\ op.ref = NoRef /\ Readable
    => \A m \in Machines : cloud[m] \notin Alive

(* What is polled, and every resource after its create, has a reference. *)
RefKnown ==
    op.stage = "poll" \/ op.kind # "create" \/ op.row \in {"ready", "parked"} => op.ref \in Machines

(* Only GCE's stops and starts are read again after a refusal. *)
RescueInv == op.stage = "rescue" => isParkOp /\ driver = "gcp"

DriverInv ==
    TypeInv /\ TerminatedInv /\ AtMostOne /\ NothingSent /\ NothingLeft /\ RefKnown /\ RescueInv

(* The invariant holds before the first call.                              *)
LEMMA InitDriver == Init => DriverInv
  <1> SUFFICES ASSUME Init PROVE DriverInv
    OBVIOUS
  <1>1. /\ driver \in Drivers /\ cloud = [m \in Machines |-> "none"] /\ listed = {} /\ faults = 0
        /\ op = [kind |-> "create", stage |-> "journaled", ref |-> NoRef, data |-> "nil", row |-> "creating",
                 garbled |-> FALSE]
    BY Zenon DEF Init
  <1>2. TypeInv
    BY <1>1, DriversKnown DEF TypeInv, States, Gone, Ops, Kinds
  <1>3. op.stage = "journaled" /\ op.kind = "create" /\ op.row = "creating"
    BY <1>1
  <1> QED
    BY <1>1, <1>2, <1>3 DEF DriverInv, TerminatedInv, AtMostOne, NothingSent, NothingLeft, RefKnown, RescueInv, Alive

-----------------------------------------------------------------------------
(* What a step may do to the machines: nothing, or to one that is there    *)
(* something that does not bring it back to life.                          *)
CloudStep ==
    /\ driver' = driver
    /\ \/ UNCHANGED cloud
       \/ \E m \in Machines, t \in States :
             /\ cloud[m] # "none" /\ cloud' = [cloud EXCEPT ![m] = t]
             /\ t \in Alive => cloud[m] \in Alive
             /\ t = "terminated" => driver = "aws"

(* What a step may do to the operation without a new reading of the cloud: *)
(* a create is sent again or given up only if it was about to be sent.     *)
OpStep ==
    /\ op' \in Ops /\ op'.kind = op.kind /\ op'.garbled = op.garbled
    /\ op'.ref = op.ref \/ op'.ref \in Machines
    /\ op'.stage \in {"journaled", "send"} =>
          op.kind # "create" \/ (op.stage \in {"journaled", "send"} /\ op'.ref = op.ref)
    /\ op'.stage = "failed" =>
          \/ op.kind # "create" \/ op'.ref \in Machines
          \/ op.stage \in {"journaled", "send", "failed"} /\ op'.ref = op.ref
    /\ op'.stage = "poll" => op'.ref \in Machines
    /\ op'.stage = "rescue" => isParkOp /\ driver = "gcp"
    /\ op'.row \in {"ready", "parked"} => op.row \in {"ready", "parked"} \/ op'.ref \in Machines

(* Such a step makes no machine and keeps what is gone gone.               *)
LEMMA CloudFacts ==
    ASSUME DriverInv, CloudStep
    PROVE  /\ cloud' \in [Machines -> States]
           /\ TerminatedInv' /\ AtMostOne'
           /\ \A m \in Machines : /\ cloud[m] = "none" => cloud'[m] = "none"
                                  /\ cloud[m] \notin Alive => cloud'[m] \notin Alive
  <1> USE DEF DriverInv, TypeInv
  <1>1. CASE UNCHANGED cloud
    BY <1>1 DEF CloudStep, TerminatedInv, AtMostOne
  <1>2. CASE \E m \in Machines, t \in States :
               /\ cloud[m] # "none" /\ cloud' = [cloud EXCEPT ![m] = t]
               /\ t \in Alive => cloud[m] \in Alive
               /\ t = "terminated" => driver = "aws"
    BY <1>2 DEF CloudStep, TerminatedInv, AtMostOne
  <1> QED
    BY <1>1, <1>2 DEF CloudStep

(* Only a garbled reply changes what is readable.                          *)
LEMMA ReadableKept == op'.garbled = op.garbled => (Readable' <=> Readable)
  BY Zenon DEF Readable

(* Steps that make no machine keep the invariant.                          *)
LEMMA QuietKeeps ==
    ASSUME DriverInv, CloudStep, OpStep, listed' \subseteq Machines, faults' \in Nat
    PROVE  DriverInv'
  <1>0. op \in Ops /\ driver' = driver
    BY DEF DriverInv, TypeInv, CloudStep
  <1>1. TypeInv' /\ TerminatedInv' /\ AtMostOne'
    BY <1>0, CloudFacts DEF DriverInv, TypeInv, OpStep
  <1>2. NothingSent'
    BY <1>0, CloudFacts DEF DriverInv, NothingSent, OpStep
  <1>3. NothingLeft'
    <2>1. SUFFICES ASSUME op'.kind = "create", op'.stage \in {"journaled", "send", "failed"},
                          op'.ref = NoRef, Readable'
                   PROVE  \A m \in Machines : cloud'[m] \notin Alive
      BY Zenon DEF NothingLeft
    <2>2. op.kind = "create" /\ op'.ref \notin Machines
      BY <2>1, NoRefFresh DEF OpStep
    <2>3. op.stage \in {"journaled", "send", "failed"} /\ op.ref = NoRef
      BY <2>1, <2>2 DEF OpStep
    <2>4. Readable
      BY <2>1, ReadableKept DEF OpStep
    <2> QED
      BY <2>2, <2>3, <2>4, CloudFacts DEF DriverInv, NothingLeft
  <1>4. RefKnown'
    BY DEF DriverInv, RefKnown, OpStep
  <1>5. RescueInv'
    BY <1>0 DEF RescueInv, OpStep, isParkOp
  <1> QED
    BY <1>1, <1>2, <1>3, <1>4, <1>5 DEF DriverInv

-----------------------------------------------------------------------------
(* The moves of the engine, as steps of the operation. *)

(* Another stage and nothing else. *)
LEMMA StageStep ==
    ASSUME op \in Ops, NEW s \in {"journaled", "send", "rescue", "verify"},
           op' = [op EXCEPT !.stage = s],
           s \in {"journaled", "send"} => op.kind # "create" \/ op.stage \in {"journaled", "send"},
           s = "rescue" => isParkOp /\ driver = "gcp"
    PROVE  OpStep
  BY DEF OpStep, Ops

(* An accepted operation has a reference to poll.                          *)
LEMMA AcceptStep ==
    ASSUME op \in Ops, NEW m \in Machines, NEW d \in Kinds \cup {"nil"}, Accept(m, d)
    PROVE  OpStep /\ op'.stage = "poll" /\ op'.ref = m
  BY DEF OpStep, Accept, Ops

(* The rows an operation ends with. *)
LEMMA SettledRows ==
    ASSUME op \in Ops
    PROVE  /\ [create |-> "ready", start |-> "ready", stop |-> "parked", delete |-> "deleted"][op.kind]
                 \in {"ready", "parked", "deleted"}
           /\ [create |-> "failed", start |-> "parked", stop |-> "ready", delete |-> "failed"][op.kind]
                 \in {"ready", "parked", "failed"}
           /\ op.kind = "create" =>
                 [create |-> "failed", start |-> "parked", stop |-> "ready", delete |-> "failed"][op.kind]
                    = "failed"
  BY DEF Ops, Kinds

(* An operation that is done keeps its reference.                          *)
LEMMA SucceedStep ==
    ASSUME op \in Ops, Succeed, op.ref \in Machines
    PROVE  OpStep
  <1>1. PICK r \in {"ready", "parked", "deleted"} :
          op' = [op EXCEPT !.stage = "succeeded", !.row = r]
    BY SettledRows, Zenon DEF Succeed
  <1> QED
    BY <1>1 DEF OpStep, Ops

(* A failure with a reference, or of a create that was only about to be    *)
(* sent.                                                                   *)
LEMMA FailStep ==
    ASSUME op \in Ops, Fail, RefKnown,
           op.kind # "create" \/ op.ref \in Machines \/ op.stage \in {"journaled", "send", "failed"}
    PROVE  OpStep
  <1>1. PICK r \in {"ready", "parked", "failed"} :
          /\ op' = [op EXCEPT !.stage = "failed", !.row = r]
          /\ op.kind = "create" => r = "failed"
    BY SettledRows, Zenon DEF Fail
  <1> QED
    BY <1>1 DEF OpStep, Ops, RefKnown

(* An error of a call whose effect is known, or of one that can be sent    *)
(* again, moves the operation quietly.                                     *)
LEMMA ErrorStep ==
    ASSUME op \in Ops, RefKnown, NEW err, HandleApplyError(err),
           op.kind # "create" \/ op.stage \in {"journaled", "send"}
    PROVE  /\ OpStep
           /\ op'.stage \in {"journaled", "verify", "failed", "succeeded"}
           /\ op'.kind = op.kind /\ op'.ref = op.ref
           /\ op.kind = "create" /\ err.class # "invalid" /\ err.effect # "none" => op'.stage = "verify"
  <1>1. CASE op.kind = "delete" /\ err.class = "not_found"
    <2>1. Succeed /\ op.ref \in Machines
      BY <1>1 DEF HandleApplyError, RefKnown
    <2> QED
      BY <1>1, <2>1, SucceedStep DEF Succeed, Ops
  <1>2. CASE /\ ~(op.kind = "delete" /\ err.class = "not_found")
             /\ (isParkOp /\ err.class = "not_found") \/ err.class = "invalid"
    <2>1. Fail
      BY <1>2 DEF HandleApplyError
    <2> QED
      BY <1>2, <2>1, FailStep DEF Fail, Ops, isParkOp
  <1>3. CASE /\ ~(op.kind = "delete" /\ err.class = "not_found")
             /\ ~(isParkOp /\ err.class = "not_found") /\ err.class # "invalid"
             /\ isParkOp \/ err.effect = "none"
    <2>1. op' = [op EXCEPT !.stage = "journaled"]
      BY <1>3 DEF HandleApplyError
    <2> QED
      BY <1>3, <2>1, StageStep DEF Ops, isParkOp
  <1>4. CASE /\ ~(op.kind = "delete" /\ err.class = "not_found")
             /\ ~(isParkOp /\ err.class = "not_found") /\ err.class # "invalid"
             /\ ~isParkOp /\ err.effect # "none"
    <2>1. op' = [op EXCEPT !.stage = "verify"]
      BY <1>4 DEF HandleApplyError
    <2> QED
      BY <2>1, StageStep DEF Ops
  <1> QED
    BY <1>1, <1>2, <1>3, <1>4

(* No driver reports a lost reply, or a name that is taken, as a request   *)
(* without effect.                                                         *)
LEMMA MaybeStaysMaybe ==
    ASSUME TypeInv
    PROVE  /\ mapErr("unavailable", "maybe").class = "retryable"
           /\ mapErr("unavailable", "maybe").effect = "maybe"
           /\ mapErr("conflict", "maybe").class = "conflict"
           /\ mapErr("conflict", "maybe").effect = "maybe"
  BY DEF TypeInv, mapErr, AwsErr, GcpErr, HetznerErr, DigitalOceanErr, DockerErr, FakeErr, Err

-----------------------------------------------------------------------------
(* Steps that launch no machine and read no list *)

(* A fault is counted.                                                     *)
LEMMA Faulted == TypeInv /\ Fault => faults' \in Nat
  BY DEF TypeInv, Fault

(* Steps of the engine before and beside the request. *)
LEMMA ReadsKeep ==
    ASSUME DriverInv, CreateRead \/ LookupFails \/ StopStartRead \/ DeleteRead \/ ReadFails
                      \/ AcquireRefused \/ Rescue
    PROVE  UNCHANGED <<driver, cloud, listed>> /\ OpStep /\ faults' \in Nat
  <1>0. UNCHANGED <<driver, cloud, listed>>
    BY Zenon DEF CreateRead, LookupFails, StopStartRead, DeleteRead, ReadFails, AcquireRefused, Rescue
  <1>t. TypeInv /\ op \in Ops /\ RefKnown /\ faults \in Nat /\ RescueInv
    BY DEF DriverInv, TypeInv
  <1>p. isParkOp \/ op.kind = "delete" => op.kind # "create" /\ op.ref \in Machines
    BY <1>t DEF isParkOp, RefKnown
  <1>k. op.kind \in Kinds
    BY <1>t DEF Ops
  <1>1. CASE CreateRead
    <2>1. op.stage = "journaled" /\ op.kind = "create"
      BY <1>1, Zenon DEF CreateRead
    <2>2. \/ \E m \in DedupHits : Accept(m, DedupData) /\ UNCHANGED faults
          \/ op' = [op EXCEPT !.stage = "send"] /\ (UNCHANGED faults \/ Fault)
      BY <1>1, Zenon DEF CreateRead
    <2>3. DedupHits \subseteq Machines /\ DedupData \in Kinds \cup {"nil"}
      <3>1. DedupHits \subseteq Machines
        BY Zenon DEF DedupHits
      <3> QED
        BY <3>1 DEF DedupData, Kinds
    <2> QED
      BY <1>0, <1>t, <2>1, <2>2, <2>3, AcceptStep, StageStep, Faulted
  <1>2. CASE LookupFails
    <2>1. /\ op.stage = "send" /\ Fault
          /\ \E reply \in {"throttled", "notfound", "rejected", "unavailable"} :
                HandleApplyError(Lookup(reply))
      BY <1>2, Zenon DEF LookupFails
    <2> QED
      BY <1>0, <1>t, <2>1, ErrorStep, Faulted
  <1>3. CASE StopStartRead
    <2>1. isParkOp /\ UNCHANGED faults
      BY <1>3, Zenon DEF StopStartRead
    <2>2. op' = [op EXCEPT !.stage = "send"] \/ Fail \/ Accept(op.ref, op.kind)
      BY <1>3 DEF StopStartRead, AwsStopStartRead, GcpStopStartRead
    <2> QED
      BY <1>0, <1>t, <1>p, <1>k, <2>1, <2>2, AcceptStep, StageStep, FailStep
  <1>4. CASE DeleteRead
    <2>1. op.kind = "delete" /\ UNCHANGED faults
      BY <1>4, Zenon DEF DeleteRead
    <2>2. op' = [op EXCEPT !.stage = "send"] \/ Accept(op.ref, "nil")
      BY <1>4, Zenon DEF DeleteRead
    <2> QED
      BY <1>0, <1>t, <1>p, <2>1, <2>2, AcceptStep, StageStep
  <1>5. CASE ReadFails
    <2>1. /\ op.stage = "journaled" /\ Fault
          /\ \E reply \in {"throttled", "rejected", "unavailable"} :
                HandleApplyError(mapErr(reply, "none"))
      BY <1>5, Zenon DEF ReadFails
    <2> QED
      BY <1>0, <1>t, <2>1, ErrorStep, Faulted
  <1>6. CASE AcquireRefused
    <2>1. op.stage = "send" /\ HandleApplyError(Err("rate_limited", "none")) /\ UNCHANGED faults
      BY <1>6, Zenon DEF AcquireRefused
    <2> QED
      BY <1>0, <1>t, <2>1, ErrorStep
  <1>7. CASE Rescue
    <2>1. isParkOp
      BY <1>7, <1>t DEF Rescue, RescueInv
    <2>2. (Fail \/ Accept(op.ref, op.kind)) /\ (UNCHANGED faults \/ Fault)
      BY <1>7, Zenon DEF Rescue, RescueRead
    <2> QED
      BY <1>0, <1>t, <1>p, <1>k, <2>1, <2>2, AcceptStep, FailStep, Faulted
  <1> QED
    BY <1>1, <1>2, <1>3, <1>4, <1>5, <1>6, <1>7

(* A refusal leaves the cloud as it is. *)
LEMMA RefusedStep ==
    ASSUME DriverInv, op.stage = "send", NEW reply, Refused(reply)
    PROVE  /\ UNCHANGED <<cloud, listed>> /\ OpStep
           /\ reply \in {"unavailable", "conflict"} /\ op.kind = "create" => op'.stage = "verify"
  <1>t. TypeInv /\ op \in Ops /\ RefKnown
    BY DEF DriverInv, TypeInv
  <1>1. \/ isParkOp /\ driver = "gcp" /\ op' = [op EXCEPT !.stage = "rescue"]
        \/ HandleApplyError(mapErr(reply, "maybe"))
    BY Zenon DEF Refused
  <1>2. UNCHANGED <<cloud, listed>>
    BY Zenon DEF Refused
  <1>3. CASE isParkOp /\ driver = "gcp" /\ op' = [op EXCEPT !.stage = "rescue"]
    BY <1>t, <1>2, <1>3, StageStep DEF isParkOp
  <1>4. CASE HandleApplyError(mapErr(reply, "maybe"))
    BY <1>t, <1>2, <1>4, ErrorStep, MaybeStaysMaybe
  <1> QED
    BY <1>1, <1>3, <1>4

(* A reply, or its loss; docker may misread it. *)
LEMMA RepliedStep ==
    ASSUME DriverInv, op.stage = "send", NEW m \in Machines, NEW d \in Kinds \cup {"nil"}, Replied(m, d)
    PROVE  /\ op' \in Ops /\ op'.kind = op.kind /\ faults' \in Nat
           /\ \/ OpStep /\ (\/ op'.stage = "poll" /\ op'.ref = m
                            \/ op'.ref = op.ref /\ (op.kind = "create" => op'.stage = "verify"))
              \/ /\ driver = "docker" /\ op'.stage = "journaled" /\ op'.ref = op.ref /\ op'.row = op.row
                 /\ ~Readable'
  <1>t. TypeInv /\ op \in Ops /\ RefKnown /\ faults \in Nat
    BY DEF DriverInv, TypeInv
  <1>1. CASE Accept(m, d) /\ UNCHANGED faults
    <2>1. OpStep /\ op'.stage = "poll" /\ op'.ref = m
      BY <1>t, <1>1, AcceptStep
    <2>2. op' \in Ops /\ op'.kind = op.kind
      BY <2>1 DEF OpStep
    <2>3. faults' \in Nat
      BY <1>t, <1>1
    <2> QED
      BY <2>1, <2>2, <2>3, Zenon
  <1>2. CASE Fault /\ HandleApplyError(mapErr("unavailable", "maybe"))
    BY <1>t, <1>2, ErrorStep, MaybeStaysMaybe, Faulted DEF OpStep
  <1>3. CASE driver = "docker" /\ Fault /\ op' = [op EXCEPT !.stage = "journaled", !.garbled = TRUE]
    <2>1. op'.garbled = TRUE
      BY <1>t, <1>3 DEF Ops
    <2>2. ~Readable'
      BY <2>1, Zenon DEF Readable
    <2>3. /\ op' \in Ops /\ op'.kind = op.kind /\ op'.stage = "journaled" /\ op'.ref = op.ref
          /\ op'.row = op.row
      BY <1>t, <1>3 DEF Ops
    <2> QED
      BY <1>t, <1>3, <2>2, <2>3, Faulted
  <1> QED
    BY <1>1, <1>2, <1>3, Zenon DEF Replied

(* A step whose reply docker misreads keeps the invariant too. *)
LEMMA MisreadKeeps ==
    ASSUME DriverInv, driver = "docker", driver' = driver, cloud' \in [Machines -> States],
           TerminatedInv', AtMostOne', listed' \subseteq Machines, faults' \in Nat,
           op' \in Ops, op'.kind = op.kind, op'.stage = "journaled", op'.ref = op.ref,
           op'.row = op.row, ~Readable'
    PROVE  DriverInv'
  <1>1. TypeInv'
    BY DEF DriverInv, TypeInv
  <1>2. NothingSent'
    BY DEF NothingSent
  <1>3. NothingLeft'
    BY Zenon DEF NothingLeft
  <1>4. RefKnown' /\ RescueInv'
    BY DEF DriverInv, RefKnown, RescueInv
  <1> QED
    BY <1>1, <1>2, <1>3, <1>4 DEF DriverInv

(* A call that fails before it is sent.                                    *)
LEMMA RefusalKeeps == DriverInv /\ SendFails => DriverInv'
  <1> SUFFICES ASSUME DriverInv, SendFails PROVE DriverInv'
    OBVIOUS
  <1>1. /\ op.stage = "send" /\ Fault /\ driver' = driver
        /\ \E reply \in Refusals \cup {"unavailable"} : Refused(reply)
    BY Zenon DEF SendFails
  <1>2. UNCHANGED <<cloud, listed>> /\ OpStep
    BY <1>1, RefusedStep
  <1>3. CloudStep /\ listed' \subseteq Machines /\ faults' \in Nat
    BY <1>1, <1>2, Faulted DEF CloudStep, DriverInv, TypeInv
  <1> QED
    BY <1>2, <1>3, QuietKeeps

-----------------------------------------------------------------------------
(* The requests *)

(* A create that is sent: unique names, tokens and labels make it the only *)
(* one.                                                                    *)
LEMMA CreateKeeps == DriverInv /\ SendCreate => DriverInv'
  <1> SUFFICES ASSUME DriverInv, SendCreate PROVE DriverInv'
    OBVIOUS
  <1>t. TypeInv /\ op \in Ops /\ RefKnown /\ cloud \in [Machines -> States]
    BY DEF DriverInv, TypeInv
  <1>0. op.stage = "send" /\ op.kind = "create" /\ driver' = driver
    BY Zenon DEF SendCreate
  <1>1. CASE CreateFresh
    <2>1. \A m \in Machines : cloud[m] = "none"
      <3>1. NativelyUnique => \A m \in Machines : cloud[m] = "none"
        BY <1>1, Zenon DEF CreateFresh
      <3> QED
        BY <1>0, <1>t, <3>1 DEF DriverInv, NothingSent, NativelyUnique, TypeInv
    <2>2. PICK m \in Machines, s \in {"pending", "running"} :
            /\ cloud' = [cloud EXCEPT ![m] = s]
            /\ listed' \in {listed \cup {m}, listed}
            /\ Replied(m, IF driver = "fake" THEN "nil" ELSE "create")
      <3>1. PICK m \in Machines :
              /\ \E s \in IF driver = "docker" THEN {"pending", "running"} ELSE {"pending"} :
                    cloud' = [cloud EXCEPT ![m] = s]
              /\ listed' \in {listed \cup {m}} \cup IF driver = "docker" THEN {} ELSE {listed}
              /\ Replied(m, IF driver = "fake" THEN "nil" ELSE "create")
        BY <1>1, Zenon DEF CreateFresh
      <3> QED
        BY <3>1
    <2>3. /\ op' \in Ops /\ op'.kind = op.kind /\ faults' \in Nat
          /\ \/ OpStep /\ (\/ op'.stage = "poll" /\ op'.ref = m
                           \/ op'.ref = op.ref /\ (op.kind = "create" => op'.stage = "verify"))
             \/ /\ driver = "docker" /\ op'.stage = "journaled" /\ op'.ref = op.ref
                /\ op'.row = op.row /\ ~Readable'
      <3>1. (IF driver = "fake" THEN "nil" ELSE "create") \in Kinds \cup {"nil"}
        BY DEF Kinds
      <3> QED
        BY <1>0, <2>2, <3>1, RepliedStep
    <2>4. cloud' \in [Machines -> States] /\ listed' \subseteq Machines
      BY <1>t, <2>2 DEF TypeInv, States, Alive
    <2>5. TerminatedInv' /\ AtMostOne'
      BY <1>t, <1>0, <2>1, <2>2 DEF TerminatedInv, AtMostOne
    <2>6. CASE OpStep /\ (op'.stage = "poll" \/ op'.stage = "verify")
      <3>1. TypeInv'
        BY <1>0, <1>t, <2>3, <2>4 DEF TypeInv
      <3>2. NothingSent' /\ NothingLeft' /\ RescueInv'
        BY <2>6 DEF NothingSent, NothingLeft, RescueInv
      <3>3. RefKnown'
        BY <2>6, <1>t DEF OpStep, RefKnown
      <3> QED
        BY <2>5, <3>1, <3>2, <3>3 DEF DriverInv
    <2>7. CASE driver = "docker" /\ op'.stage = "journaled" /\ op'.ref = op.ref
               /\ op'.row = op.row /\ ~Readable'
      BY <1>0, <2>3, <2>4, <2>5, <2>7, MisreadKeeps
    <2> QED
      BY <1>0, <2>3, <2>6, <2>7
  <1>2. CASE CreateTaken
    <2>1. PICK m \in Machines :
            \/ Accept(m, "create") /\ UNCHANGED <<cloud, listed, faults>>
            \/ \E reply \in {"conflict", "unavailable"} : Refused(reply) /\ UNCHANGED faults
      BY <1>2, Zenon DEF CreateTaken
    <2>2. UNCHANGED <<cloud, listed, faults>> /\ OpStep
      <3>1. "create" \in Kinds \cup {"nil"}
        BY DEF Kinds
      <3> QED
        BY <1>0, <1>t, <2>1, <3>1, AcceptStep, RefusedStep
    <2>3. CloudStep /\ listed' \subseteq Machines /\ faults' \in Nat
      BY <1>0, <1>t, <2>2 DEF CloudStep, TypeInv
    <2> QED
      BY <2>2, <2>3, QuietKeeps
  <1> QED
    BY <1>1, <1>2, Zenon DEF SendCreate

(* Stops and starts make no machine.                                       *)
LEMMA PowerKeeps == DriverInv /\ SendStopStart => DriverInv'
  <1> SUFFICES ASSUME DriverInv, SendStopStart PROVE DriverInv'
    OBVIOUS
  <1>t. /\ TypeInv /\ op \in Ops /\ RefKnown /\ cloud \in [Machines -> States]
        /\ listed \subseteq Machines /\ faults \in Nat
    BY DEF DriverInv, TypeInv
  <1>0. op.stage = "send" /\ isParkOp /\ driver' = driver
    BY Zenon DEF SendStopStart
  <1>1. op.kind # "create" /\ op.ref \in Machines /\ op.kind \in Kinds
    BY <1>0, <1>t DEF isParkOp, RefKnown, Ops
  <1>2. \/ /\ cloud[op.ref] \in IF op.kind = "stop" THEN {"running", "pending"} ELSE {"stopped"}
           /\ cloud' = [cloud EXCEPT ![op.ref] = PowerEffect]
           /\ Replied(op.ref, IF driver = "fake" THEN "nil" ELSE op.kind)
           /\ UNCHANGED listed
        \/ Replied(op.ref, IF driver = "fake" THEN "nil" ELSE op.kind) /\ UNCHANGED <<cloud, listed>>
        \/ \E reply \in {"wrongstate", "notfound"} : Refused(reply) /\ UNCHANGED faults
    BY Zenon DEF SendStopStart
  <1>3. CASE \E reply \in {"wrongstate", "notfound"} : Refused(reply) /\ UNCHANGED faults
    <2>1. UNCHANGED <<cloud, listed, faults>> /\ OpStep
      BY <1>0, <1>3, RefusedStep
    <2>2. CloudStep /\ listed' \subseteq Machines /\ faults' \in Nat
      BY <1>0, <1>t, <2>1 DEF CloudStep
    <2> QED
      BY <2>1, <2>2, QuietKeeps
  <1>4. CASE Replied(op.ref, IF driver = "fake" THEN "nil" ELSE op.kind) /\ CloudStep /\ UNCHANGED listed
    <2>1. (IF driver = "fake" THEN "nil" ELSE op.kind) \in Kinds \cup {"nil"}
      BY <1>1
    <2>2. /\ op' \in Ops /\ op'.kind = op.kind /\ faults' \in Nat
          /\ \/ OpStep
             \/ /\ driver = "docker" /\ op'.stage = "journaled" /\ op'.ref = op.ref
                /\ op'.row = op.row /\ ~Readable'
      BY <1>0, <1>1, <1>4, <2>1, RepliedStep
    <2>3. cloud' \in [Machines -> States] /\ TerminatedInv' /\ AtMostOne'
      BY <1>4, CloudFacts
    <2> QED
      BY <1>0, <1>t, <1>4, <2>2, <2>3, QuietKeeps, MisreadKeeps
  <1>5. CASE /\ cloud[op.ref] \in IF op.kind = "stop" THEN {"running", "pending"} ELSE {"stopped"}
             /\ cloud' = [cloud EXCEPT ![op.ref] = PowerEffect]
    <2>1. PowerEffect \in Alive
      BY DEF PowerEffect, Alive
    <2>2. cloud[op.ref] \in Alive /\ cloud[op.ref] # "none"
      BY <1>5 DEF Alive
    <2>3. PowerEffect \in States /\ PowerEffect # "terminated"
      BY <2>1 DEF States, Alive
    <2> QED
      BY <1>0, <1>1, <1>2, <1>3, <1>4, <1>5, <2>1, <2>2, <2>3 DEF CloudStep
  <1> QED
    BY <1>0, <1>2, <1>3, <1>4, <1>5 DEF CloudStep

(* Neither do deletes, and what they end stays ended.                      *)
LEMMA DeleteKeeps == DriverInv /\ SendDelete => DriverInv'
  <1> SUFFICES ASSUME DriverInv, SendDelete PROVE DriverInv'
    OBVIOUS
  <1>t. /\ TypeInv /\ op \in Ops /\ RefKnown /\ cloud \in [Machines -> States]
        /\ listed \subseteq Machines /\ faults \in Nat
    BY DEF DriverInv, TypeInv
  <1>0. op.stage = "send" /\ op.kind = "delete" /\ driver' = driver
    BY Zenon DEF SendDelete
  <1>1. op.ref \in Machines
    BY <1>0, <1>t DEF RefKnown
  <1>2. CASE /\ cloud[op.ref] # "none"
             /\ \E t \in DeleteEffect(cloud[op.ref]) : cloud' = [cloud EXCEPT ![op.ref] = t]
             /\ Replied(op.ref, IF driver = "fake" THEN "nil" ELSE "delete")
             /\ listed' = {m \in listed : cloud'[m] # "none"}
    <2>1. (IF driver = "fake" THEN "nil" ELSE "delete") \in Kinds \cup {"nil"}
      BY DEF Kinds
    <2>2. /\ op' \in Ops /\ op'.kind = op.kind /\ faults' \in Nat
          /\ \/ OpStep
             \/ /\ driver = "docker" /\ op'.stage = "journaled" /\ op'.ref = op.ref
                /\ op'.row = op.row /\ ~Readable'
      BY <1>0, <1>1, <1>2, <2>1, RepliedStep
    <2>3. CloudStep
      <3>1. PICK t \in DeleteEffect(cloud[op.ref]) : cloud' = [cloud EXCEPT ![op.ref] = t]
        BY <1>2
      <3>2. /\ t \in {"deleting", "none", "terminated"}
            /\ t = "terminated" => cloud[op.ref] = "terminated"
        BY <3>1 DEF DeleteEffect
      <3>3. t \in States /\ t \notin Alive /\ (t = "terminated" => driver = "aws")
        BY <1>1, <3>2 DEF States, Alive, Gone, DriverInv, TerminatedInv
      <3> QED
        BY <1>0, <1>1, <1>2, <3>1, <3>3 DEF CloudStep
    <2>4. cloud' \in [Machines -> States] /\ TerminatedInv' /\ AtMostOne'
      BY <2>3, CloudFacts
    <2>5. listed' \subseteq Machines
      BY <1>t, <1>2
    <2> QED
      BY <1>0, <2>2, <2>3, <2>4, <2>5, QuietKeeps, MisreadKeeps
  <1>3. CASE DeleteOfDeleted /\ UNCHANGED <<cloud, listed, faults>>
    <2>1. OpStep
      <3>1. {"delete", "nil"} \subseteq Kinds \cup {"nil"}
        BY DEF Kinds
      <3>2. \/ HandleApplyError(mapErr("notfound", "maybe"))
            \/ Accept(op.ref, "delete") \/ Accept(op.ref, "nil")
        BY <1>3 DEF DeleteOfDeleted
      <3> QED
        BY <1>0, <1>1, <1>t, <3>1, <3>2, ErrorStep, AcceptStep
    <2>2. CloudStep /\ listed' \subseteq Machines /\ faults' \in Nat
      BY <1>0, <1>t, <1>3 DEF CloudStep
    <2> QED
      BY <2>1, <2>2, QuietKeeps
  <1> QED
    BY <1>2, <1>3, Zenon DEF SendDelete

-----------------------------------------------------------------------------
(* Polling, verification and the cloud *)

(* A poll believes the driver about a machine it has a reference to.       *)
LEMMA PollKeeps == DriverInv /\ Poll => DriverInv'
  <1> SUFFICES ASSUME DriverInv, Poll PROVE DriverInv'
    OBVIOUS
  <1>t. /\ TypeInv /\ op \in Ops /\ RefKnown /\ cloud \in [Machines -> States]
        /\ listed \subseteq Machines /\ faults \in Nat
    BY DEF DriverInv, TypeInv
  <1>0. /\ op.stage = "poll" /\ driver' = driver /\ UNCHANGED faults
        /\ cloud' = [cloud EXCEPT ![op.ref] = Polled(@)]
        /\ listed' = {m \in listed : cloud'[m] # "none"}
    BY Zenon DEF Poll
  <1>1. op.ref \in Machines
    BY <1>0, <1>t DEF RefKnown
  <1>2. OpStep
    <2>1. Succeed \/ Fail \/ op' = [op EXCEPT !.stage = "verify"]
      BY DEF Poll
    <2> QED
      BY <1>t, <1>1, <2>1, SucceedStep, FailStep, StageStep
  <1>3. CloudStep
    <2>1. CASE Polled(cloud[op.ref]) = cloud[op.ref]
      BY <1>0, <1>t, <2>1 DEF CloudStep
    <2>2. CASE Polled(cloud[op.ref]) # cloud[op.ref]
      <3>1. cloud[op.ref] \in {"pending", "stopping", "deleting"}
        BY <2>2 DEF Polled
      <3>2. /\ Polled(cloud[op.ref]) \in {"running", "stopped", "none"}
            /\ Polled(cloud[op.ref]) # "none" => cloud[op.ref] # "deleting"
        BY <2>2, <3>1 DEF Polled, FakeStep
      <3>3. /\ Polled(cloud[op.ref]) \in States /\ Polled(cloud[op.ref]) # "terminated"
            /\ Polled(cloud[op.ref]) \in Alive => cloud[op.ref] \in Alive
            /\ cloud[op.ref] # "none"
        BY <3>1, <3>2 DEF States, Alive, Gone
      <3> QED
        BY <1>0, <1>1, <3>3 DEF CloudStep
    <2> QED
      BY <2>1, <2>2
  <1>4. listed' \subseteq Machines /\ faults' \in Nat
    BY <1>0, <1>t
  <1> QED
    BY <1>2, <1>3, <1>4, QuietKeeps

(* docker's start of a container that was only created.                    *)
LEMMA RestartKeeps == DriverInv /\ PollRestart => DriverInv'
  <1> SUFFICES ASSUME DriverInv, PollRestart PROVE DriverInv'
    OBVIOUS
  <1>t. /\ TypeInv /\ op \in Ops /\ RefKnown /\ RescueInv
        /\ listed \subseteq Machines /\ faults \in Nat
    BY DEF DriverInv, TypeInv
  <1>0. /\ op.stage = "poll" /\ UNCHANGED <<driver, listed, op, faults>>
        /\ cloud' = [cloud EXCEPT ![op.ref] = "running"] /\ ObserveOperation = "restart"
    BY Zenon DEF PollRestart
  <1>1. op.ref \in Machines
    BY <1>0, <1>t DEF RefKnown
  <1>2. cloud[op.ref] = "pending"
    BY <1>0, <1>t DEF ObserveOperation, TypeInv, AwsObserve, GcpObserve, HetznerObserve, DigitalOceanObserve,
       DockerObserve, FakeObserve
  <1>3. CloudStep
    <2>1. "running" \in States /\ cloud[op.ref] \in Alive /\ cloud[op.ref] # "none"
      BY <1>2 DEF States, Alive
    <2> QED
      BY <1>0, <1>1, <2>1 DEF CloudStep
  <1>4. OpStep
    BY <1>0, <1>t, <1>1 DEF OpStep
  <1> QED
    BY <1>0, <1>t, <1>3, <1>4, QuietKeeps

(* Absence counts only after the lists have caught up. *)
LEMMA VerifyKeeps == DriverInv /\ VerifyCreate => DriverInv'
  <1> SUFFICES ASSUME DriverInv, VerifyCreate PROVE DriverInv'
    OBVIOUS
  <1>t. /\ TypeInv /\ op \in Ops /\ RefKnown /\ cloud \in [Machines -> States]
        /\ listed \subseteq Machines /\ faults \in Nat
    BY DEF DriverInv, TypeInv
  <1>0. op.stage = "verify" /\ op.kind = "create" /\ UNCHANGED <<driver, cloud, listed, faults>>
    BY Zenon DEF VerifyCreate
  <1>1. CASE \E m \in {n \in listed : Discovered(n)} : Accept(m, "nil")
    <2>1. OpStep
      BY <1>t, <1>1, AcceptStep
    <2>2. CloudStep
      BY <1>0 DEF CloudStep
    <2> QED
      BY <1>0, <1>t, <2>1, <2>2, QuietKeeps
  <1>2. CASE /\ {n \in listed : Discovered(n)} = {} /\ Caught
             /\ op' = [op EXCEPT !.stage = "journaled"]
    <2>1. \A m \in Machines : cloud[m] # "none" => ~Discovered(m)
      BY <1>2 DEF Caught
    <2>2. \A m \in Machines : cloud[m] \in Gone
      <3>1. ASSUME NEW m \in Machines, cloud[m] # "none" PROVE cloud[m] \in Gone
        <4>1. cloud[m] \in States /\ ~Discovered(m)
          BY <1>t, <2>1, <3>1
        <4> QED
          BY <4>1 DEF Discovered, AwsDiscover, OtherDiscover, States
      <3>2. "none" \in Gone
        BY DEF Gone
      <3> QED
        BY <3>1, <3>2
    <2>3. driver # "aws" => \A m \in Machines : cloud[m] = "none"
      BY <2>2 DEF DriverInv, TerminatedInv, Gone
    <2>4. /\ op' \in Ops /\ op'.kind = "create" /\ op'.stage = "journaled" /\ op'.ref = op.ref
          /\ op'.row = op.row
      BY <1>0, <1>t, <1>2 DEF Ops
    <2>5. TypeInv' /\ TerminatedInv' /\ AtMostOne'
      BY <1>0, <2>4 DEF DriverInv, TypeInv, TerminatedInv, AtMostOne
    <2>6. NothingSent' /\ RescueInv'
      BY <1>0, <2>3, <2>4 DEF NothingSent, RescueInv
    <2>7. NothingLeft'
      BY <1>0, <2>2 DEF NothingLeft, Gone, Alive
    <2>8. RefKnown'
      BY <1>0, <1>t, <2>4 DEF RefKnown
    <2> QED
      BY <2>5, <2>6, <2>7, <2>8 DEF DriverInv
  <1> QED
    BY <1>1, <1>2, Zenon DEF VerifyCreate

(* The cloud, and whoever else has access to it, make no machine of this   *)
(* create.                                                                 *)
LEMMA CloudKeeps == DriverInv /\ (Progress \/ OutOfBand) => DriverInv'
  <1> SUFFICES ASSUME DriverInv, Progress \/ OutOfBand PROVE DriverInv'
    OBVIOUS
  <1>t. /\ TypeInv /\ op \in Ops /\ RefKnown /\ RescueInv /\ cloud \in [Machines -> States]
        /\ listed \subseteq Machines /\ faults \in Nat
    BY DEF DriverInv, TypeInv
  <1>0. UNCHANGED <<driver, op>> /\ (UNCHANGED faults \/ Fault)
    BY Zenon DEF Progress, OutOfBand
  <1>1. listed' \subseteq Machines
    BY <1>t DEF Progress, OutOfBand
  <1>2. PICK m \in Machines, t \in {"running", "stopping", "stopped", "suspending", "suspended", "pending",
                                    "deleting", "terminated", "none"} :
          /\ cloud' = [cloud EXCEPT ![m] = t]
          /\ \/ cloud[m] \in {"pending", "stopping", "suspending", "running", "stopped"}
                /\ t \notin {"terminated", "none"}
             \/ cloud[m] \in Alive /\ t = "deleting"
             \/ cloud[m] = "deleting" /\ t = IF driver = "aws" THEN "terminated" ELSE "none"
             \/ cloud[m] = "terminated" /\ t = "none"
    <2>1. CASE Progress
      BY <2>1 DEF Progress
    <2>2. CASE OutOfBand
      BY <2>2 DEF OutOfBand
    <2> QED
      BY <2>1, <2>2
  <1>3. CloudStep
    BY <1>0, <1>2 DEF CloudStep, States, Alive, Gone
  <1>4. OpStep
    BY <1>0, <1>t DEF OpStep, RefKnown, RescueInv
  <1> QED
    BY <1>0, <1>t, <1>1, <1>3, <1>4, QuietKeeps, Faulted

(* The next operation starts from the row that the last one left.          *)
LEMMA JournalKeeps == \A kind \in Kinds \ {"create"} : DriverInv /\ Journal(kind) => DriverInv'
  <1> SUFFICES ASSUME DriverInv, NEW kind \in Kinds \ {"create"}, Journal(kind) PROVE DriverInv'
    OBVIOUS
  <1>t. op \in Ops /\ RefKnown
    BY DEF DriverInv, TypeInv
  <1>0. /\ op' = [op EXCEPT !.kind = kind, !.stage = "journaled", !.data = "nil"]
        /\ UNCHANGED <<driver, cloud, listed, faults>>
    BY Zenon DEF Journal
  <1>1. /\ op' \in Ops /\ op'.kind = kind /\ op'.stage = "journaled" /\ op'.ref = op.ref
        /\ op'.row = op.row
    BY <1>0, <1>t DEF Ops
  <1>2. TypeInv' /\ TerminatedInv' /\ AtMostOne'
    BY <1>0, <1>1 DEF DriverInv, TypeInv, TerminatedInv, AtMostOne
  <1>3. NothingSent' /\ NothingLeft' /\ RescueInv'
    BY <1>1 DEF NothingSent, NothingLeft, RescueInv
  <1>4. op.ref \in Machines
    <2>1. CASE kind = "delete"
      <3>1. op.ref # NoRef
        BY <2>1, Zenon DEF Journal
      <3> QED
        BY <1>t, <3>1 DEF Ops
    <2>2. CASE kind \in {"stop", "start"}
      <3>1. op.row \in {"ready", "parked"}
        BY <2>2 DEF Journal
      <3> QED
        BY <1>t, <3>1 DEF RefKnown
    <2> QED
      BY <2>1, <2>2 DEF Kinds
  <1> QED
    BY <1>1, <1>2, <1>3, <1>4 DEF DriverInv, RefKnown

(* The invariant is inductive.                                             *)
LEMMA NextDriver == DriverInv /\ [Next]_vars => DriverInv'
  <1> SUFFICES ASSUME DriverInv, [Next]_vars PROVE DriverInv'
    OBVIOUS
  <1>t. /\ TypeInv /\ op \in Ops /\ RefKnown /\ RescueInv /\ listed \subseteq Machines /\ faults \in Nat
    BY DEF DriverInv, TypeInv
  <1>1. CASE CreateRead \/ LookupFails \/ StopStartRead \/ DeleteRead \/ ReadFails
             \/ AcquireRefused \/ Rescue
    <2>1. UNCHANGED <<driver, cloud, listed>> /\ OpStep /\ faults' \in Nat
      BY <1>1, ReadsKeep
    <2> QED
      BY <1>t, <2>1, QuietKeeps DEF CloudStep
  <1>2. CASE VerifyDelete
    <2>1. /\ op.stage = "verify" /\ op.kind = "delete" /\ UNCHANGED <<driver, cloud, listed, faults>>
          /\ Succeed \/ op' = [op EXCEPT !.stage = "journaled"]
      BY <1>2, Zenon DEF VerifyDelete
    <2>2. OpStep
      BY <1>t, <2>1, SucceedStep, StageStep DEF RefKnown
    <2> QED
      BY <1>t, <2>1, <2>2, QuietKeeps DEF CloudStep
  <1>3. CASE OperationEnds \/ Listed \/ Unpark \/ UNCHANGED vars
    <2>1. UNCHANGED <<driver, cloud, op>> /\ (UNCHANGED faults \/ Fault)
      BY <1>3, Zenon DEF OperationEnds, Listed, Unpark, vars
    <2>2. listed' \subseteq Machines
      BY <1>3, <1>t DEF OperationEnds, Listed, Unpark, vars
    <2>3. OpStep
      BY <2>1, <1>t DEF OpStep, RefKnown, RescueInv
    <2> QED
      BY <1>t, <2>1, <2>2, <2>3, QuietKeeps, Faulted DEF CloudStep
  <1> QED
    BY <1>1, <1>2, <1>3, RefusalKeeps, CreateKeeps, PowerKeeps, DeleteKeeps, PollKeeps, RestartKeeps,
       VerifyKeeps, CloudKeeps, JournalKeeps DEF Next

(***************************************************************************)
(* However replies are lost, garbled, refused or late, one create leaves   *)
(* at most one machine alive, on every driver.                             *)
(***************************************************************************)
THEOREM CreatesMakeOneMachine == Spec => []OneMachine
  <1>1. Init => DriverInv
    BY InitDriver
  <1>2. DriverInv /\ [Next]_vars => DriverInv'
    BY NextDriver
  <1>3. DriverInv => OneMachine
    <2> SUFFICES ASSUME DriverInv PROVE OneMachine
      OBVIOUS
    <2> DEFINE Living == {m \in Machines : cloud[m] \in Alive}
    <2>1. \A m, n \in Living : m = n
      BY DEF DriverInv, AtMostOne, Alive
    <2>2. CASE Living = {}
      BY <2>2, FS_EmptySet DEF OneMachine
    <2>3. CASE Living # {}
      <3>1. PICK m \in Living : TRUE
        BY <2>3
      <3>2. Living = {m}
        BY <2>1, <3>1
      <3>3. Cardinality({m}) = 1
        BY FS_Singleton
      <3> QED
        BY <3>2, <3>3 DEF OneMachine
    <2> QED
      BY <2>2, <2>3
  <1> QED
    BY <1>1, <1>2, <1>3, PTL DEF Spec

(***************************************************************************)
(* A create that fails without a reference has left no machine alive, but  *)
(* for the reply docker misreads: every driver's mapErr says effect "none" *)
(* only of requests that made nothing, and an absence is believed only     *)
(* after the lists have caught up.                                         *)
(***************************************************************************)
THEOREM FailedCreatesAreClean == Spec => []FailedCreateLeavesNothing
  <1>1. Init => DriverInv
    BY InitDriver
  <1>2. DriverInv /\ [Next]_vars => DriverInv'
    BY NextDriver
  <1>3. DriverInv => FailedCreateLeavesNothing
    BY Zenon DEF DriverInv, NothingLeft, Readable, FailedCreateLeavesNothing
  <1> QED
    BY <1>1, <1>2, <1>3, PTL DEF Spec

-----------------------------------------------------------------------------
(* Refused stops *)

(* What makes an operation on the power state fail. *)
LEMMA ParkErrors ==
    ASSUME op \in Ops, isParkOp, NEW err, HandleApplyError(err), op'.stage = "failed"
    PROVE  err.class \in {"not_found", "invalid"}
  <1>1. CASE ~(err.class \in {"not_found", "invalid"})
    <2>1. op' = [op EXCEPT !.stage = "journaled"]
      BY <1>1 DEF HandleApplyError, isParkOp
    <2> QED
      BY <2>1 DEF Ops
  <1> QED
    BY <1>1

(* How the error maps classify what a stop or start may meet.              *)
LEMMA PowerErrors ==
    ASSUME TypeInv
    PROVE  /\ mapErr("unavailable", "maybe").class = "retryable"
           /\ driver = "aws" => mapErr("wrongstate", "maybe").class = "retryable"
           /\ driver = "gcp" => mapErr("wrongstate", "maybe").class = "invalid"
  BY DEF TypeInv, mapErr, AwsErr, GcpErr, HetznerErr, DigitalOceanErr, DockerErr, FakeErr, Err

(* These replies leave a stop or a start open. *)
LEMMA PowerRefused ==
    ASSUME TypeInv, isParkOp, NEW reply, Refused(reply),
           reply = "unavailable" \/ (reply = "wrongstate" /\ driver \in {"aws", "gcp"})
    PROVE  op'.stage # "failed"
  <1>t. op \in Ops
    BY DEF TypeInv
  <1>1. CASE op' = [op EXCEPT !.stage = "rescue"]
    BY <1>t, <1>1 DEF Ops
  <1>2. CASE /\ HandleApplyError(mapErr(reply, "maybe"))
             /\ ~(driver = "gcp" /\ isParkOp /\ mapErr(reply, "maybe").class = "invalid")
    BY <1>t, <1>2, ParkErrors, PowerErrors
  <1> QED
    BY <1>1, <1>2, Zenon DEF Refused

(* A stop or start whose reply arrives, or is lost, does not fail.         *)
LEMMA PowerReplied ==
    ASSUME TypeInv, isParkOp, NEW m \in Machines, NEW d, Replied(m, d)
    PROVE  op'.stage # "failed"
  <1>t. op \in Ops
    BY DEF TypeInv
  <1>1. CASE Accept(m, d)
    BY <1>t, <1>1 DEF Accept, Ops
  <1>2. CASE HandleApplyError(mapErr("unavailable", "maybe"))
    BY <1>t, <1>2, ParkErrors, PowerErrors
  <1>3. CASE op' = [op EXCEPT !.stage = "journaled", !.garbled = TRUE]
    BY <1>t, <1>3 DEF Ops
  <1> QED
    BY <1>1, <1>2, <1>3, Zenon DEF Replied

(***************************************************************************)
(* A stop whose call is refused leaves a machine that is not stopped or    *)
(* being stopped, unless the re-read after GCE's refusal fails: each       *)
(* driver turns a stop that has already happened into a success.           *)
(***************************************************************************)
THEOREM RefusedStopsAreClean == Spec => FailedStopIsClean
  <1> DEFINE Down == {"stopping", "stopped", "suspending", "suspended"}
  <1>1. ASSUME DriverInv, [Next]_vars, op.kind = "stop", op'.stage = "failed",
               op.stage = "send" \/ (op.stage = "rescue" /\ faults' = faults)
        PROVE  cloud[op.ref] \notin Down
    <2>t. TypeInv /\ op \in Ops /\ faults \in Nat /\ op.ref \in Machines /\ isParkOp
      BY <1>1 DEF DriverInv, TypeInv, RefKnown, isParkOp
    <2>1. AcquireRefused \/ SendFails \/ SendStopStart \/ Rescue
      <3>1. CASE UNCHANGED op
        BY <1>1, <3>1
      <3>2. \/ OperationEnds \/ Listed \/ Unpark \/ PollRestart \/ Progress \/ OutOfBand \/ UNCHANGED vars
            => UNCHANGED op
        BY Zenon DEF OperationEnds, Listed, Unpark, PollRestart, Progress, OutOfBand, vars
      <3>3. \A kind \in Kinds \ {"create"} : ~Journal(kind)
        BY <1>1 DEF Journal, Settled
      <3>4. ~CreateRead /\ ~LookupFails /\ ~SendCreate /\ ~SendDelete /\ ~VerifyCreate /\ ~VerifyDelete
            /\ ~DeleteRead
        BY <1>1 DEF CreateRead, LookupFails, SendCreate, SendDelete, VerifyCreate, VerifyDelete, DeleteRead
      <3>5. ~StopStartRead /\ ~ReadFails /\ ~Poll
        BY <1>1 DEF StopStartRead, ReadFails, Poll
      <3> QED
        BY <1>1, <3>1, <3>2, <3>3, <3>4, <3>5, Zenon DEF Next
    <2>2. CASE AcquireRefused
      <3>1. HandleApplyError(Err("rate_limited", "none"))
        BY <2>2, Zenon DEF AcquireRefused
      <3>2. Err("rate_limited", "none").class = "rate_limited"
        BY DEF Err
      <3> QED
        BY <1>1, <2>t, <3>1, <3>2, ParkErrors
    <2>3. CASE SendFails
      <3>1. \/ Refused("unavailable")
            \/ cloud[op.ref] \in IF op.kind = "stop" THEN {"running", "pending"} ELSE {"stopped"}
        BY <2>3, <2>t, Zenon DEF SendFails
      <3> QED
        BY <1>1, <2>t, <3>1, PowerRefused
    <2>4. CASE SendStopStart
      <3>1. \/ cloud[op.ref] \in IF op.kind = "stop" THEN {"running", "pending"} ELSE {"stopped"}
            \/ Replied(op.ref, IF driver = "fake" THEN "nil" ELSE op.kind)
            \/ driver \in {"aws", "gcp"} /\ Refused("wrongstate")
            \/ cloud[op.ref] \in Gone
        BY <2>4, Zenon DEF SendStopStart
      <3> QED
        BY <1>1, <2>t, <3>1, PowerRefused, PowerReplied DEF Gone
    <2>5. CASE Rescue
      <3>1. faults' = faults
        BY <1>1, <2>5 DEF Rescue
      <3>2. ~Fault
        BY <2>t, <3>1 DEF Fault
      <3>3. RescueRead(cloud[op.ref])
        BY <2>5, <3>2, Zenon DEF Rescue
      <3>4. CASE stopSettled(cloud[op.ref])
        <4>1. Accept(op.ref, op.kind)
          BY <1>1, <3>3, <3>4 DEF RescueRead
        <4> QED
          BY <1>1, <2>t, <4>1 DEF Accept, Ops
      <3> QED
        BY <3>4 DEF stopSettled, stopComplete
    <2> QED
      BY <2>1, <2>2, <2>3, <2>4, <2>5
  <1>2. DriverInv /\ [Next]_vars =>
          [op.kind = "stop" /\ op'.stage = "failed"
           /\ (op.stage = "send" \/ (op.stage = "rescue" /\ faults' = faults)) =>
             cloud[op.ref] \notin Down]_vars
    BY <1>1, Zenon
  <1>3. Init => DriverInv
    BY InitDriver
  <1>4. DriverInv /\ [Next]_vars => DriverInv'
    BY NextDriver
  <1> QED
    BY <1>2, <1>3, <1>4, PTL DEF Spec, FailedStopIsClean

-----------------------------------------------------------------------------
(* Successes are on target *)

(* What Data may say while an operation is polled.  A stop or a start has  *)
(* its own kind there, and a delete without Data was sent for a machine    *)
(* that was already gone; the fake's Data is always nil.                   *)
DataInv ==
    /\ op.stage = "poll" => op.data \in {op.kind, "nil"}
    /\ op.stage = "poll" /\ isParkOp /\ driver # "fake" => op.data = op.kind
    /\ op.stage = "poll" /\ op.kind = "delete" /\ op.data = "nil" /\ driver # "fake" =>
          cloud[op.ref] = "none"
    /\ driver \in {"hetzner", "digitalocean"} => ~isParkOp

(* The row after an operation has ended. *)
RowTable ==
    /\ op.stage = "succeeded" =>
          /\ op.kind \in {"create", "start"} => op.row = "ready"
          /\ op.kind = "stop" => op.row = "parked"
          /\ op.kind = "delete" => op.row = "deleted"
    /\ op.stage = "failed" =>
          /\ op.kind \in {"create", "delete"} => op.row = "failed"
          /\ op.kind = "stop" => op.row = "ready"
          /\ op.kind = "start" => op.row = "parked"

(* The fake looks at no kind, so its machines must be where the operation  *)
(* left them: nobody else moves them.                                      *)
FakeBase ==
    driver = "fake" =>
       /\ op.kind = "create" => \A m \in Machines : cloud[m] \in {"none", "pending", "running"}
       /\ op.kind = "stop" => cloud[op.ref] \in {"pending", "running", "stopping", "stopped"}
       /\ op.kind = "start" => cloud[op.ref] \in {"stopped", "pending", "running"}

FakeTarget ==
    driver = "fake" =>
       /\ op.kind = "create" /\ op.stage = "succeeded" => cloud[op.ref] # "none"
       /\ op.kind = "stop" /\ op.stage = "poll" => cloud[op.ref] \in {"stopping", "stopped"}
       /\ op.kind = "stop" /\ op.stage = "succeeded" => cloud[op.ref] = "stopped"
       /\ op.kind = "start" /\ op.stage \in {"poll", "succeeded"} => cloud[op.ref] \in {"pending", "running"}
       /\ op.kind = "delete" /\ op.stage = "poll" => cloud[op.ref] \in {"deleting", "none"}

TargetInv == DataInv /\ RowTable /\ FakeBase /\ FakeTarget

(* A step that neither accepts the operation nor finds it done. *)
Settles ==
    /\ op'.kind = op.kind /\ op'.ref = op.ref
    /\ op'.stage \in {"journaled", "send", "rescue", "verify", "failed", "succeeded"}
    /\ op'.stage = "succeeded" => op.kind = "delete"
    /\ RowTable'

(* Such a step keeps the invariant.                                        *)
LEMMA SettlesKeeps ==
    ASSUME TargetInv, Settles, driver' = driver, FakeBase'
    PROVE  TargetInv'
  <1>1. DataInv'
    BY DEF TargetInv, DataInv, Settles, isParkOp
  <1>2. FakeTarget'
    BY DEF FakeTarget, Settles
  <1> QED
    BY <1>1, <1>2 DEF TargetInv, Settles

(* The fake's machines are what its finished operations made them.         *)
LEMMA FakeBaseKept ==
    ASSUME TargetInv, driver' = driver, op'.kind = op.kind, UNCHANGED cloud,
           op'.ref = op.ref \/ op.kind = "create"
    PROVE  FakeBase'
  BY DEF TargetInv, FakeBase

(* A step to another stage before acceptance.                              *)
LEMMA StageSettles ==
    ASSUME op \in Ops, NEW s \in {"journaled", "send", "rescue", "verify"}, op' = [op EXCEPT !.stage = s]
    PROVE  Settles
  BY DEF Settles, Ops, RowTable

(* Success moves the row as succeed does.                                  *)
LEMMA SucceedRow ==
    ASSUME op \in Ops, Succeed
    PROVE  op'.kind = op.kind /\ op'.ref = op.ref /\ op'.stage = "succeeded" /\ RowTable'
  <1>1. PICK r : /\ op' = [op EXCEPT !.stage = "succeeded", !.row = r]
                 /\ op.kind \in {"create", "start"} => r = "ready"
                 /\ op.kind = "stop" => r = "parked"
                 /\ op.kind = "delete" => r = "deleted"
    <2> DEFINE r == [create |-> "ready", start |-> "ready", stop |-> "parked", delete |-> "deleted"][op.kind]
    <2>1. /\ op.kind \in {"create", "start"} => r = "ready"
          /\ op.kind = "stop" => r = "parked"
          /\ op.kind = "delete" => r = "deleted"
      OBVIOUS
    <2>2. op' = [op EXCEPT !.stage = "succeeded", !.row = r]
      BY Zenon DEF Succeed
    <2> QED
      BY <2>1, <2>2, Zenon
  <1> QED
    BY <1>1 DEF Ops, RowTable

(* Failure moves the row as failOp does.                                   *)
LEMMA FailSettles ==
    ASSUME op \in Ops, Fail
    PROVE  Settles
  <1>1. PICK r : /\ op' = [op EXCEPT !.stage = "failed", !.row = r]
                 /\ op.kind \in {"create", "delete"} => r = "failed"
                 /\ op.kind = "stop" => r = "ready"
                 /\ op.kind = "start" => r = "parked"
    <2> DEFINE r == [create |-> "failed", start |-> "parked", stop |-> "ready", delete |-> "failed"][op.kind]
    <2>1. /\ op.kind \in {"create", "delete"} => r = "failed"
          /\ op.kind = "stop" => r = "ready"
          /\ op.kind = "start" => r = "parked"
      OBVIOUS
    <2>2. op' = [op EXCEPT !.stage = "failed", !.row = r]
      BY Zenon DEF Fail
    <2> QED
      BY <2>1, <2>2, Zenon
  <1> QED
    BY <1>1 DEF Ops, RowTable, Settles

(* Whatever an error is classified as, nothing is accepted.                *)
LEMMA ErrorSettles ==
    ASSUME op \in Ops, NEW err, HandleApplyError(err)
    PROVE  Settles
  <1>1. \/ op.kind = "delete" /\ Succeed
        \/ Fail
        \/ op' = [op EXCEPT !.stage = "journaled"]
        \/ op' = [op EXCEPT !.stage = "verify"]
    BY Zenon DEF HandleApplyError
  <1>2. CASE op.kind = "delete" /\ Succeed
    BY <1>2, SucceedRow DEF Settles
  <1> QED
    BY <1>1, <1>2, FailSettles, StageSettles

(* A refusal changes nothing at the cloud.                                 *)
LEMMA RefusedSettles ==
    ASSUME op \in Ops, NEW reply, Refused(reply)
    PROVE  Settles /\ UNCHANGED cloud
  BY ErrorSettles, StageSettles, Zenon DEF Refused

(* The operation is accepted, and polled from here on. *)
LEMMA AcceptTarget ==
    ASSUME op \in Ops, TargetInv, driver' = driver, NEW m \in Machines, NEW d \in {op.kind, "nil"},
           Accept(m, d),
           isParkOp /\ driver # "fake" => d = op.kind,
           op.kind = "delete" /\ d = "nil" /\ driver # "fake" => cloud'[m] = "none",
           op.kind # "create" => m = op.ref,
           driver = "fake" =>
              /\ op.kind = "create" => \A n \in Machines : cloud'[n] \in {"none", "pending", "running"}
              /\ op.kind = "stop" => cloud'[m] \in {"stopping", "stopped"}
              /\ op.kind = "start" => cloud'[m] \in {"pending", "running"}
              /\ op.kind = "delete" => cloud'[m] \in {"deleting", "none"}
    PROVE  TargetInv'
  <1>1. op'.kind = op.kind /\ op'.ref = m /\ op'.stage = "poll" /\ op'.data = d
    BY DEF Accept, Ops
  <1>2. DataInv'
    BY <1>1 DEF TargetInv, DataInv, isParkOp
  <1>3. RowTable'
    BY <1>1 DEF RowTable
  <1>4. FakeBase' /\ FakeTarget'
    BY <1>1 DEF FakeBase, FakeTarget
  <1> QED
    BY <1>2, <1>3, <1>4 DEF TargetInv

(* A reply is accepted, or lost, in which case nothing is accepted.        *)
LEMMA RepliedTarget ==
    ASSUME op \in Ops, TargetInv, driver' = driver, NEW m \in Machines, NEW d \in {op.kind, "nil"},
           Replied(m, d), FakeBase' \/ driver # "fake",
           isParkOp /\ driver # "fake" => d = op.kind,
           op.kind = "delete" /\ d = "nil" /\ driver # "fake" => cloud'[m] = "none",
           op.kind # "create" => m = op.ref,
           driver = "fake" =>
              /\ op.kind = "create" => \A n \in Machines : cloud'[n] \in {"none", "pending", "running"}
              /\ op.kind = "stop" => cloud'[m] \in {"stopping", "stopped"}
              /\ op.kind = "start" => cloud'[m] \in {"pending", "running"}
              /\ op.kind = "delete" => cloud'[m] \in {"deleting", "none"}
    PROVE  TargetInv'
  <1>1. CASE Accept(m, d)
    BY <1>1, AcceptTarget
  <1>2. CASE HandleApplyError(mapErr("unavailable", "maybe"))
    <2>1. Settles
      BY <1>2, ErrorSettles
    <2>2. FakeBase'
      BY DEF FakeBase
    <2> QED
      BY <2>1, <2>2, SettlesKeeps
  <1>3. CASE driver = "docker" /\ op' = [op EXCEPT !.stage = "journaled", !.garbled = TRUE]
    <2>1. Settles
      BY <1>3 DEF Settles, Ops, RowTable
    <2>2. FakeBase'
      BY <1>3 DEF FakeBase
    <2> QED
      BY <2>1, <2>2, SettlesKeeps
  <1> QED
    BY <1>1, <1>2, <1>3, Zenon DEF Replied

(* It holds before the first call.                                         *)
LEMMA InitTarget == Init => TargetInv
  <1> SUFFICES ASSUME Init PROVE TargetInv
    OBVIOUS
  <1>1. /\ cloud = [m \in Machines |-> "none"]
        /\ op = [kind |-> "create", stage |-> "journaled", ref |-> NoRef, data |-> "nil", row |-> "creating",
                 garbled |-> FALSE]
    BY Zenon DEF Init
  <1>2. op.stage = "journaled" /\ op.kind = "create"
    BY <1>1
  <1> QED
    BY <1>1, <1>2 DEF TargetInv, DataInv, RowTable, FakeBase, FakeTarget, isParkOp

(* The reads before the request.                                           *)
LEMMA ReadsTarget ==
    ASSUME DriverInv, TargetInv,
           CreateRead \/ LookupFails \/ StopStartRead \/ DeleteRead \/ ReadFails \/ AcquireRefused \/ Rescue
    PROVE  TargetInv'
  <1>0. driver' = driver /\ UNCHANGED cloud
    BY Zenon DEF CreateRead, LookupFails, StopStartRead, DeleteRead, ReadFails, AcquireRefused, Rescue
  <1>t. TypeInv /\ op \in Ops /\ RefKnown /\ RescueInv
    BY DEF DriverInv, TypeInv
  <1>p. isParkOp \/ op.kind = "delete" => op.kind # "create" /\ op.ref \in Machines
    BY <1>t DEF isParkOp, RefKnown
  <1>s. ASSUME Settles PROVE TargetInv'
    <2>1. FakeBase'
      BY <1>0, <1>s, FakeBaseKept DEF Settles
    <2> QED
      BY <1>0, <1>s, <2>1, SettlesKeeps
  <1>a. ASSUME isParkOp, driver # "fake", Accept(op.ref, op.kind) PROVE TargetInv'
    BY <1>0, <1>t, <1>p, <1>a, AcceptTarget DEF isParkOp
  <1>1. CASE CreateRead
    <2>1. op.kind = "create"
      BY <1>1, Zenon DEF CreateRead
    <2>2. (\E m \in DedupHits : Accept(m, DedupData)) \/ op' = [op EXCEPT !.stage = "send"]
      BY <1>1, Zenon DEF CreateRead
    <2>3. ASSUME NEW m \in DedupHits, Accept(m, DedupData) PROVE TargetInv'
      <3>1. m \in Machines
        BY <2>3, Zenon DEF DedupHits
      <3>2. DedupData \in {op.kind, "nil"}
        BY <2>1 DEF DedupData
      <3>3. driver = "fake" => \A n \in Machines : cloud'[n] \in {"none", "pending", "running"}
        BY <1>0, <2>1 DEF TargetInv, FakeBase
      <3> QED
        BY <1>0, <1>t, <2>1, <2>3, <3>1, <3>2, <3>3, AcceptTarget DEF isParkOp
    <2> QED
      BY <1>s, <1>t, <2>2, <2>3, StageSettles
  <1>2. CASE LookupFails
    BY <1>2, <1>s, <1>t, ErrorSettles, Zenon DEF LookupFails
  <1>3. CASE StopStartRead
    <2>1. isParkOp
      BY <1>3, Zenon DEF StopStartRead
    <2>2. \/ op' = [op EXCEPT !.stage = "send"] \/ Fail
          \/ driver # "fake" /\ Accept(op.ref, op.kind)
      BY <1>3 DEF StopStartRead, AwsStopStartRead, GcpStopStartRead
    <2> QED
      BY <1>a, <1>s, <1>t, <2>1, <2>2, FailSettles, StageSettles
  <1>4. CASE DeleteRead
    <2>1. op.kind = "delete"
      BY <1>4, Zenon DEF DeleteRead
    <2>2. \/ op' = [op EXCEPT !.stage = "send"]
          \/ driver = "hetzner" /\ cloud[op.ref] = "none" /\ Accept(op.ref, "nil")
      BY <1>4, Zenon DEF DeleteRead
    <2>3. CASE driver = "hetzner" /\ cloud[op.ref] = "none" /\ Accept(op.ref, "nil")
      BY <1>0, <1>t, <1>p, <2>1, <2>3, AcceptTarget DEF isParkOp
    <2> QED
      BY <1>s, <1>t, <2>2, <2>3, StageSettles
  <1>5. CASE ReadFails
    BY <1>5, <1>s, <1>t, ErrorSettles, Zenon DEF ReadFails
  <1>6. CASE AcquireRefused
    BY <1>6, <1>s, <1>t, ErrorSettles, Zenon DEF AcquireRefused
  <1>7. CASE Rescue
    <2>1. isParkOp /\ driver = "gcp"
      BY <1>7, <1>t DEF Rescue, RescueInv
    <2>2. Fail \/ Accept(op.ref, op.kind)
      BY <1>7, Zenon DEF Rescue, RescueRead
    <2> QED
      BY <1>a, <1>s, <1>t, <2>1, <2>2, FailSettles
  <1> QED
    BY <1>1, <1>2, <1>3, <1>4, <1>5, <1>6, <1>7

(* Calls that fail before they are sent.                                   *)
LEMMA RefusalTarget == DriverInv /\ TargetInv /\ SendFails => TargetInv'
  <1> SUFFICES ASSUME DriverInv, TargetInv, SendFails PROVE TargetInv'
    OBVIOUS
  <1>t. op \in Ops
    BY DEF DriverInv, TypeInv
  <1>1. driver' = driver /\ \E reply \in Refusals \cup {"unavailable"} : Refused(reply)
    BY Zenon DEF SendFails
  <1>2. Settles /\ UNCHANGED cloud
    BY <1>t, <1>1, RefusedSettles
  <1>3. FakeBase'
    BY <1>1, <1>2, FakeBaseKept DEF Settles
  <1> QED
    BY <1>1, <1>2, <1>3, SettlesKeeps

(* The create request.                                                     *)
LEMMA CreateTarget == DriverInv /\ TargetInv /\ SendCreate => TargetInv'
  <1> SUFFICES ASSUME DriverInv, TargetInv, SendCreate PROVE TargetInv'
    OBVIOUS
  <1>t. op \in Ops /\ cloud \in [Machines -> States]
    BY DEF DriverInv, TypeInv
  <1>0. op.stage = "send" /\ op.kind = "create" /\ driver' = driver /\ ~isParkOp
    BY DEF SendCreate, isParkOp
  <1>1. CASE CreateFresh
    <2>1. PICK m \in Machines :
            /\ \E s \in IF driver = "docker" THEN {"pending", "running"} ELSE {"pending"} :
                  cloud' = [cloud EXCEPT ![m] = s]
            /\ Replied(m, IF driver = "fake" THEN "nil" ELSE "create")
      BY <1>1, Zenon DEF CreateFresh
    <2>2. driver = "fake" => \A n \in Machines : cloud'[n] \in {"none", "pending", "running"}
      BY <1>t, <1>0, <2>1 DEF TargetInv, FakeBase
    <2>3. (IF driver = "fake" THEN "nil" ELSE "create") \in {op.kind, "nil"}
      BY <1>0
    <2>4. op'.kind = op.kind
      <3>1. (IF driver = "fake" THEN "nil" ELSE "create") \in Kinds \cup {"nil"}
        BY DEF Kinds
      <3> QED
        BY <1>0, <2>1, <3>1, RepliedStep
    <2>5. FakeBase'
      BY <1>0, <2>2, <2>4 DEF FakeBase
    <2> QED
      BY <1>t, <1>0, <2>1, <2>2, <2>3, <2>5, RepliedTarget
  <1>2. CASE CreateTaken
    <2>1. PICK m \in Machines :
            \/ driver = "aws" /\ Accept(m, "create") /\ UNCHANGED cloud
            \/ \E reply \in {"conflict", "unavailable"} : Refused(reply)
      BY <1>2, Zenon DEF CreateTaken
    <2>2. CASE driver = "aws" /\ Accept(m, "create") /\ UNCHANGED cloud
      BY <1>t, <1>0, <2>2, AcceptTarget
    <2>3. CASE \E reply \in {"conflict", "unavailable"} : Refused(reply)
      <3>1. Settles /\ UNCHANGED cloud
        BY <1>t, <2>3, RefusedSettles
      <3>2. FakeBase'
        BY <1>0, <3>1, FakeBaseKept DEF Settles
      <3> QED
        BY <1>0, <3>1, <3>2, SettlesKeeps
    <2> QED
      BY <2>1, <2>2, <2>3
  <1> QED
    BY <1>1, <1>2, Zenon DEF SendCreate

(* The stop and start requests.                                            *)
LEMMA PowerTarget == DriverInv /\ TargetInv /\ SendStopStart => TargetInv'
  <1> SUFFICES ASSUME DriverInv, TargetInv, SendStopStart PROVE TargetInv'
    OBVIOUS
  <1>t. TypeInv /\ op \in Ops /\ cloud \in [Machines -> States] /\ RefKnown
    BY DEF DriverInv, TypeInv
  <1>0. op.stage = "send" /\ isParkOp /\ driver' = driver
    BY Zenon DEF SendStopStart
  <1>1. op.kind \in {"stop", "start"} /\ op.ref \in Machines
    BY <1>0, <1>t DEF isParkOp, RefKnown
  <1> DEFINE d == IF driver = "fake" THEN "nil" ELSE op.kind
  <1>2. \/ /\ cloud[op.ref] \in IF op.kind = "stop" THEN {"running", "pending"} ELSE {"stopped"}
           /\ cloud' = [cloud EXCEPT ![op.ref] = PowerEffect]
           /\ Replied(op.ref, d)
        \/ /\ ~(cloud[op.ref] \in IF op.kind = "stop" THEN {"running", "pending"} ELSE {"stopped"})
           /\ Replied(op.ref, d) /\ UNCHANGED cloud
        \/ \E reply \in {"wrongstate", "notfound"} : Refused(reply)
    BY Zenon DEF SendStopStart
  <1>3. CASE \E reply \in {"wrongstate", "notfound"} : Refused(reply)
    <2>1. Settles /\ UNCHANGED cloud
      BY <1>t, <1>3, RefusedSettles
    <2>2. FakeBase'
      BY <1>0, <2>1, FakeBaseKept DEF Settles
    <2> QED
      BY <1>0, <2>1, <2>2, SettlesKeeps
  <1>4. CASE /\ Replied(op.ref, d)
             /\ driver = "fake" =>
                  /\ op.kind = "stop" => cloud'[op.ref] \in {"stopping", "stopped"}
                  /\ op.kind = "start" => cloud'[op.ref] \in {"pending", "running"}
    <2>1. d \in {op.kind, "nil"} /\ (driver # "fake" => d = op.kind)
      OBVIOUS
    <2>2. op'.kind = op.kind /\ op'.ref = op.ref
      <3>1. d \in Kinds \cup {"nil"}
        BY <1>1 DEF Kinds
      <3> QED
        BY <1>0, <1>1, <1>4, <3>1, RepliedStep
    <2>3. FakeBase'
      BY <1>0, <1>1, <1>4, <2>2 DEF FakeBase
    <2> HIDE DEF d
    <2> QED
      BY <1>0, <1>1, <1>t, <1>4, <2>1, <2>3, RepliedTarget
  <1>5. driver = "fake" =>
          /\ op.kind = "stop" => cloud[op.ref] \in {"pending", "running", "stopping", "stopped"}
          /\ op.kind = "start" => cloud[op.ref] \in {"stopped", "pending", "running"}
    BY DEF TargetInv, FakeBase
  <1>6. /\ op.kind = "stop" /\ driver = "fake" => PowerEffect = "stopping"
        /\ op.kind = "start" /\ driver = "fake" => PowerEffect = "pending"
    BY DEF PowerEffect
  <1> HIDE DEF d
  <1> QED
    BY <1>1, <1>2, <1>3, <1>4, <1>5, <1>6, <1>t

(* The delete request.                                                     *)
LEMMA DeleteTarget == DriverInv /\ TargetInv /\ SendDelete => TargetInv'
  <1> SUFFICES ASSUME DriverInv, TargetInv, SendDelete PROVE TargetInv'
    OBVIOUS
  <1>t. TypeInv /\ op \in Ops /\ cloud \in [Machines -> States] /\ RefKnown /\ TerminatedInv
    BY DEF DriverInv, TypeInv
  <1>0. op.stage = "send" /\ op.kind = "delete" /\ driver' = driver /\ ~isParkOp
    BY DEF SendDelete, isParkOp
  <1>1. op.ref \in Machines
    BY <1>0, <1>t DEF RefKnown
  <1> DEFINE d == IF driver = "fake" THEN "nil" ELSE "delete"
  <1>2. CASE /\ \E t \in DeleteEffect(cloud[op.ref]) : cloud' = [cloud EXCEPT ![op.ref] = t]
             /\ Replied(op.ref, d)
    <2>1. d \in {op.kind, "nil"} /\ (driver # "fake" => d = "delete")
      BY <1>0
    <2>2. driver = "fake" => cloud'[op.ref] \in {"deleting", "none"}
      BY <1>1, <1>2, <1>t DEF DeleteEffect, TerminatedInv
    <2>3. op'.kind = op.kind
      <3>1. d \in Kinds \cup {"nil"}
        BY DEF Kinds
      <3> QED
        BY <1>0, <1>1, <1>2, <3>1, RepliedStep
    <2>4. FakeBase'
      BY <1>0, <2>3 DEF FakeBase
    <2> HIDE DEF d
    <2> QED
      BY <1>0, <1>1, <1>t, <1>2, <2>1, <2>2, <2>4, RepliedTarget
  <1>3. CASE cloud[op.ref] = "none" /\ DeleteOfDeleted /\ UNCHANGED cloud
    <2>1. \/ HandleApplyError(mapErr("notfound", "maybe"))
          \/ \E b \in {"delete", "nil"} : Accept(op.ref, b)
      BY <1>3 DEF DeleteOfDeleted
    <2>2. CASE HandleApplyError(mapErr("notfound", "maybe"))
      <3>1. Settles
        BY <1>t, <2>2, ErrorSettles
      <3>2. FakeBase'
        BY <1>0, <1>3, <3>1, FakeBaseKept DEF Settles
      <3> QED
        BY <1>0, <3>1, <3>2, SettlesKeeps
    <2>3. ASSUME NEW b \in {"delete", "nil"}, Accept(op.ref, b) PROVE TargetInv'
      BY <1>0, <1>1, <1>3, <1>t, <2>3, AcceptTarget
    <2> QED
      BY <2>1, <2>2, <2>3
  <1> QED
    BY <1>2, <1>3, Zenon DEF SendDelete

(* What a success says about the machine, driver by driver. *)
LEMMA Observed ==
    ASSUME DriverInv, TargetInv, op.stage = "poll"
    PROVE  /\ ObserveOperation = "succeeded" =>
                /\ op.kind \in {"create", "start"} => Polled(cloud[op.ref]) = "running"
                /\ op.kind = "stop" => Polled(cloud[op.ref]) \in {"stopped", "suspended"}
                /\ op.kind = "delete" => Polled(cloud[op.ref]) \in Gone
                /\ cloud[op.ref] # "none"
           /\ ObserveOperation = "notfound" =>
                Polled(cloud[op.ref]) \in Gone /\ Polled(cloud[op.ref]) = cloud[op.ref]
  <1> DEFINE s == cloud[op.ref]
  <1>t. /\ driver \in {"aws", "gcp", "hetzner", "digitalocean", "docker", "fake"}
        /\ op.kind \in Kinds /\ op.ref \in Machines
    BY DEF DriverInv, TypeInv, Ops, RefKnown
  <1>d. /\ op.data \in {op.kind, "nil"}
        /\ isParkOp /\ driver # "fake" => op.data = op.kind
        /\ op.kind = "delete" /\ op.data = "nil" /\ driver # "fake" => s = "none"
        /\ driver \in {"hetzner", "digitalocean"} => ~isParkOp
    BY DEF TargetInv, DataInv
  <1>p. driver # "fake" => Polled(s) = s
    BY DEF Polled
  <1> USE DEF Kinds, isParkOp, Gone
  <1>1. CASE driver = "aws"
    BY <1>1, <1>t, <1>d, <1>p DEF ObserveOperation, AwsObserve
  <1>2. CASE driver = "gcp"
    BY <1>2, <1>t, <1>d, <1>p DEF ObserveOperation, GcpObserve, stopComplete
  <1>3. CASE driver = "hetzner"
    BY <1>3, <1>t, <1>d, <1>p DEF ObserveOperation, HetznerObserve
  <1>4. CASE driver = "digitalocean"
    BY <1>4, <1>t, <1>d, <1>p DEF ObserveOperation, DigitalOceanObserve
  <1>5. CASE driver = "docker"
    BY <1>5, <1>t, <1>d, <1>p DEF ObserveOperation, DockerObserve
  <1>6. CASE driver = "fake"
    <2>1. ObserveOperation = IF s = "none" THEN "notfound" ELSE "succeeded"
      BY <1>6 DEF ObserveOperation, FakeObserve
    <2>2. /\ op.kind = "create" => s \in {"none", "pending", "running"}
          /\ op.kind = "stop" => s \in {"stopping", "stopped"}
          /\ op.kind = "start" => s \in {"pending", "running"}
          /\ op.kind = "delete" => s \in {"deleting", "none"}
      BY <1>6, <1>t DEF TargetInv, FakeBase, FakeTarget
    <2>3. /\ s = "pending" => Polled(s) = "running"
          /\ s = "stopping" => Polled(s) = "stopped"
          /\ s = "deleting" => Polled(s) = "none"
          /\ s \notin {"pending", "stopping", "deleting"} => Polled(s) = s
      BY <1>6 DEF Polled, FakeStep
    <2> QED
      BY <1>t, <2>1, <2>2, <2>3
  <1> QED
    BY <1>t, <1>1, <1>2, <1>3, <1>4, <1>5, <1>6

(* How a poll ends. *)
LEMMA PollFacts ==
    ASSUME DriverInv, TargetInv, Poll
    PROVE  /\ op.stage = "poll" /\ driver' = driver /\ op.ref \in Machines
           /\ \A m \in Machines : cloud'[m] = IF m = op.ref THEN Polled(cloud[m]) ELSE cloud[m]
           /\ \/ ObserveOperation = "succeeded" /\ Succeed
              \/ ObserveOperation = "notfound" /\ op.kind = "delete" /\ Succeed
              \/ ObserveOperation = "notfound" /\ UNCHANGED cloud /\ Settles /\ op'.stage # "succeeded"
              \/ driver # "fake" /\ Settles /\ op'.stage # "succeeded"
  <1>t. op \in Ops /\ cloud \in [Machines -> States] /\ RefKnown
    BY DEF DriverInv, TypeInv
  <1>0. op.stage = "poll" /\ driver' = driver /\ cloud' = [cloud EXCEPT ![op.ref] = Polled(@)]
    BY Zenon DEF Poll
  <1>1. op.ref \in Machines
    BY <1>0, <1>t DEF RefKnown
  <1>2. \A m \in Machines : cloud'[m] = IF m = op.ref THEN Polled(cloud[m]) ELSE cloud[m]
    BY <1>0, <1>t
  <1>3. \/ ObserveOperation = "succeeded" /\ Succeed
        \/ ObserveOperation = "failed" /\ Fail
        \/ ObserveOperation = "notfound" /\ op.kind = "delete" /\ Succeed
        \/ ObserveOperation = "notfound" /\ (Fail \/ op' = [op EXCEPT !.stage = "verify"])
    BY DEF Poll
  <1>4. CASE ObserveOperation = "failed" /\ Fail
    <2>1. driver # "fake"
      BY <1>4 DEF ObserveOperation, FakeObserve
    <2>2. Settles /\ op'.stage # "succeeded"
      BY <1>t, <1>4, FailSettles DEF Fail, Ops
    <2> QED
      BY <1>0, <1>1, <1>2, <2>1, <2>2
  <1>5. CASE ObserveOperation = "notfound" /\ (Fail \/ op' = [op EXCEPT !.stage = "verify"])
    <2>1. Settles
      BY <1>t, <1>5, FailSettles, StageSettles
    <2>2. op'.stage # "succeeded"
      BY <1>t, <1>5 DEF Fail, Ops
    <2>3. UNCHANGED cloud
      BY <1>0, <1>t, <1>5, Observed
    <2> QED
      BY <1>0, <1>1, <1>2, <1>5, <2>1, <2>2, <2>3
  <1> QED
    BY <1>0, <1>1, <1>2, <1>3, <1>4, <1>5

(* Polling: success only on the driver's completion predicate.             *)
LEMMA PollTarget == DriverInv /\ TargetInv /\ Poll => TargetInv'
  <1> SUFFICES ASSUME DriverInv, TargetInv, Poll PROVE TargetInv'
    OBVIOUS
  <1>t. op \in Ops /\ op.kind \in Kinds
    BY DEF DriverInv, TypeInv, Ops
  <1>0. /\ op.stage = "poll" /\ driver' = driver /\ op.ref \in Machines
        /\ \A m \in Machines : cloud'[m] = IF m = op.ref THEN Polled(cloud[m]) ELSE cloud[m]
    BY PollFacts
  <1>1. CASE Succeed /\ (ObserveOperation = "succeeded" \/ (ObserveOperation = "notfound" /\ op.kind = "delete"))
    <2>1. op'.kind = op.kind /\ op'.ref = op.ref /\ op'.stage = "succeeded" /\ RowTable'
      BY <1>t, <1>1, SucceedRow
    <2>2. /\ op.kind \in {"create", "start"} => cloud'[op.ref] = "running"
          /\ op.kind = "stop" => cloud'[op.ref] \in {"stopped", "suspended"}
      BY <1>0, <1>1, Observed
    <2>3. DataInv'
      BY <1>0, <2>1 DEF TargetInv, DataInv, isParkOp
    <2>4. op.kind = "stop" /\ driver = "fake" => cloud'[op.ref] = "stopped"
      <3>1. op.kind = "stop" /\ driver = "fake" => cloud[op.ref] \in {"stopping", "stopped"}
        BY <1>0 DEF TargetInv, FakeTarget
      <3> QED
        BY <1>0, <3>1 DEF Polled, FakeStep
    <2>5. op.kind = "create" /\ driver = "fake" =>
            \A m \in Machines : cloud'[m] \in {"none", "pending", "running"}
      BY <1>0, <2>2 DEF TargetInv, FakeBase
    <2>6. FakeBase' /\ FakeTarget'
      BY <1>0, <2>1, <2>2, <2>4, <2>5 DEF FakeBase, FakeTarget
    <2> QED
      BY <2>1, <2>3, <2>6 DEF TargetInv
  <1>2. CASE Settles /\ (UNCHANGED cloud \/ driver # "fake")
    <2>1. FakeBase'
      <3>1. CASE driver # "fake"
        BY <1>0, <3>1 DEF FakeBase
      <3>2. CASE UNCHANGED cloud
        BY <1>0, <1>2, <3>2, FakeBaseKept DEF Settles
      <3> QED
        BY <1>2, <3>1, <3>2
    <2> QED
      BY <1>0, <1>2, <2>1, SettlesKeeps
  <1> QED
    BY <1>1, <1>2, PollFacts

(* Verification: adoption polls what was found, and a delete is verified   *)
(* by its absence.                                                         *)
LEMMA VerifyTarget == DriverInv /\ TargetInv /\ (VerifyCreate \/ VerifyDelete) => TargetInv'
  <1> SUFFICES ASSUME DriverInv, TargetInv, VerifyCreate \/ VerifyDelete PROVE TargetInv'
    OBVIOUS
  <1>t. op \in Ops /\ listed \subseteq Machines
    BY DEF DriverInv, TypeInv
  <1>0. driver' = driver /\ UNCHANGED cloud
    BY Zenon DEF VerifyCreate, VerifyDelete
  <1>1. \/ op.kind = "create" /\ \E m \in listed : Accept(m, "nil")
        \/ op' = [op EXCEPT !.stage = "journaled"]
        \/ op.kind = "delete" /\ Succeed
    BY Zenon DEF VerifyCreate, VerifyDelete
  <1>2. CASE op.kind = "create" /\ \E m \in listed : Accept(m, "nil")
    <2>1. PICK m \in Machines : Accept(m, "nil")
      BY <1>t, <1>2
    <2>2. driver = "fake" => \A n \in Machines : cloud'[n] \in {"none", "pending", "running"}
      BY <1>0, <1>2 DEF TargetInv, FakeBase
    <2>3. op.kind = "create" /\ ~isParkOp
      BY <1>2 DEF isParkOp
    <2> QED
      BY <1>t, <1>0, <2>1, <2>2, <2>3, AcceptTarget
  <1>3. CASE op' = [op EXCEPT !.stage = "journaled"] \/ (op.kind = "delete" /\ Succeed)
    <2>1. Settles
      BY <1>t, <1>3, StageSettles, SucceedRow DEF Settles
    <2>2. FakeBase'
      BY <1>0, <2>1, FakeBaseKept DEF Settles
    <2> QED
      BY <1>0, <2>1, <2>2, SettlesKeeps
  <1> QED
    BY <1>1, <1>2, <1>3

(* The cloud moves, or something that is not the operation does. *)
LEMMA CloudTarget ==
    ASSUME DriverInv, TargetInv,
           Progress \/ OutOfBand \/ PollRestart \/ OperationEnds \/ Listed \/ Unpark \/ UNCHANGED vars
    PROVE  TargetInv'
  <1>0. driver' = driver /\ op' = op
    BY Zenon DEF Progress, OutOfBand, PollRestart, OperationEnds, Listed, Unpark, vars
  <1>t. driver \in {"aws", "gcp", "hetzner", "digitalocean", "docker", "fake"} /\ cloud \in [Machines -> States]
    BY DEF DriverInv, TypeInv
  <1>1. driver = "fake" => UNCHANGED cloud
    <2>1. CASE PollRestart
      <3>1. ObserveOperation = "restart"
        BY <2>1, Zenon DEF PollRestart
      <3> QED
        BY <3>1 DEF ObserveOperation, FakeObserve
    <2> QED
      BY <2>1, Zenon DEF Progress, OutOfBand, OperationEnds, Listed, Unpark, vars
  <1>2. op.stage = "poll" /\ cloud[op.ref] = "none" => cloud'[op.ref] = "none"
    <2>1. CASE UNCHANGED cloud
      BY <2>1
    <2>2. CASE Progress \/ OutOfBand
      <3>1. \E m \in Machines, t \in States \cup {"none"} : cloud[m] # "none" /\ cloud' = [cloud EXCEPT ![m] = t]
        BY <2>2 DEF Progress, OutOfBand, States, Alive, Gone
      <3>2. op.stage = "poll" => op.ref \in Machines
        BY DEF DriverInv, RefKnown
      <3> QED
        BY <1>t, <3>1, <3>2
    <2>3. CASE PollRestart
      <3>1. ObserveOperation = "restart"
        BY <2>3, Zenon DEF PollRestart
      <3>2. cloud[op.ref] = "pending"
        BY <1>t, <3>1 DEF ObserveOperation, AwsObserve, GcpObserve, HetznerObserve, DigitalOceanObserve,
           DockerObserve, FakeObserve
      <3> QED
        BY <3>2
    <2> QED
      BY <2>1, <2>2, <2>3, Zenon DEF OperationEnds, Listed, Unpark, vars
  <1>3. DataInv'
    BY <1>0, <1>2 DEF TargetInv, DataInv, isParkOp
  <1>4. RowTable'
    BY <1>0 DEF TargetInv, RowTable
  <1>5. FakeBase' /\ FakeTarget'
    BY <1>0, <1>1 DEF TargetInv, FakeBase, FakeTarget
  <1> QED
    BY <1>3, <1>4, <1>5 DEF TargetInv

(* The next operation.                                                     *)
LEMMA JournalTarget == \A kind \in Kinds \ {"create"} : DriverInv /\ TargetInv /\ Journal(kind) => TargetInv'
  <1> SUFFICES ASSUME DriverInv, TargetInv, NEW kind \in Kinds \ {"create"}, Journal(kind) PROVE TargetInv'
    OBVIOUS
  <1>t. op \in Ops /\ op.kind \in Kinds /\ RefKnown
    BY DEF DriverInv, TypeInv, Ops
  <1>0. /\ op' = [op EXCEPT !.kind = kind, !.stage = "journaled", !.data = "nil"]
        /\ driver' = driver /\ UNCHANGED cloud /\ Settled
        /\ kind = "stop" => op.row = "ready" /\ Parkable
        /\ kind = "start" => op.row = "parked"
    BY Zenon DEF Journal
  <1>1. op'.kind = kind /\ op'.stage = "journaled" /\ op'.ref = op.ref
    BY <1>0, <1>t DEF Ops
  <1>2. kind = "stop" => \/ op.kind \in {"create", "start"} /\ op.stage = "succeeded"
                         \/ op.kind = "stop"
    BY <1>0, <1>t DEF TargetInv, RowTable, Settled, Kinds
  <1>3. kind = "start" => \/ op.kind = "stop" /\ op.stage = "succeeded"
                          \/ op.kind = "start"
    BY <1>0, <1>t DEF TargetInv, RowTable, Settled, Kinds
  <1>4. DataInv'
    <2>1. driver \in {"hetzner", "digitalocean"} => kind \notin {"stop", "start"}
      BY <1>0, <1>3 DEF TargetInv, DataInv, Parkable, isParkOp
    <2> QED
      BY <1>0, <1>1, <2>1 DEF DataInv, isParkOp
  <1>5. RowTable' /\ FakeTarget'
    BY <1>1 DEF RowTable, FakeTarget
  <1>6. FakeBase'
    <2>1. driver = "fake" /\ op.kind = "create" /\ op.stage = "succeeded" =>
            cloud[op.ref] \in {"pending", "running"}
      <3>1. op.kind = "create" /\ op.stage = "succeeded" => op.ref \in Machines
        BY <1>t DEF TargetInv, RowTable, RefKnown
      <3> QED
        BY <3>1 DEF TargetInv, FakeBase, FakeTarget
    <2> QED
      BY <1>0, <1>1, <1>2, <1>3, <2>1 DEF TargetInv, FakeBase, FakeTarget
  <1> QED
    BY <1>4, <1>5, <1>6 DEF TargetInv

(* The invariant is inductive, given the one above.                        *)
LEMMA NextTarget == DriverInv /\ TargetInv /\ [Next]_vars => TargetInv'
  BY ReadsTarget, RefusalTarget, CreateTarget, PowerTarget, DeleteTarget, PollTarget, VerifyTarget,
     CloudTarget, JournalTarget DEF Next

(***************************************************************************)
(* ObserveOperation reports a success only of a machine in the state the   *)
(* operation was for, on every driver, whatever Data has survived and      *)
(* whatever happened to the machine meanwhile.                             *)
(***************************************************************************)
THEOREM SuccessesAreOnTarget == Spec => SuccessIsOnTarget
  <1> DEFINE Target == [create |-> {"running"}, start |-> {"running"},
                        stop |-> {"stopped", "suspended"}, delete |-> Gone]
  <1>1. ASSUME DriverInv, TargetInv, [Next]_vars, op.stage = "poll", op'.stage = "succeeded"
        PROVE  cloud'[op.ref] \in Target[op.kind]
    <2>t. op \in Ops /\ op.kind \in Kinds
      BY <1>1 DEF DriverInv, TypeInv, Ops
    <2>1. Poll
      <3>1. CASE UNCHANGED op
        BY <1>1, <3>1
      <3>2. \/ OperationEnds \/ Listed \/ Unpark \/ PollRestart \/ Progress \/ OutOfBand \/ UNCHANGED vars
            => UNCHANGED op
        BY Zenon DEF OperationEnds, Listed, Unpark, PollRestart, Progress, OutOfBand, vars
      <3>3. \A kind \in Kinds \ {"create"} : ~Journal(kind)
        BY <1>1 DEF Journal, Settled
      <3>4. ~CreateRead /\ ~LookupFails /\ ~SendCreate /\ ~SendDelete /\ ~VerifyCreate /\ ~VerifyDelete
            /\ ~DeleteRead
        BY <1>1 DEF CreateRead, LookupFails, SendCreate, SendDelete, VerifyCreate, VerifyDelete, DeleteRead
      <3>5. ~StopStartRead /\ ~ReadFails /\ ~AcquireRefused /\ ~SendFails /\ ~SendStopStart /\ ~Rescue
        BY <1>1 DEF StopStartRead, ReadFails, AcquireRefused, SendFails, SendStopStart, Rescue
      <3> QED
        BY <1>1, <3>1, <3>2, <3>3, <3>4, <3>5, Zenon DEF Next
    <2>2. /\ op.ref \in Machines /\ cloud'[op.ref] = Polled(cloud[op.ref])
          /\ ObserveOperation = "succeeded" \/ (ObserveOperation = "notfound" /\ op.kind = "delete")
      BY <1>1, <2>1, PollFacts
    <2>3. /\ op.kind \in {"create", "start"} => cloud'[op.ref] = "running"
          /\ op.kind = "stop" => cloud'[op.ref] \in {"stopped", "suspended"}
          /\ op.kind = "delete" => cloud'[op.ref] \in Gone
      BY <1>1, <2>2, Observed
    <2> QED
      BY <2>t, <2>3 DEF Kinds
  <1>2. DriverInv /\ TargetInv /\ [Next]_vars =>
          [op.stage = "poll" /\ op'.stage = "succeeded" => cloud'[op.ref] \in Target[op.kind]]_vars
    BY <1>1, Zenon
  <1>3. Init => DriverInv /\ TargetInv
    BY InitDriver, InitTarget
  <1>4. DriverInv /\ TargetInv /\ [Next]_vars => (DriverInv /\ TargetInv)'
    BY NextDriver, NextTarget
  <1> QED
    BY <1>2, <1>3, <1>4, PTL DEF Spec, SuccessIsOnTarget
=============================================================================
