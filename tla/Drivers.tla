------------------------------ MODULE Drivers ------------------------------
(***************************************************************************)
(* The provider drivers (src/providers/{aws,gcp,hetzner,digitalocean,      *)
(* docker,fake}) between the operation engine and a cloud.  A behaviour    *)
(* fixes one driver and follows one resource: its create and then stops,   *)
(* starts and a delete, each taken through Apply, ObserveOperation and     *)
(* Discover as the engine calls them.  A mutating call is a read (dedup by *)
(* label, or of the power state) and then the request, and the cloud, its  *)
(* list and other people move in between.                                  *)
(*                                                                         *)
(* Native states are merged into one vocabulary: "pending" is pending,     *)
(* PROVISIONING/STAGING, initializing/starting, new and a created          *)
(* container; "stopped" is stopped, TERMINATED, off and exited;            *)
(* "terminated" is the instance EC2 still shows after its end; "none" is a *)
(* 404.                                                                    *)
(***************************************************************************)
EXTENDS FiniteSets, Naturals

CONSTANTS Drivers,    \* the drivers a behaviour may be about
          Machines,   \* identities the cloud hands out
          NoRef,
          MaxFaults,  \* bound on faults and on other people's actions
          MaxOps      \* bound on the operations of the resource

ASSUME DriversKnown == Drivers \subseteq {"aws", "gcp", "hetzner", "digitalocean", "docker", "fake"}
ASSUME NoRefFresh == NoRef \notin Machines

VARIABLES driver,  \* the driver of this behaviour
          cloud,   \* state of each machine
          listed,  \* machines the list API shows
          op,      \* the resource's operation as the journal has it
          zop,     \* zonal operation (GCP) or action (Hetzner) that Data names
          parked,  \* the pacer is parked after a 429
          faults, ops

vars == <<driver, cloud, listed, op, zop, parked, faults, ops>>

Alive == {"pending", "running", "stopping", "stopped", "suspending", "suspended"}
Gone == {"terminated", "none"}
States == Alive \cup Gone \cup {"deleting"}

Kinds == {"create", "stop", "start", "delete"}

\* Data is nil or names the kind of the operation it was written for.
Ops == [kind : Kinds,
        stage : {"journaled", "send", "rescue", "poll", "verify", "succeeded", "failed"},
        ref : Machines \cup {NoRef},
        data : Kinds \cup {"nil"},
        garbled : BOOLEAN,  \* history: docker read effect none off a reply to an applied call
        row : {"creating", "ready", "parked", "failed", "deleted"}]

Settled == op.stage \in {"succeeded", "failed"}
Parkable == driver \notin {"hetzner", "digitalocean"}

---------------------------------------------------------------------------
(* Error mapping: what a reply of the cloud becomes for the engine.        *)

Err(class, effect) == [class |-> class, effect |-> effect]

AwsErr(reply, effectIfSent) ==
  [throttled   |-> Err("rate_limited", "none"),
   notfound    |-> Err("not_found", "none"),
   quota       |-> Err("quota", "none"),
   rejected    |-> Err("invalid", "none"),
   wrongstate  |-> Err("retryable", "none"),
   conflict    |-> Err("conflict", effectIfSent),
   unavailable |-> Err("retryable", effectIfSent)][reply]

\* A refused power call is a plain 400 on GCE.
GcpErr(reply, effectIfSent) ==
  [throttled   |-> Err("rate_limited", "none"),
   notfound    |-> Err("not_found", "none"),
   quota       |-> Err("quota", "none"),
   rejected    |-> Err("invalid", "none"),
   wrongstate  |-> Err("invalid", "none"),
   conflict    |-> Err("conflict", effectIfSent),
   unavailable |-> Err("retryable", effectIfSent)][reply]

HetznerErr(reply, effectIfSent) ==
  [throttled   |-> Err("rate_limited", "none"),
   notfound    |-> Err("not_found", "none"),
   quota       |-> Err("quota", "none"),
   rejected    |-> Err("invalid", "none"),
   conflict    |-> Err("conflict", effectIfSent),
   unavailable |-> Err("retryable", effectIfSent)][reply]

\* 422 is both a bad request and a reached limit.
DigitalOceanErr(reply, effectIfSent) ==
  [throttled   |-> Err("rate_limited", "none"),
   notfound    |-> Err("not_found", "none"),
   quota       |-> Err("invalid", "none"),
   rejected    |-> Err("invalid", "none"),
   conflict    |-> Err("conflict", effectIfSent),
   unavailable |-> Err("retryable", effectIfSent)][reply]

\* A 2xx whose body cannot be read or parsed is retryable with effect none,
\* although the container exists.
DockerErr(reply, effectIfSent) ==
  [throttled   |-> Err("retryable", effectIfSent),
   notfound    |-> Err("not_found", "none"),
   quota       |-> Err("invalid", "none"),
   rejected    |-> Err("invalid", "none"),
   conflict    |-> Err("conflict", effectIfSent),
   unavailable |-> Err("retryable", effectIfSent),
   garbled     |-> Err("retryable", "none")][reply]

\* Injected faults carry the class and the effect the cloud would justify.
FakeErr(reply, effectIfSent) ==
  [throttled   |-> Err("rate_limited", "none"),
   notfound    |-> Err("not_found", "none"),
   quota       |-> Err("quota", "none"),
   rejected    |-> Err("invalid", "none"),
   conflict    |-> Err("conflict", effectIfSent),
   unavailable |-> Err("retryable", effectIfSent)][reply]

mapErr(reply, effectIfSent) ==
  CASE driver = "aws"          -> AwsErr(reply, effectIfSent)
    [] driver = "gcp"          -> GcpErr(reply, effectIfSent)
    [] driver = "hetzner"      -> HetznerErr(reply, effectIfSent)
    [] driver = "digitalocean" -> DigitalOceanErr(reply, effectIfSent)
    [] driver = "docker"       -> DockerErr(reply, effectIfSent)
    [] driver = "fake"         -> FakeErr(reply, effectIfSent)

\* Replies that refuse a well-formed request before anything happens.
Refusals == {"throttled", "quota", "rejected"}

---------------------------------------------------------------------------
(* What the list API is asked for.                                         *)

\* Discover, for the engine's verification.  Terminated instances are no
\* result on EC2; the other clouds list whatever still exists.
AwsDiscover(s) == s \in Alive \cup {"deleting"}
OtherDiscover(s) == s \notin Gone
Discovered(m) == IF driver = "aws" THEN AwsDiscover(cloud[m]) ELSE OtherDiscover(cloud[m])

\* The dedup read of a create.  EC2 and GCE exclude what may be on its way
\* out; the fake looks at its own objects, not at its lagging list.
AwsDedup(m) == m \in listed /\ cloud[m] \in Alive
GcpFindByOp(m) == m \in listed /\ cloud[m] \in Alive \ {"stopped"}
DiscoverDedup(m) == m \in listed /\ cloud[m] \notin Gone
FakeDedup(m) == cloud[m] \notin Gone
DedupHits ==
  {m \in Machines : CASE driver = "aws"  -> AwsDedup(m)
                      [] driver = "gcp"  -> GcpFindByOp(m)
                      [] driver = "fake" -> FakeDedup(m)
                      [] OTHER           -> DiscoverDedup(m)}

\* Only docker writes Data when it returns the object of an earlier attempt.
DedupData == IF driver = "docker" THEN "create" ELSE "nil"

---------------------------------------------------------------------------
(* ObserveOperation: the answer for a machine in state s, given what Data  *)
(* says.  "unknown" and "running" only make the engine poll again.         *)

\* Mutant: the normalised phase, in which stopping counts as stopped.
AwsObserveByPhase(data, s) ==
  IF s = "none" THEN "notfound"
  ELSE IF s = "terminated" THEN IF data = "delete" THEN "succeeded" ELSE "notfound"
  ELSE IF data = "nil" THEN "unknown"
  ELSE IF data = "stop" /\ s \in {"stopping", "stopped"} THEN "succeeded"
  ELSE IF data \in {"create", "start"} /\ s = "running" THEN "succeeded"
  ELSE "running"

AwsObserve(data, s) ==
  IF s = "none" THEN "notfound"
  ELSE IF s = "terminated" THEN IF data = "delete" THEN "succeeded" ELSE "notfound"
  ELSE IF data = "nil" THEN "unknown"
  ELSE IF data = "stop" /\ s = "stopped" THEN "succeeded"
  ELSE IF data \in {"create", "start"} /\ s = "running" THEN "succeeded"
  ELSE "running"

stopComplete(s) == s \in {"stopped", "suspended"}
stopSettled(s) == s \in {"stopping", "suspending"} \/ stopComplete(s)
startSettled(s) == s \in {"running", "pending"}

\* Mutant: only the ordinary stopped status ends a stop.
GcpObserveTerminated(data, z, s) ==
  LET kind == IF data = "nil" THEN "create" ELSE data
  IN  IF z = "running" THEN "running"
      ELSE IF z = "error" THEN "failed"
      ELSE IF s = "none" THEN "notfound"
      ELSE IF kind \in {"create", "start"} /\ s = "running" THEN "succeeded"
      ELSE IF kind = "stop" /\ s = "stopped" THEN "succeeded"
      ELSE "running"

\* Data without a kind is read as a create's.
GcpObserve(data, z, s) ==
  LET kind == IF data = "nil" THEN "create" ELSE data
  IN  IF z = "running" THEN "running"
      ELSE IF z = "error" THEN "failed"
      ELSE IF s = "none" THEN "notfound"
      ELSE IF kind \in {"create", "start"} /\ s = "running" THEN "succeeded"
      ELSE IF kind = "stop" /\ stopComplete(s) THEN "succeeded"
      ELSE "running"

HetznerObserve(data, z, s) ==
  IF z = "running" THEN "running"
  ELSE IF z = "error" THEN "failed"
  ELSE IF s = "none" THEN "notfound"
  ELSE IF data # "delete" /\ s = "running" THEN "succeeded"
  ELSE "running"

DigitalOceanObserve(data, s) ==
  CASE s = "none" -> "notfound"
    [] data # "delete" /\ s = "running" -> "succeeded"
    [] OTHER      -> "running"

\* A container that is only created is started by the observation: "restart".
DockerObserve(data, s) ==
  CASE s = "none" -> "notfound"
    [] data = "stop" /\ s = "stopped" -> "succeeded"
    [] data \in {"create", "start", "nil"} /\ s = "running" -> "succeeded"
    [] data \in {"create", "start", "nil"} /\ s = "pending" -> "restart"
    [] data \in {"create", "nil"} /\ s = "stopped" -> "failed"
    [] OTHER      -> "running"

\* The fake's objects move when they are observed, and it does not look at
\* the kind of the operation.
FakeStep(s) == [pending |-> "running", stopping |-> "stopped", deleting |-> "none"][s]
FakeObserve(s) == IF s = "none" THEN "notfound" ELSE "succeeded"

ObserveOperation ==
  LET s == cloud[op.ref]
  IN  CASE driver = "aws"          -> AwsObserve(op.data, s)
        [] driver = "gcp"          -> GcpObserve(op.data, zop, s)
        [] driver = "hetzner"      -> HetznerObserve(op.data, zop, s)
        [] driver = "digitalocean" -> DigitalOceanObserve(op.data, s)
        [] driver = "docker"       -> DockerObserve(op.data, s)
        [] driver = "fake"         -> FakeObserve(s)

---------------------------------------------------------------------------
(* The engine's side: how an operation moves on.                           *)

Init ==
  /\ driver \in Drivers
  /\ cloud = [m \in Machines |-> "none"]
  /\ listed = {}
  /\ op = [kind |-> "create", stage |-> "journaled", ref |-> NoRef, data |-> "nil", row |-> "creating",
           garbled |-> FALSE]
  /\ zop = "none" /\ parked = FALSE /\ faults = 0 /\ ops = 1

Succeed ==
  op' = [op EXCEPT !.stage = "succeeded",
                   !.row = [create |-> "ready", start |-> "ready", stop |-> "parked", delete |-> "deleted"][op.kind]]

Fail ==
  op' = [op EXCEPT !.stage = "failed",
                   !.row = [create |-> "failed", start |-> "parked", stop |-> "ready", delete |-> "failed"][op.kind]]

Accept(ref, data) == op' = [op EXCEPT !.stage = "poll", !.ref = ref, !.data = data]

isParkOp == op.kind \in {"stop", "start"}

HandleApplyError(err) ==
  IF op.kind = "delete" /\ err.class = "not_found" THEN Succeed
  ELSE IF isParkOp /\ err.class = "not_found" THEN Fail
  ELSE IF err.class = "invalid" THEN Fail
  ELSE IF isParkOp \/ err.effect = "none" THEN op' = [op EXCEPT !.stage = "journaled"]
  ELSE op' = [op EXCEPT !.stage = "verify"]

Journal(kind) ==
  /\ ops < MaxOps /\ Settled
  /\ kind = "stop" => op.row = "ready" /\ Parkable
  /\ kind = "start" => op.row = "parked"
  /\ kind = "delete" => op.row \in {"ready", "parked", "failed"} /\ op.ref # NoRef
  /\ op' = [op EXCEPT !.kind = kind, !.stage = "journaled", !.data = "nil"]
  /\ zop' = "none"
  /\ ops' = ops + 1
  /\ UNCHANGED <<driver, cloud, listed, parked, faults>>

Fault == faults < MaxFaults /\ faults' = faults + 1

---------------------------------------------------------------------------
(* Apply, first half: the read.                                            *)

\* The pacer refuses every call while it is parked: rate_limited, effect none.
Acquire == ~parked

On429(reply) == parked' = (parked \/ (reply = "throttled" /\ driver \notin {"docker", "fake"}))

\* Hetzner and DigitalOcean count the calls that are left: the last one of
\* the period parks the pacer although it succeeded.
ObserveResp == parked' \in {parked} \cup IF driver \in {"hetzner", "digitalocean"} THEN {TRUE} ELSE {}

\* A hit answers with the machine of the earlier attempt; the lookup is best
\* effort and falls through when it fails, also when it was throttled, which
\* parks the pacer.
CreateRead ==
  /\ op.stage = "journaled" /\ op.kind = "create" /\ Acquire
  /\ \/ \E m \in DedupHits : Accept(m, DedupData) /\ UNCHANGED faults /\ ObserveResp
     \/ DedupHits = {} /\ op' = [op EXCEPT !.stage = "send"] /\ UNCHANGED faults /\ ObserveResp
     \/ /\ driver # "fake" /\ Fault /\ op' = [op EXCEPT !.stage = "send"]
        /\ \E reply \in {"throttled", "unavailable"} : On429(reply)
  /\ UNCHANGED <<driver, cloud, listed, zop, ops>>

GcpStopStartRead(s) ==
  IF IF op.kind = "stop" THEN stopSettled(s) ELSE startSettled(s)
  THEN Accept(op.ref, op.kind) ELSE op' = [op EXCEPT !.stage = "send"]

AwsStopStartRead(s) ==
  CASE s \in {"deleting", "terminated"} -> Fail
    [] s \in IF op.kind = "stop" THEN {"stopped", "stopping"} ELSE {"running", "pending"} -> Accept(op.ref, op.kind)
    [] OTHER -> op' = [op EXCEPT !.stage = "send"]

\* EC2 and GCE read the power state first; docker and the fake answer it in
\* the call itself.
StopStartRead ==
  LET s == cloud[op.ref]
  IN  /\ op.stage = "journaled" /\ isParkOp /\ Acquire
      /\ IF driver \in {"docker", "fake"} THEN op' = [op EXCEPT !.stage = "send"]
         ELSE IF s = "none" THEN Fail
         ELSE \/ driver = "aws" /\ AwsStopStartRead(s)
              \/ driver = "gcp" /\ GcpStopStartRead(s)
      /\ UNCHANGED <<driver, cloud, listed, zop, parked, faults, ops>>

\* Hetzner looks the server up before it deletes it.
DeleteRead ==
  /\ op.stage = "journaled" /\ op.kind = "delete" /\ Acquire
  /\ IF driver = "hetzner" /\ cloud[op.ref] = "none"
     THEN Accept(op.ref, "nil")
     ELSE op' = [op EXCEPT !.stage = "send"]
  /\ IF driver = "hetzner" THEN ObserveResp ELSE UNCHANGED parked
  /\ UNCHANGED <<driver, cloud, listed, zop, faults, ops>>

\* Image and server type lookups between the dedup read and the request; the
\* reply "notfound" is a selector that matches nothing.  That is a mistake in
\* the spec, and final, everywhere but on docker, where the 404 of the pull
\* stays one and is retried.
AwsImage(reply) == IF reply = "notfound" THEN Err("invalid", "none") ELSE AwsErr(reply, "none")
GcpImage(reply) ==
  LET mapped == GcpErr(reply, "none")
  IN  IF mapped.class = "not_found" THEN Err("invalid", "none") ELSE mapped
HetznerImage(reply) == IF reply = "notfound" THEN Err("invalid", "none") ELSE HetznerErr(reply, "none")
DigitalOceanImage(reply) == IF reply = "notfound" THEN Err("invalid", "none") ELSE DigitalOceanErr(reply, "none")
DockerImage(reply) == DockerErr(reply, "none")

Lookup(reply) ==
  CASE driver = "aws"          -> AwsImage(reply)
    [] driver = "gcp"          -> GcpImage(reply)
    [] driver = "hetzner"      -> HetznerImage(reply)
    [] driver = "digitalocean" -> DigitalOceanImage(reply)
    [] driver = "docker"       -> DockerImage(reply)
    [] driver = "fake"         -> FakeErr(reply, "none")

LookupFails ==
  /\ op.stage = "send" /\ op.kind = "create" /\ Acquire /\ Fault
  /\ \E reply \in {"throttled", "notfound", "rejected", "unavailable"} :
       HandleApplyError(Lookup(reply)) /\ On429(reply)
  /\ UNCHANGED <<driver, cloud, listed, zop, ops>>

\* The read of the power state, or of the server to delete, fails: nothing
\* has been sent.
ReadFails ==
  /\ op.stage = "journaled" /\ Acquire /\ Fault
  /\ \/ isParkOp /\ driver \in {"aws", "gcp"}
     \/ op.kind = "delete" /\ driver = "hetzner"
  /\ \E reply \in {"throttled", "rejected", "unavailable"} :
       HandleApplyError(mapErr(reply, "none")) /\ On429(reply)
  /\ UNCHANGED <<driver, cloud, listed, zop, ops>>

---------------------------------------------------------------------------
(* Apply, second half: the request and its reply.                          *)

\* Hetzner's delete keeps the permit of its read.
Permit == Acquire \/ (driver = "hetzner" /\ op.kind = "delete")

\* The pacer was parked between the read and the request.
AcquireRefused ==
  /\ op.stage = "send" /\ ~Permit
  /\ HandleApplyError(Err("rate_limited", "none"))
  /\ UNCHANGED <<driver, cloud, listed, zop, parked, faults, ops>>

Refused(reply) ==
  /\ IF driver = "gcp" /\ isParkOp /\ mapErr(reply, "maybe").class = "invalid"
     THEN op' = [op EXCEPT !.stage = "rescue"]
     ELSE HandleApplyError(mapErr(reply, "maybe"))
  /\ On429(reply)
  /\ UNCHANGED <<cloud, listed, zop>>

\* GCE and Hetzner answer a mutation with an operation to poll.
Tracked == zop' = IF driver \in {"gcp", "hetzner"} THEN "running" ELSE "none"

\* The reply comes back, or is lost after the effect.
Replied(ref, data) ==
  \/ Accept(ref, data) /\ Tracked /\ UNCHANGED faults
  \/ Fault /\ HandleApplyError(mapErr("unavailable", "maybe")) /\ UNCHANGED zop
  \/ /\ driver = "docker" /\ DockerErr("garbled", "maybe") = Err("retryable", "none")
     /\ Fault /\ op' = [op EXCEPT !.stage = "journaled", !.garbled = TRUE] /\ UNCHANGED zop

\* Mutant: containers are created without a name.
NativelyUniqueUnnamed == driver \notin {"digitalocean", "fake", "docker"}

\* EC2 answers a repeated client token with its instance; a taken name is a
\* conflict on GCE, Hetzner and docker; droplets are not unique.
NativelyUnique == driver \notin {"digitalocean", "fake"}

\* The request never arrives, or the cloud refuses one that fits: a token, a
\* name or a power state in the way is what it looks at first.
SendFails ==
  /\ op.stage = "send" /\ Permit /\ Fault
  /\ \/ Refused("unavailable")
     \/ /\ op.kind = "create" /\ NativelyUnique => \A m \in Machines : cloud[m] = "none"
        /\ isParkOp => cloud[op.ref] \in IF op.kind = "stop" THEN {"running", "pending"} ELSE {"stopped"}
        /\ \E reply \in Refusals : Refused(reply)
  /\ UNCHANGED <<driver, ops>>

CreateFresh ==
  /\ NativelyUnique => \A m \in Machines : cloud[m] = "none"
  /\ \E m \in Machines :
       /\ cloud[m] = "none"
       /\ \E s \in IF driver = "docker" THEN {"pending", "running"} ELSE {"pending"} :
            cloud' = [cloud EXCEPT ![m] = s]
       /\ listed' \in {listed \cup {m}} \cup IF driver = "docker" THEN {} ELSE {listed}
       /\ Replied(m, IF driver = "fake" THEN "nil" ELSE "create")
  /\ ObserveResp

CreateTaken ==
  \E m \in Machines :
    /\ NativelyUnique /\ cloud[m] # "none"
    /\ UNCHANGED faults
    /\ IF driver # "aws" THEN Refused("conflict")
       ELSE IF cloud[m] \in Alive
       THEN Accept(m, "create") /\ zop' = "none" /\ UNCHANGED <<cloud, listed, parked>>
       ELSE Refused("unavailable")

SendCreate ==
  /\ op.stage = "send" /\ op.kind = "create" /\ Permit
  /\ CreateFresh \/ CreateTaken
  /\ UNCHANGED <<driver, ops>>

\* What a power call does to a machine it fits.
PowerEffect ==
  IF op.kind = "stop" THEN IF driver = "docker" THEN "stopped" ELSE "stopping"
                      ELSE IF driver = "docker" THEN "running" ELSE "pending"

SendStopStart ==
  LET s == cloud[op.ref]
      suits == s \in IF op.kind = "stop" THEN {"running", "pending"} ELSE {"stopped"}
  IN  /\ op.stage = "send" /\ isParkOp /\ Permit
      /\ \/ /\ suits
            /\ cloud' = [cloud EXCEPT ![op.ref] = PowerEffect]
            /\ Replied(op.ref, IF driver = "fake" THEN "nil" ELSE op.kind)
            /\ UNCHANGED <<listed, parked>>
         \/ /\ ~suits /\ s \notin Gone /\ driver \in {"docker", "fake"}
            /\ Replied(op.ref, IF driver = "fake" THEN "nil" ELSE op.kind)
            /\ UNCHANGED <<cloud, listed, parked>>
         \/ ~suits /\ s \notin Gone /\ driver \in {"aws", "gcp"} /\ Refused("wrongstate") /\ UNCHANGED faults
         \/ s \in Gone /\ Refused("notfound") /\ UNCHANGED faults
      /\ UNCHANGED <<driver, ops>>

\* Mutant: the refusal stands.
RescueReadSkipped(s) == Fail

\* GCE refused the call: the instance may have reached the target on its own.
RescueRead(s) ==
  IF IF op.kind = "stop" THEN stopSettled(s) ELSE startSettled(s)
  THEN Accept(op.ref, op.kind) ELSE Fail

\* The re-read is best effort: when it fails the refusal stands.
Rescue ==
  /\ op.stage = "rescue"
  /\ \/ RescueRead(cloud[op.ref]) /\ UNCHANGED faults
     \/ Fault /\ Fail
  /\ UNCHANGED <<driver, cloud, listed, zop, parked, ops>>

\* What a delete does to a machine that is there.
DeleteEffect(s) ==
  IF s = "terminated" THEN {"terminated"}
  ELSE IF driver \in {"docker", "fake"} THEN {"deleting", "none"}
  ELSE {"deleting"}

\* A delete of what is gone is a success, on all but docker without Data;
\* Hetzner hands the 404 of the request to the engine.
DeleteOfDeleted ==
  CASE driver = "hetzner" -> HandleApplyError(mapErr("notfound", "maybe"))
    [] driver = "docker"  -> Accept(op.ref, "delete")
    [] OTHER              -> Accept(op.ref, "nil")

SendDelete ==
  LET s == cloud[op.ref]
  IN  /\ op.stage = "send" /\ op.kind = "delete" /\ Permit
      /\ \/ /\ s # "none"
            /\ \E t \in DeleteEffect(s) : cloud' = [cloud EXCEPT ![op.ref] = t]
            /\ Replied(op.ref, IF driver = "fake" THEN "nil" ELSE "delete")
            /\ listed' = {m \in listed : cloud'[m] # "none"}
            /\ ObserveResp
         \/ /\ s = "none" /\ DeleteOfDeleted
            /\ UNCHANGED <<cloud, listed, zop, parked, faults>>
      /\ UNCHANGED <<driver, ops>>

---------------------------------------------------------------------------
(* Polling and verification.                                               *)

\* The state a poll leaves the machine in: the fake moves its objects.
Polled(s) == IF driver = "fake" /\ s \in {"pending", "stopping", "deleting"} THEN FakeStep(s) ELSE s

Poll ==
  /\ op.stage = "poll" /\ Acquire
  /\ CASE ObserveOperation = "succeeded" -> Succeed
       [] ObserveOperation = "failed"    -> Fail
       [] ObserveOperation = "notfound"  ->
            IF op.kind = "delete" THEN Succeed
            ELSE IF isParkOp THEN Fail
            ELSE op' = [op EXCEPT !.stage = "verify"]
       [] OTHER -> FALSE
  /\ cloud' = [cloud EXCEPT ![op.ref] = Polled(@)]
  /\ listed' = {m \in listed : cloud'[m] # "none"}
  /\ ObserveResp
  /\ UNCHANGED <<driver, zop, faults, ops>>

\* docker issues the start again and keeps polling; a failure is ignored.
PollRestart ==
  /\ op.stage = "poll" /\ ObserveOperation = "restart"
  /\ cloud' = [cloud EXCEPT ![op.ref] = "running"]
  /\ UNCHANGED <<driver, listed, op, zop, parked, faults, ops>>

\* The window is long enough for lists to catch up before absence counts.
Caught == \A m \in Machines : cloud[m] # "none" => m \in listed

\* Mutant: one list without the machine is believed.
VerifyCreateOnce ==
  LET found == {m \in listed : Discovered(m)}
  IN  /\ op.stage = "verify" /\ op.kind = "create" /\ Acquire
      /\ \/ \E m \in found : Accept(m, "nil") /\ zop' = "none"
         \/ found = {} /\ op' = [op EXCEPT !.stage = "journaled"] /\ UNCHANGED zop
      /\ UNCHANGED <<driver, cloud, listed, parked, faults, ops>>

\* Adoption stores the reference only: Data is nil from here on.
VerifyCreate ==
  LET found == {m \in listed : Discovered(m)}
  IN  /\ op.stage = "verify" /\ op.kind = "create" /\ Acquire
      /\ \/ \E m \in found : Accept(m, "nil") /\ zop' = "none"
         \/ found = {} /\ Caught /\ op' = [op EXCEPT !.stage = "journaled"] /\ UNCHANGED zop
      /\ UNCHANGED <<driver, cloud, listed, parked, faults, ops>>

VerifyDelete ==
  /\ op.stage = "verify" /\ op.kind = "delete" /\ Acquire
  /\ IF cloud[op.ref] = "none" THEN Succeed ELSE op' = [op EXCEPT !.stage = "journaled"]
  /\ UNCHANGED <<driver, cloud, listed, zop, parked, faults, ops>>

---------------------------------------------------------------------------
(* The cloud and other people.                                             *)

\* A created container waits for its start and the fake for an observation.
Progress ==
  \E m \in Machines :
    /\ driver # "fake"
    /\ \/ cloud[m] = "pending" /\ driver # "docker" /\ cloud' = [cloud EXCEPT ![m] = "running"]
       \/ cloud[m] = "stopping" /\ cloud' = [cloud EXCEPT ![m] = "stopped"]
       \/ cloud[m] = "suspending" /\ cloud' = [cloud EXCEPT ![m] = "suspended"]
       \/ cloud[m] = "deleting" /\ cloud' = [cloud EXCEPT ![m] = IF driver = "aws" THEN "terminated" ELSE "none"]
       \/ cloud[m] = "terminated" /\ cloud' = [cloud EXCEPT ![m] = "none"]
    /\ listed' = {n \in listed : cloud'[n] # "none"}
    /\ UNCHANGED <<driver, op, zop, parked, faults, ops>>

\* The owner of the account switches or deletes the machine, or it dies.
OutOfBand ==
  /\ Fault /\ driver # "fake"
  /\ \E m \in Machines :
       \/ cloud[m] = "running" /\ cloud' = [cloud EXCEPT ![m] = IF driver = "docker" THEN "stopped" ELSE "stopping"]
       \/ cloud[m] = "running" /\ driver = "gcp" /\ cloud' = [cloud EXCEPT ![m] = "suspending"]
       \/ cloud[m] = "pending" /\ driver # "docker" /\ cloud' = [cloud EXCEPT ![m] = "stopped"]
       \/ cloud[m] = "stopped" /\ cloud' = [cloud EXCEPT ![m] = IF driver = "docker" THEN "running" ELSE "pending"]
       \/ cloud[m] \in Alive /\ cloud' = [cloud EXCEPT ![m] = "deleting"]
  /\ UNCHANGED <<driver, listed, op, zop, parked, ops>>

\* A zonal operation or action ends; afterwards it may expire, which reads
\* like its success.
OperationEnds ==
  /\ zop = "running"
  /\ \/ zop' = "done" /\ UNCHANGED faults
     \/ zop' = "error" /\ Fault
  /\ UNCHANGED <<driver, cloud, listed, op, parked, ops>>

Listed ==
  /\ \E m \in Machines : cloud[m] # "none" /\ m \notin listed /\ listed' = listed \cup {m}
  /\ UNCHANGED <<driver, cloud, op, zop, parked, faults, ops>>

\* The park is over: at most a minute after it began.
Unpark ==
  /\ parked /\ parked' = FALSE
  /\ UNCHANGED <<driver, cloud, listed, op, zop, faults, ops>>

Call == CreateRead \/ StopStartRead \/ DeleteRead \/ AcquireRefused \/ SendCreate \/ SendStopStart \/ SendDelete \/ Rescue
Observe == Poll \/ PollRestart \/ VerifyCreate \/ VerifyDelete

Next ==
  \/ \E kind \in Kinds \ {"create"} : Journal(kind)
  \/ CreateRead \/ LookupFails \/ StopStartRead \/ DeleteRead \/ ReadFails
  \/ AcquireRefused \/ SendFails \/ SendCreate \/ SendStopStart \/ SendDelete \/ Rescue
  \/ Poll \/ PollRestart \/ VerifyCreate \/ VerifyDelete
  \/ Progress \/ OutOfBand \/ OperationEnds \/ Listed \/ Unpark

Spec == Init /\ [][Next]_vars

FairSpec ==
  /\ Spec
  /\ WF_vars(Call) /\ WF_vars(Observe) /\ WF_vars(Progress)
  /\ WF_vars(OperationEnds) /\ WF_vars(Listed) /\ WF_vars(Unpark)

---------------------------------------------------------------------------
\* However replies are lost, garbled, refused or late, one create leaves at
\* most one machine alive: mapErr says "none" only where nothing was created
\* or where the next attempt meets the first one's label or name.
OneMachine == Cardinality({m \in Machines : cloud[m] \in Alive}) <= 1

\* A create that fails without a reference has left nothing behind: nobody
\* would look for a machine that no row names.  The exception is docker's
\* reply that cannot be read, which is retried as if nothing had been sent.
FailedCreateLeavesNothing ==
  op.kind = "create" /\ op.stage = "failed" /\ op.ref = NoRef /\ ~op.garbled =>
    \A m \in Machines : cloud[m] \notin Alive

\* ObserveOperation reports success only for a machine in the state the
\* operation was for, whatever Data has survived and whatever happened to the
\* machine meanwhile.
SuccessIsOnTarget ==
  [][op.stage = "poll" /\ op'.stage = "succeeded" =>
       cloud'[op.ref] \in [create |-> {"running"}, start |-> {"running"},
                           stop |-> {"stopped", "suspended"}, delete |-> Gone][op.kind]]_vars

\* A stop whose call is refused, so that the row goes back to ready, has left
\* a machine that is not stopped or being stopped: the read before the call
\* (EC2), the 304 (docker) and the re-read after a refusal (GCE, when it
\* answers) turn a lost reply or someone else's stop into a success.
FailedStopIsClean ==
  [][op.kind = "stop" /\ op'.stage = "failed"
     /\ (op.stage = "send" \/ (op.stage = "rescue" /\ faults' = faults)) =>
       cloud[op.ref] \notin {"stopping", "stopped", "suspending", "suspended"}]_vars

\* The machine has been switched against the operation.
Opposed ==
  cloud[op.ref] \in IF op.kind = "stop" THEN {"pending", "running"} ELSE {"stopping", "stopped", "suspending", "suspended"}

\* No accepted operation whose Data the driver can read is polled for ever,
\* unless someone keeps the machine switched the other way.
PollsEnd ==
  [](op.stage = "poll" /\ (driver = "aws" => op.data # "nil" \/ op.kind = "delete") =>
       <>(op.stage # "poll") \/ <>[](op.stage = "poll" /\ Opposed))

\* The same for the operations whose Data was lost, as the contract of
\* OperationRef has it: drivers "MUST tolerate Data == nil by degrading to
\* resource-status observation".
LostDataPollsEnd ==
  [](op.stage = "poll" /\ op.data = "nil" =>
       <>(op.stage # "poll") \/ <>[](op.stage = "poll" /\ Opposed))
=============================================================================
