------------------------------ MODULE WorkerNodes ------------------------------
(***************************************************************************)
(* A worker's row and the machine behind it: the install token, the        *)
(* install script, the claim, the update of the worker's code, its         *)
(* restarts, and `worker update` of the command line, which guesses from   *)
(* heartbeats whether the worker restarted.                                *)
(*                                                                         *)
(* The install script is not in the source's Python: what it calls is.     *)
(* Tokens and versions of the code are numbered.                           *)
(***************************************************************************)
EXTENDS Integers

CONSTANTS MaxTokens, MaxVersions, MaxBeats, MaxInstances

ConstantsAssumption == {MaxTokens, MaxVersions} \subseteq Nat \ {0} /\ {MaxBeats, MaxInstances} \subseteq Nat

VARIABLES
  worker,     \* [state, token, install, status] of the row
  beat,       \* last_heartbeat
  instances,  \* deployments assigned to the worker
  command,    \* the token in the command that was copied last; 0 for none
  version,    \* of the source tree that the coordinator packs
  node,       \* [stage, token, disk, loaded, stuck] of the machine; version 0 is a mixture
  deleting,   \* has delete_worker counted the instances?
  cli         \* [pc, old] of `worker update`

vars == <<worker, beat, instances, command, version, node, deleting, cli>>

Bare == [stage |-> "bare", token |-> 0, disk |-> 0, loaded |-> 0, stuck |-> FALSE]

Init ==
  /\ worker = [state |-> "none", token |-> 0, install |-> "pending", status |-> "offline"]
  /\ beat = 0 /\ instances = 0 /\ command = 0 /\ version = 1 /\ node = Bare
  /\ deleting = FALSE /\ cli = [pc |-> "idle", old |-> 0]

Row == worker.state = "row"

(* The coordinator is started from a newer source tree. *)
Release ==
  /\ version < MaxVersions /\ version' = version + 1
  /\ UNCHANGED <<worker, beat, instances, command, node, deleting, cli>>

-----------------------------------------------------------------------------
(* The routes *)

CreateWorker ==
  /\ worker.state = "none"
  /\ worker' = [state |-> "row", token |-> 1, install |-> "pending", status |-> "offline"]
  /\ UNCHANGED <<beat, instances, command, version, node, deleting, cli>>

(* Mutant: the worker stays claimed. *)
KeepsClaim == worker' = [worker EXCEPT !.token = @ + 1]
Regenerated == worker' = [worker EXCEPT !.token = @ + 1, !.install = "pending"]

RegenerateInstallToken ==
  /\ Row /\ worker.token < MaxTokens /\ Regenerated
  /\ UNCHANGED <<beat, instances, command, version, node, deleting, cli>>

WorkerInstallCommand ==
  /\ Row /\ command' = worker.token
  /\ UNCHANGED <<worker, beat, instances, version, node, deleting, cli>>

(* No await between: the row may get an instance after the count. *)
CreateInstance ==
  /\ Row /\ instances < MaxInstances /\ instances' = instances + 1
  /\ UNCHANGED <<worker, beat, command, version, node, deleting, cli>>

DeleteInstance ==
  /\ instances > 0 /\ instances' = instances - 1
  /\ UNCHANGED <<worker, beat, command, version, node, deleting, cli>>

CountInstances ==
  /\ Row /\ instances = 0 /\ deleting' = TRUE
  /\ UNCHANGED <<worker, beat, instances, command, version, node, cli>>

DeleteWorker ==
  /\ Row /\ deleting /\ deleting' = FALSE /\ worker' = [worker EXCEPT !.state = "deleted"]
  /\ UNCHANGED <<beat, instances, command, version, node, cli>>

-----------------------------------------------------------------------------
(* The machine.  A token is good as long as the row has it, claimed or not. *)

Authorised(token) == Row /\ token # 0 /\ worker.token = token

(* worker_install_package, asked by the script that was pasted. *)
Install ==
  /\ command # 0 /\ Authorised(command)
  /\ node' = [Bare EXCEPT !.stage = "running", !.token = command, !.disk = version, !.loaded = version]
  /\ UNCHANGED <<worker, beat, instances, command, version, deleting, cli>>

(* The claim may be lost: the script only warns. *)
ClaimWorker ==
  /\ node.stage # "bare" /\ Authorised(node.token) /\ worker.install = "pending"
  /\ worker' = [worker EXCEPT !.install = "claimed"]
  /\ UNCHANGED <<beat, instances, command, version, node, deleting, cli>>

Heartbeat ==
  /\ Row /\ node.stage = "running" /\ beat < MaxBeats
  /\ beat' = beat + 1 /\ worker' = [worker EXCEPT !.status = "online"]
  /\ UNCHANGED <<instances, command, version, node, deleting, cli>>

(* A closed connection, or a sweep of stale heartbeats. *)
GoesOffline ==
  /\ Row /\ worker.status = "online" /\ worker' = [worker EXCEPT !.status = "offline"]
  /\ UNCHANGED <<beat, instances, command, version, node, deleting, cli>>

(* systemd restarts it. *)
Dies ==
  /\ node.stage \in {"running", "updating", "exiting"} /\ node' = [node EXCEPT !.stage = "down"]
  /\ UNCHANGED <<worker, beat, instances, command, version, deleting, cli>>

Restarts ==
  /\ node.stage = "down" /\ node' = [node EXCEPT !.stage = "running", !.loaded = node.disk, !.stuck = FALSE]
  /\ UNCHANGED <<worker, beat, instances, command, version, deleting, cli>>

-----------------------------------------------------------------------------
(* _handle_update_worker: a pull, or else the coordinator's tarball, which  *)
(* needs the token.  An extraction that breaks off leaves a mixture.        *)

Fetched(node2) ==
  /\ node.stage = "updating" /\ node' = node2
  /\ UNCHANGED <<worker, beat, instances, command, version, deleting, cli>>

Updated == [node EXCEPT !.disk = version, !.stage = "exiting"]

GitPull        == Fetched(Updated)
TarballUpdate  == Authorised(node.token) /\ Fetched(Updated)
TarballBreaks  == Authorised(node.token) /\ Fetched([node EXCEPT !.stage = "running", !.disk = 0])
NothingUpdates == Fetched([node EXCEPT !.stage = "running"])

(* Mutant: the update is complete, and the process goes on. *)
GoesOn   == node' = [node EXCEPT !.stage = "running"]
ExitsNow == node' = [node EXCEPT !.stage = "down"]

Exit ==
  /\ node.stage = "exiting" /\ ExitsNow
  /\ UNCHANGED <<worker, beat, instances, command, version, deleting, cli>>

(* A pip that fails is ignored; one that takes over 120 s, or a report that *)
(* cannot be sent, ends the handler, and the old code goes on.              *)
StaysUp ==
  /\ node.stage = "exiting" /\ node' = [node EXCEPT !.stage = "running", !.stuck = TRUE]
  /\ UNCHANGED <<worker, beat, instances, command, version, deleting, cli>>

-----------------------------------------------------------------------------
(* `worker update`: POST /update, then the polls *)

SendUpdate ==
  /\ cli.pc = "idle" /\ Row /\ worker.status = "online" /\ node.stage = "running"
  /\ node' = [node EXCEPT !.stage = "updating"]
  /\ cli' = [pc |-> "polls", old |-> beat]
  /\ UNCHANGED <<worker, beat, instances, command, version, deleting>>

PollWorker ==
  /\ cli.pc \in {"polls", "offline"}
  /\ cli' = [cli EXCEPT !.pc = IF worker.status = "offline" THEN "offline"
                               ELSE IF cli.pc = "offline" \/ beat # cli.old THEN "complete" ELSE cli.pc]
  /\ UNCHANGED <<worker, beat, instances, command, version, node, deleting>>

PollsEnd ==
  /\ cli.pc \in {"polls", "offline", "complete"} /\ cli' = [cli EXCEPT !.pc = "idle"]
  /\ UNCHANGED <<worker, beat, instances, command, version, node, deleting>>

Next ==
  \/ Release \/ CreateWorker \/ RegenerateInstallToken \/ WorkerInstallCommand \/ CreateInstance
  \/ DeleteInstance \/ CountInstances \/ DeleteWorker \/ Install \/ ClaimWorker \/ Heartbeat
  \/ GoesOffline \/ Dies \/ Restarts \/ GitPull \/ TarballUpdate \/ TarballBreaks \/ NothingUpdates
  \/ Exit \/ StaysUp \/ SendUpdate \/ PollWorker \/ PollsEnd

Spec == Init /\ [][Next]_vars

-----------------------------------------------------------------------------
TypeOK ==
  /\ worker.token \in 0..MaxTokens /\ beat \in 0..MaxBeats /\ command \in 0..MaxTokens
  /\ node.stage \in {"bare", "running", "updating", "exiting", "down"}
  /\ {node.disk, node.loaded, version} \subseteq 0..MaxVersions

(* A claimed worker has a machine whose token is the row's: it can fetch    *)
(* the packages of algorithms.                                              *)
ClaimedCanFetch == Row /\ worker.install = "claimed" => Authorised(node.token)

(* A worker that runs, and is not updating, runs the code on its disk,      *)
(* unless that is a mixture, or the update ended before the exit.           *)
LoadedIsDisk == node.stage = "running" /\ node.disk # 0 /\ ~node.stuck => node.loaded = node.disk

=============================================================================
