----------------------------- MODULE MCSessions -----------------------------
(***************************************************************************)
(* What goes on for long beside the coordinator's requests: a login        *)
(* session with its helper, an options data goal, the machine of a worker  *)
(* with its claim and its updates, and the agents of the health watch.  As *)
(* in MCMarketData, a behaviour moves one part.                            *)
(***************************************************************************)
EXTENDS LoginSessions

CONSTANTS
  Expirations, Symbols, Foreign, Batch, Concurrency, Listeners, Settings, MaxCopies,      \* Goals
  MaxTokens, MaxVersions, MaxBeats, MaxInstances,                                         \* WorkerNodes
  Errors, Conditions, Scans, MaxClock, RemindAfter, ClaimFor, KeepScans, MaxFilings,
  MaxScanLines                                                                            \* HealthWatch

VARIABLES
  part,
  setting, status, phase, found, terminal, actor, scanned, inFlight, disk, cache, cooling, ended,  \* Goals
  errors, answer,
  worker, beat, instances, command, version, node, deleting, cli,        \* WorkerNodes
  clock, present, log, stored, scan, tasks, history                      \* HealthWatch

goalVars == <<setting, status, phase, found, terminal, actor, scanned, inFlight, disk, cache, cooling, ended,
              errors, answer>>
nodeVars == <<worker, beat, instances, command, version, node, deleting, cli>>
watchVars == <<clock, present, log, stored, scan, tasks, history>>

Goal  == INSTANCE Goals
Nodes == INSTANCE WorkerNodes
Watch == INSTANCE HealthWatch WITH state <- stored

(* A provider that answers with two contracts, and one with a contract in  *)
(* the window whose downloads and scans may fail.                          *)
TwoSettings ==
  {[expOf |-> [s \in 1..2 |-> s], errors |-> 0],
   [expOf |-> [s \in 1..2 |-> IF s = 1 THEN 1 ELSE 0], errors |-> 1]}

ASSUME GoalAssumption  == Goal!ConstantsAssumption /\ Settings # {}
ASSUME NodesAssumption == Nodes!ConstantsAssumption
ASSUME WatchAssumption == Watch!ConstantsAssumption

AnySetting == CHOOSE s \in Settings : TRUE

NoGoal ==
  /\ setting = AnySetting /\ status = "deleted" /\ phase = "discovering" /\ found = {} /\ terminal = {}
  /\ actor = [a \in Goal!Actors |-> Goal!Idle] /\ scanned = {} /\ inFlight = [s \in Goal!Contracts |-> 0]
  /\ disk = {} /\ cache = {} /\ cooling = {} /\ ended = {} /\ errors = 0
  /\ answer = [s \in Goal!Contracts |-> "data"]

MCInit ==
  /\ part \in {"session", "goal", "node", "watch"} /\ Init /\ Nodes!Init /\ Watch!Init
  /\ IF part = "goal" THEN Goal!Init ELSE NoGoal

MCNext ==
  /\ UNCHANGED part
  /\ \/ part = "session" /\ Next       /\ UNCHANGED <<goalVars, nodeVars, watchVars>>
     \/ part = "goal"    /\ Goal!Next  /\ UNCHANGED <<vars, nodeVars, watchVars>>
     \/ part = "node"    /\ Nodes!Next /\ UNCHANGED <<vars, goalVars, watchVars>>
     \/ part = "watch"   /\ Watch!Next /\ UNCHANGED <<vars, goalVars, nodeVars>>

(* Nothing in the fairness of a part that does not move is enabled: no     *)
(* session has begun, or there is no goal.                                 *)
MCSpec == MCInit /\ [][MCNext]_<<part, vars, goalVars, nodeVars, watchVars>> /\ Fairness /\ Goal!Fairness

-----------------------------------------------------------------------------
(* The variables keep their types in every part. *)
MCTypeOK == TypeOK /\ Goal!TypeOK /\ Nodes!TypeOK /\ Watch!TypeOK

(* A session scrapes only after its helper and the browser are gone, and a *)
(* coordinator that has shut its sessions down leaves no helper behind.    *)
HelpersEnd == ScrapesAlone /\ ShutdownLeavesNoHelper

(* goal_processor.py:219-221: a completed goal has every contract on disk  *)
(* or answered as "no data".                                               *)
CompletedMeansCovered == Goal!CompletedMeansCovered

(* A worker that is claimed can fetch its packages, and one that runs has  *)
(* loaded what is on its disk.                                             *)
WorkersAreCurrent == Nodes!ClaimedCanFetch /\ Nodes!LoadedIsDisk

(* An error that was seen is kept until it is filed, a filing is offered to *)
(* one agent at a time, a prompt commit is taken whole, and an alert that  *)
(* stands was told.                                                        *)
HealthIsTold == /\ Watch!ErrorsAreKept /\ Watch!FiledOnce
                /\ Watch!PromptCommitTaken /\ Watch!AlertsWereTold

(* A goal that nobody pauses or deletes is completed, whatever the races   *)
(* between tick and listeners.                                             *)
GoalCompletes == Goal!GoalCompletes
=============================================================================
