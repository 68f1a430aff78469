----------------------------- MODULE CoordProcess -----------------------------
(***************************************************************************)
(* The coordinator as the command line starts and stops it                 *)
(* (sdk/cli/process.py, commands/coord.py): processes, the port that one   *)
(* of them serves, the file coord.pid, and commands that run at the same   *)
(* time.  A process that died stays a zombie until the command that        *)
(* started it ends, and is_alive says that it lives.                       *)
(***************************************************************************)
EXTENDS Naturals

CONSTANTS
  Commands,    \* commands; each may run again and again
  MaxSpawns    \* processes that are started (a bound)

ConstantsAssumption == MaxSpawns \in Nat \ {0}

Pids  == 1..MaxSpawns
NoPid == 0

VARIABLES
  proc,        \* "none", "booting", "serving", "ending" or "dead"
  children,    \* the processes that a command started
  pidFile,     \* coord.pid
  spawned,     \* how many processes were started
  pc,          \* of a command: "idle", "check", "spawn", "write", "wait", "stop", "term"
  pid,         \* the process it is about
  restarts,    \* commands that start a coordinator when they have stopped one
  said,        \* "", "already", "started", "failed", "stopped" or "not running"
  overlapped,  \* history: two commands ran at once
  untold,      \* history: a start gave up, a health check timed out, or --foreground
  served       \* history: a start that succeeded saw its own process serve

vars == <<proc, children, pidFile, spawned, pc, pid, restarts, said, overlapped, untold, served>>

Init ==
  /\ proc = [i \in Pids |-> "none"] /\ children = [c \in Commands |-> {}]
  /\ pidFile = NoPid /\ spawned = 0
  /\ pc = [c \in Commands |-> "idle"] /\ pid = [c \in Commands |-> NoPid]
  /\ restarts = {} /\ said = [c \in Commands |-> ""]
  /\ overlapped = FALSE /\ untold = FALSE /\ served = TRUE

Processes == <<proc, children, spawned>>
History   == <<overlapped, untold, served>>

-----------------------------------------------------------------------------
(* The processes.  uvicorn runs the whole startup before it binds the port,   *)
(* and closes the port at some time of the shutdown.                          *)

Living == {"booting", "serving", "ending"}
Serving == \E i \in Pids : proc[i] = "serving"
PortTaken == \E i \in Pids : proc[i] \in {"serving", "ending"}

Becomes(i, state) ==
  /\ proc' = [proc EXCEPT ![i] = state]
  /\ UNCHANGED <<children, spawned, pidFile, pc, pid, restarts, said, History>>

Binds(i) ==
  /\ proc[i] = "booting"
  /\ \/ ~Serving /\ Becomes(i, "serving")
     \/ PortTaken /\ Becomes(i, "dead")
Dies(i) == proc[i] \in Living /\ Becomes(i, "dead")

(* os.kill(pid, 0) *)
IsAlive(i) == proc[i] \in Living \/ \E c \in Commands : i \in children[c] /\ pc[c] # "idle"

-----------------------------------------------------------------------------
(* The commands *)

Moves(c, from, to) == pc[c] = from /\ pc' = [pc EXCEPT ![c] = to]
Ends(c, words)     == pc' = [pc EXCEPT ![c] = "idle"] /\ said' = [said EXCEPT ![c] = words]

Runs(c, to, again) ==
  /\ Moves(c, "idle", to)
  /\ restarts' = IF again THEN restarts \cup {c} ELSE restarts \ {c}
  /\ said' = [said EXCEPT ![c] = ""] /\ pid' = [pid EXCEPT ![c] = NoPid]
  /\ overlapped' = (overlapped \/ \E d \in Commands \ {c} : pc[d] # "idle")
  /\ children' = [children EXCEPT ![c] = {}]
  /\ UNCHANGED <<proc, spawned, pidFile, untold, served>>

CoordStart(c)   == Runs(c, "check", FALSE)
CoordStop(c)    == Runs(c, "stop", FALSE)
CoordRestart(c) == Runs(c, "stop", TRUE)

(* --foreground: the command becomes the coordinator, and writes no file. *)
Foreground ==
  /\ spawned < MaxSpawns /\ spawned' = spawned + 1
  /\ proc' = [proc EXCEPT ![spawned'] = "booting"] /\ untold' = TRUE
  /\ UNCHANGED <<children, pidFile, pc, pid, restarts, said, overlapped, served>>

(* A coordinator that is slow to answer is taken for none. *)
CheckExisting(c) ==
  /\ pc[c] = "check"
  /\ \/ /\ pidFile # NoPid /\ IsAlive(pidFile) /\ Serving
        /\ Ends(c, "already") /\ UNCHANGED untold
     \/ /\ ~(pidFile # NoPid /\ IsAlive(pidFile) /\ Serving)
        /\ pc' = [pc EXCEPT ![c] = "spawn"] /\ UNCHANGED <<said, untold>>
     \/ /\ Serving /\ pc' = [pc EXCEPT ![c] = "spawn"] /\ untold' = TRUE /\ UNCHANGED said
  /\ UNCHANGED <<Processes, pidFile, pid, restarts, overlapped, served>>

Spawn(c) ==
  /\ spawned < MaxSpawns /\ spawned' = spawned + 1
  /\ Moves(c, "spawn", "write") /\ pid' = [pid EXCEPT ![c] = spawned']
  /\ proc' = [proc EXCEPT ![spawned'] = "booting"]
  /\ children' = [children EXCEPT ![c] = @ \cup {spawned'}]
  /\ UNCHANGED <<pidFile, restarts, said, History>>

WritePid(c) ==
  /\ Moves(c, "write", "wait") /\ pidFile' = pid[c]
  /\ UNCHANGED <<Processes, pid, restarts, said, History>>

(* Whoever serves the port answers the health check. *)
Healthy(c) ==
  /\ pc[c] = "wait" /\ Serving /\ Ends(c, "started")
  /\ served' = (served /\ proc[pid[c]] = "serving")
  /\ UNCHANGED <<Processes, pidFile, pid, restarts, overlapped, untold>>

Term(i) == proc' = [proc EXCEPT ![i] = IF @ \in Living THEN "ending" ELSE @]

StartGivesUp(c) ==
  /\ pc[c] = "wait" /\ Term(pid[c])
  /\ pidFile' = NoPid /\ Ends(c, "failed") /\ untold' = TRUE
  /\ UNCHANGED <<children, spawned, pid, restarts, overlapped, served>>

(* stop_process has returned; restart goes on to start. *)
Stopped(c, words) ==
  IF c \in restarts THEN pc' = [pc EXCEPT ![c] = "check"] /\ UNCHANGED said ELSE Ends(c, words)

ReadPid(c) ==
  /\ pc[c] = "stop" /\ pid' = [pid EXCEPT ![c] = pidFile]
  /\ IF pidFile # NoPid /\ IsAlive(pidFile)
     THEN /\ pc' = [pc EXCEPT ![c] = "term"] /\ Term(pidFile) /\ UNCHANGED <<pidFile, said>>
     ELSE pidFile' = NoPid /\ Stopped(c, "not running") /\ UNCHANGED proc
  /\ UNCHANGED <<children, spawned, restarts, History>>

(* Mutant: the stop does not wait for the end of the process. *)
NotAwaited(c) == TRUE
HasEnded(c)   == ~IsAlive(pid[c])

StopSeesEnd(c) ==
  /\ pc[c] = "term" /\ HasEnded(c)
  /\ pidFile' = NoPid /\ Stopped(c, "stopped")
  /\ UNCHANGED <<Processes, pid, restarts, History>>

(* SIGKILL after 30 seconds. *)
StopKills(c) ==
  /\ pc[c] = "term" /\ proc' = [proc EXCEPT ![pid[c]] = "dead"]
  /\ pidFile' = NoPid /\ Stopped(c, "stopped")
  /\ UNCHANGED <<children, spawned, pid, restarts, History>>

Next ==
  \/ Foreground
  \/ \E i \in Pids : Binds(i) \/ Dies(i)
  \/ \E c \in Commands :
       \/ CoordStart(c) \/ CoordStop(c) \/ CoordRestart(c) \/ CheckExisting(c) \/ Spawn(c)
       \/ WritePid(c) \/ Healthy(c) \/ StartGivesUp(c) \/ ReadPid(c) \/ StopSeesEnd(c)
       \/ StopKills(c)

-----------------------------------------------------------------------------
TypeOK ==
  /\ proc \in [Pids -> Living \cup {"none", "dead"}] /\ pidFile \in Pids \cup {NoPid}
  /\ pid \in [Commands -> Pids \cup {NoPid}] /\ spawned \in 0..MaxSpawns
  /\ children \in [Commands -> SUBSET Pids]

(* Between commands that never overlapped, none of which gave up or ran in    *)
(* the foreground, the file names the process that serves, and none other     *)
(* lives.                                                                     *)
Alone == ~overlapped /\ ~untold /\ \A c \in Commands : pc[c] = "idle"

FileNamesServer == Alone => \A i \in Pids : proc[i] \in Living => pidFile = i

(* A stop that says that it stopped a coordinator leaves it dead.             *)
StoppedIsDead ==
  \A c \in Commands : said[c] = "stopped" => proc[pid[c]] = "dead"

(* A start that says that it started one saw its own serve, unless commands   *)
(* overlapped or an untracked one had the port.                               *)
StartedServes == overlapped \/ untold \/ served

(* Not so: one coordinator at most runs its startup on the database; a start  *)
(* that succeeds always saw its own process serve.                            *)
OneStartup  == \A i, j \in Pids : proc[i] \in Living /\ proc[j] \in Living => i = j
StartIsTrue == served
=============================================================================
