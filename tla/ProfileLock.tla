----------------------------- MODULE ProfileLock -----------------------------
(***************************************************************************)
(* The lock on a scraper's browser profile (sdk/scraper_auth.py): a scrape *)
(* (sdk/scraper_runner.py) and a login (sdk/scraper_login.py) each hold it *)
(* in a process of their own while a browser runs on the profile; the      *)
(* coordinator probes it before it starts a login.  flock belongs to the   *)
(* kernel, and a process that is killed loses it; what it wrote into the   *)
(* file, and its browser, stay for a while.                                *)
(***************************************************************************)
EXTENDS Naturals, FiniteSets

CONSTANTS
  Processes,   \* each enters profile_lock once
  Nobody,      \* no record in the file
  Tries,       \* tries of a process before it gives up (the grace)
  MaxProbes    \* probes (a bound), fewer than Tries

ConstantsAssumption == MaxProbes \in Nat /\ Tries \in Nat /\ MaxProbes < Tries

VARIABLES
  pc,        \* "new", "try", "locked", "empty", "in", "leaving", "refused" or "gone"
  tries,     \* how often a process tried
  record,    \* the holder that the lock file names
  prober,    \* "idle", "shared" (it has the lock for reading) or "asking"
  probes,
  browser,   \* processes whose browser is on the profile
  failed,    \* history: processes that were killed or left their browser behind
  met,       \* history: the probes that stood in the way of a process
  blocked,   \* history: processes that met a holder
  during,    \* history: who held the lock since a process entered
  told       \* history: whom a process that was refused was told of

vars == <<pc, tries, record, prober, probes, browser, failed, met, blocked, during, told>>

Holding == {"locked", "empty", "in", "leaving"}
Holders == {p \in Processes : pc[p] \in Holding}

Init ==
  /\ pc = [p \in Processes |-> "new"] /\ tries = [p \in Processes |-> 0]
  /\ record = Nobody /\ prober = "idle" /\ probes = 0 /\ browser = {} /\ failed = {}
  /\ met = [p \in Processes |-> {}] /\ blocked = {} /\ during = [p \in Processes |-> {}]
  /\ told = [p \in Processes |-> Nobody]

Moves(p, from, to) == pc[p] = from /\ pc' = [pc EXCEPT ![p] = to]

-----------------------------------------------------------------------------
(* profile_lock *)

Enter(p) ==
  /\ Moves(p, "new", "try") /\ during' = [during EXCEPT ![p] = Holders]
  /\ UNCHANGED <<tries, record, prober, probes, browser, failed, met, blocked, told>>

(* Mutant: the first try decides. *)
NoGrace(p)     == TRUE
GraceIsOver(p) == tries[p] + 1 = Tries

(* A probe is two system calls, and is over before a process tries again. *)
TryFlock(p) ==
  /\ prober = "shared" => probes \notin met[p]
  /\ IF Holders = {} /\ prober # "shared"
     THEN /\ Moves(p, "try", "locked")
          /\ during' = [q \in Processes |-> IF pc[q] \in {"try", "refused"}
                                            THEN during[q] \cup {p} ELSE during[q]]
          /\ UNCHANGED <<tries, met, blocked>>
     ELSE /\ Moves(p, "try", IF GraceIsOver(p) THEN "refused" ELSE "try")
          /\ tries' = [tries EXCEPT ![p] = @ + 1]
          /\ IF Holders = {} THEN met' = [met EXCEPT ![p] = @ \cup {probes}] /\ UNCHANGED blocked
                             ELSE blocked' = blocked \cup {p} /\ UNCHANGED met
          /\ UNCHANGED during
  /\ UNCHANGED <<record, prober, probes, browser, failed, told>>

(* The file is cut before the record is written. *)
Truncate(p) ==
  /\ Moves(p, "locked", "empty") /\ record' = Nobody
  /\ UNCHANGED <<tries, prober, probes, browser, failed, met, blocked, during, told>>

WriteHolder(p) ==
  /\ Moves(p, "empty", "in") /\ record' = p
  /\ UNCHANGED <<tries, prober, probes, browser, failed, met, blocked, during, told>>

(* ProfileBusy; the file may have changed since the last try. *)
ReadHolder(p) ==
  /\ Moves(p, "refused", "gone") /\ told' = [told EXCEPT ![p] = record]
  /\ UNCHANGED <<tries, record, prober, probes, browser, failed, met, blocked, during>>

(* Mutant: the record stays when the block is left. *)
Left    == record
Cleared == Nobody

Leave(p) ==
  /\ Moves(p, "in", "leaving") /\ record' = Cleared
  /\ UNCHANGED <<tries, prober, probes, browser, met, blocked, during, told>>

Release(p) ==
  /\ Moves(p, "leaving", "gone")
  /\ UNCHANGED <<tries, record, prober, probes, browser, failed, met, blocked, during, told>>

-----------------------------------------------------------------------------
(* The blocks *)

Launch(p) ==
  /\ pc[p] = "in" /\ browser' = browser \cup {p}
  /\ UNCHANGED <<pc, tries, record, prober, probes, failed, met, blocked, during, told>>

CloseBrowser(p) ==
  /\ pc[p] = "in" /\ p \in browser /\ browser' = browser \ {p}
  /\ UNCHANGED <<pc, tries, record, prober, probes, failed, met, blocked, during, told>>

Completes(p) == p \notin browser /\ Leave(p) /\ UNCHANGED failed

(* A scrape raises and its on_stop is not called, or the browser of a login does *)
(* not close in time: it ends with the process, after the lock.                 *)
Abandons(p) == Leave(p) /\ failed' = failed \cup {p}

Kill(p) ==
  /\ pc[p] \notin {"new", "gone"}
  /\ pc' = [pc EXCEPT ![p] = "gone"] /\ failed' = failed \cup {p}
  /\ UNCHANGED <<tries, record, prober, probes, browser, met, blocked, during, told>>

BrowserEnds(p) ==
  /\ pc[p] = "gone" /\ p \in browser /\ browser' = browser \ {p}
  /\ UNCHANGED <<pc, tries, record, prober, probes, failed, met, blocked, during, told>>

-----------------------------------------------------------------------------
(* read_profile_holder, in the coordinator's event loop *)

Probe ==
  /\ prober = "idle" /\ probes < MaxProbes /\ probes' = probes + 1
  /\ prober' = IF Holders = {} THEN "shared" ELSE "asking"
  /\ UNCHANGED <<pc, tries, record, browser, failed, met, blocked, during, told>>

ProbeEnds ==
  /\ prober # "idle" /\ prober' = "idle"
  /\ UNCHANGED <<pc, tries, record, probes, browser, failed, met, blocked, during, told>>

Next ==
  \/ \E p \in Processes :
       \/ Enter(p) \/ TryFlock(p) \/ Truncate(p) \/ WriteHolder(p) \/ ReadHolder(p)
       \/ Release(p) \/ Launch(p) \/ CloseBrowser(p) \/ Completes(p) \/ Abandons(p)
       \/ Kill(p) \/ BrowserEnds(p)
  \/ Probe \/ ProbeEnds

-----------------------------------------------------------------------------
TypeOK ==
  /\ pc \in [Processes -> Holding \cup {"new", "try", "refused", "gone"}]
  /\ record \in Processes \cup {Nobody} /\ prober \in {"idle", "shared", "asking"}
  /\ probes \in 0..MaxProbes /\ \A p \in Processes : tries[p] \in 0..Tries

(* Two browsers are on the profile only when the process of one of them was   *)
(* killed or left it behind ("two Chromiums on one user-data-dir kill each    *)
(* other", scraper_auth.py:20).                                               *)
BrowsersExclude ==
  \A p, q \in browser : p # q => {p, q} \cap failed # {}

(* The file names a process that is inside, or one that was killed ("a stale  *)
(* holder never outlives its owner in the file", scraper_auth.py:369).        *)
RecordIsHolder == record # Nobody => pc[record] = "in" \/ record \in failed

(* A probe alone never refuses a process.                                     *)
RefusedByHolder == \A p \in Processes : pc[p] = "refused" => p \in blocked

(* Whom a process is told of held the lock while it tried, or was killed.     *)
ToldOfHolder ==
  \A p \in Processes : told[p] # Nobody => told[p] \in during[p] \cup failed

(* Not so: the browser of a process that was killed is gone with its lock.    *)
BrowserHasLock == \A p \in browser : pc[p] = "in"
=============================================================================
