------------------------------- MODULE Accounts -------------------------------
(***************************************************************************)
(* One brokerage account in the coordinator: its row, the initial backfill *)
(* of its position ledger and equity curve, the syncs that copy the        *)
(* broker's transactions, the row of each day's close, and its deletion.   *)
(*                                                                         *)
(* Trades and cash flows are one table.  A timestamp is the position of an *)
(* event in the order of events; days are trading days.  A first sync that *)
(* looks 30 days back sees everything.                                     *)
(***************************************************************************)
EXTENDS Integers, Sequences, TLC

CONSTANTS
  MaxEvents,        \* broker transactions and manual trades
  Days,             \* the calendar is 1..Days
  Syncers,          \* periodic_sync, and POST /sync
  Backfills,        \* calls of initial_backfill
  DailyClose,       \* does daily_close run?
  MayDeleteDownload \* may the backfill's own download be deleted while it waits?

ConstantsAssumption ==
  MaxEvents \in Nat /\ Days \in Nat \ {0} /\ {DailyClose, MayDeleteDownload} \subseteq BOOLEAN

VARIABLES
  account,     \* "none", "flushed" (added, not committed), "row" or "deleted"
  day,         \* today
  dateOf,      \* the day of each event so far: its length is the last timestamp
  posted,      \* the broker transactions that the broker shows
  late,        \* history: those it showed after a later one
  manual,      \* timestamps of the TradeLog rows that open_position wrote
  synced,      \* how many rows syncs wrote for a transaction
  sync,        \* [pc, since, seen, got, known] of each syncer
  overlapped,  \* history: did a sync commit while another had read the known ids?
  backfill,    \* [pc, first, end] of each backfill
  download,    \* the running backfill's download: "none", "active", "ended" or "deleted"
  equity,      \* account_equity_daily: "none", "estimate" or "close" for a day
  covered,     \* history: the range of the backfill that wrote last
  close        \* daily_close: [pc, day, existing]

brokerVars   == <<dateOf, posted, late>>
syncVars     == <<synced, sync, overlapped>>
backfillVars == <<backfill, download, covered>>
vars == <<account, day, manual, equity, close, brokerVars, syncVars, backfillVars>>

Times   == 1..MaxEvents
Now     == Len(dateOf)
NoSync  == [pc |-> "idle", since |-> 0, seen |-> {}, got |-> {}, known |-> {}]
NoRange == [first |-> 1, end |-> 0]
Closing == [pc : {"idle", "ask", "read", "write"}, day : 0..Days, existing : BOOLEAN]

Init ==
  /\ account = "none" /\ day = 1 /\ dateOf = <<>> /\ posted = {} /\ late = {} /\ manual = {}
  /\ synced = [t \in Times |-> 0]
  /\ sync = [s \in Syncers |-> NoSync] /\ overlapped = FALSE
  /\ backfill = [b \in Backfills |-> [pc |-> "none"] @@ NoRange]
  /\ download = "none" /\ covered = NoRange
  /\ equity = [d \in 1..Days |-> "none"]
  /\ close = [pc |-> "idle", day |-> 0, existing |-> FALSE]

-----------------------------------------------------------------------------
(* The world: days pass, the broker records events and shows them, perhaps  *)
(* late.                                                                    *)

NextDay ==
  /\ day < Days /\ day' = day + 1
  /\ UNCHANGED <<account, manual, equity, close, brokerVars, syncVars, backfillVars>>

Happens ==
  /\ Now < MaxEvents /\ dateOf' = Append(dateOf, day)
  /\ UNCHANGED <<account, day, manual, posted, late, equity, close, syncVars, backfillVars>>

(* Dividends carry a date without a time and come after the day's fills. *)
Post(t) ==
  /\ t <= Now /\ t \notin posted \cup manual
  /\ posted' = posted \cup {t}
  /\ late' = IF \E u \in posted : u > t THEN late \cup {t} ELSE late
  /\ UNCHANGED <<account, day, dateOf, manual, equity, close, syncVars, backfillVars>>

-----------------------------------------------------------------------------
(* The account's row *)

(* The backfill's task, where the service runs, is created before the       *)
(* request commits.                                                         *)
CreateAccount ==
  /\ account = "none" /\ account' = "flushed"
  /\ \/ \E b \in Backfills : backfill' = [backfill EXCEPT ![b].pc = "wait"]
     \/ Backfills = {} /\ UNCHANGED backfill
  /\ UNCHANGED <<day, manual, equity, close, download, covered, brokerVars, syncVars>>

CreateCommits ==
  /\ account = "flushed" /\ account' = "row"
  /\ UNCHANGED <<day, manual, equity, close, brokerVars, syncVars, backfillVars>>

(* Ledger and equity rows stay, and so does a backfill that runs. *)
DeleteAccount ==
  /\ account = "row" /\ account' = "deleted"
  /\ synced' = [t \in Times |-> 0] /\ manual' = {}
  /\ UNCHANGED <<day, equity, close, sync, overlapped, brokerVars, backfillVars>>

(* open_position logs its trade under the time of the coordinator. *)
ManualTrade ==
  /\ account = "row" /\ Now < MaxEvents
  /\ dateOf' = Append(dateOf, day) /\ manual' = manual \cup {Now + 1}
  /\ UNCHANGED <<account, day, posted, late, equity, close, syncVars, backfillVars>>

-----------------------------------------------------------------------------
(* sync_account and _sync_one *)

Recorded == manual \cup {t \in Times : synced[t] > 0}
LatestOf(T) == IF T = {} THEN 0 ELSE CHOOSE t \in T : \A u \in T : u <= t

SyncStart(s) ==
  /\ account = "row" /\ sync[s].pc = "idle"
  /\ sync' = [sync EXCEPT ![s].pc = "fetch", ![s].since = LatestOf(Recorded)]
  /\ UNCHANGED <<account, day, manual, equity, close, synced, overlapped, brokerVars, backfillVars>>

SyncFetch(s) ==
  /\ sync[s].pc = "fetch"
  /\ \/ sync' = [sync EXCEPT ![s].pc = "read", ![s].seen = posted,
                             ![s].got = {t \in posted : t >= sync[s].since}]
     \/ sync' = [sync EXCEPT ![s] = NoSync]            \* the broker's API failed
  /\ UNCHANGED <<account, day, manual, equity, close, synced, overlapped, brokerVars, backfillVars>>

SyncRead(s) ==
  /\ sync[s].pc = "read"
  /\ sync' = [sync EXCEPT ![s].pc = "write", ![s].known = {t \in Times : synced[t] > 0}]
  /\ UNCHANGED <<account, day, manual, equity, close, synced, overlapped, brokerVars, backfillVars>>

(* Mutant: everything the broker returned is inserted. *)
AllFetched(s) == sync[s].got
Fresh(s)      == sync[s].got \ sync[s].known

SyncWrite(s) ==
  /\ sync[s].pc = "write"
  /\ synced' = [t \in Times |-> synced[t] + (IF t \in Fresh(s) THEN 1 ELSE 0)]
  /\ sync' = [sync EXCEPT ![s].pc = "done", ![s].known = {}]
  /\ overlapped' = (overlapped \/ \E o \in Syncers \ {s} : sync[o].pc = "write")
  /\ UNCHANGED <<account, day, manual, equity, close, brokerVars, backfillVars>>

SyncAgain(s) ==
  /\ sync[s].pc = "done" /\ sync' = [sync EXCEPT ![s] = NoSync]
  /\ UNCHANGED <<account, day, manual, equity, close, synced, overlapped, brokerVars, backfillVars>>

-----------------------------------------------------------------------------
(* initial_backfill: one at a time, behind _backfill_lock *)

At(b, pc)   == backfill[b].pc = pc
Goto(b, pc) == backfill' = [backfill EXCEPT ![b].pc = pc]
LockFree    == \A b \in Backfills : backfill[b].pc \in {"none", "wait", "done"}

(* POST /backfill, and the end of POST /sync *)
Dispatch(b) ==
  /\ account = "row" /\ At(b, "none") /\ Goto(b, "wait")
  /\ UNCHANGED <<account, day, manual, equity, close, download, covered, brokerVars, syncVars>>

(* A row that is not committed yet is not found. *)
BackfillLoad(b) ==
  /\ At(b, "wait") /\ LockFree
  /\ Goto(b, IF account = "row" THEN "fetch" ELSE "done")
  /\ UNCHANGED <<account, day, manual, equity, close, download, covered, brokerVars, syncVars>>

FirstDay == dateOf[CHOOSE t \in posted : \A u \in posted : t <= u]

(* Trading days from the first transaction to yesterday. *)
BackfillFetch(b) ==
  /\ At(b, "fetch")
  /\ \/ /\ posted # {} /\ \E wanted \in {"none", "active"} : download' = wanted
        /\ backfill' = [backfill EXCEPT ![b] = [pc |-> "prices", first |-> FirstDay, end |-> day - 1]]
     \/ Goto(b, "done") /\ UNCHANGED download          \* nothing there, or the API failed
  /\ UNCHANGED <<account, day, manual, equity, close, covered, brokerVars, syncVars>>

DownloadEnds ==
  /\ download = "active" /\ download' = "ended"
  /\ UNCHANGED <<account, day, manual, equity, close, backfill, covered, brokerVars, syncVars>>

DownloadDeleted ==
  /\ MayDeleteDownload /\ download = "active" /\ download' = "deleted"
  /\ UNCHANGED <<account, day, manual, equity, close, backfill, covered, brokerVars, syncVars>>

(* _fetch_prices_inline polls until it reads a terminal status. *)
PricesLoaded(b) ==
  /\ At(b, "prices") /\ download \in {"none", "ended"}
  /\ Goto(b, "write") /\ download' = "none"
  /\ UNCHANGED <<account, day, manual, equity, close, covered, brokerVars, syncVars>>

(* Mutant: rows only for the days that had a transaction. *)
DaysTraded(b) == {d \in backfill[b].first..backfill[b].end : \E t \in posted : dateOf[t] = d}
DaysFilled(b) == backfill[b].first..backfill[b].end

(* All rows of the account are deleted and written in one transaction. *)
BackfillWrite(b) ==
  /\ At(b, "write") /\ Goto(b, "done")
  /\ equity' = [d \in 1..Days |-> IF d \in DaysFilled(b) THEN "estimate" ELSE "none"]
  /\ covered' = [first |-> backfill[b].first, end |-> backfill[b].end]
  /\ UNCHANGED <<account, day, manual, close, download, brokerVars, syncVars>>

-----------------------------------------------------------------------------
(* daily_close *)

CloseStart ==
  /\ DailyClose /\ close.pc = "idle" /\ account = "row"
  /\ close' = [pc |-> "ask", day |-> day, existing |-> FALSE]
  /\ UNCHANGED <<account, day, manual, equity, brokerVars, syncVars, backfillVars>>

CloseAsk ==
  /\ close.pc = "ask"
  /\ \E pc \in {"read", "idle"} : close' = [close EXCEPT !.pc = pc]
  /\ UNCHANGED <<account, day, manual, equity, brokerVars, syncVars, backfillVars>>

CloseRead ==
  /\ close.pc = "read"
  /\ close' = [close EXCEPT !.pc = "write", !.existing = equity[close.day] # "none"]
  /\ UNCHANGED <<account, day, manual, equity, brokerVars, syncVars, backfillVars>>

(* An update of a row that is gone, or a second insert, raises. *)
CloseWrite ==
  /\ close.pc = "write" /\ close' = [close EXCEPT !.pc = "idle"]
  /\ equity' = IF close.existing = (equity[close.day] # "none")
               THEN [equity EXCEPT ![close.day] = "close"] ELSE equity
  /\ UNCHANGED <<account, day, manual, brokerVars, syncVars, backfillVars>>

-----------------------------------------------------------------------------
Next ==
  \/ NextDay \/ Happens \/ CreateAccount \/ CreateCommits \/ DeleteAccount \/ ManualTrade
  \/ DownloadEnds \/ DownloadDeleted \/ CloseStart \/ CloseAsk \/ CloseRead \/ CloseWrite
  \/ \E t \in Times : Post(t)
  \/ \E s \in Syncers : SyncStart(s) \/ SyncFetch(s) \/ SyncRead(s) \/ SyncWrite(s) \/ SyncAgain(s)
  \/ \E b \in Backfills : \/ Dispatch(b) \/ BackfillLoad(b) \/ BackfillFetch(b)
                          \/ PricesLoaded(b) \/ BackfillWrite(b)

Spec == Init /\ [][Next]_vars

-----------------------------------------------------------------------------
TypeOK ==
  /\ account \in {"none", "flushed", "row", "deleted"} /\ day \in 1..Days
  /\ dateOf \in Seq(1..Days) /\ posted \cup manual \cup late \subseteq 1..Now
  /\ synced \in [Times -> Nat]
  /\ \A b \in Backfills : backfill[b].pc \in {"none", "wait", "fetch", "prices", "write", "done"}
  /\ download \in {"none", "active", "ended", "deleted"}
  /\ equity \in [1..Days -> {"none", "estimate", "close"}] /\ close \in Closing

(* A transaction has two rows only if two syncs overlapped between reading  *)
(* the known ids and committing; and a sync that ended has rows for all it  *)
(* could see, unless a manual trade or a later transaction overtook them.   *)
SyncedOnce ==
  /\ \A t \in Times : synced[t] > 1 => overlapped
  /\ \A s \in Syncers : sync[s].pc = "done" /\ account = "row" =>
       \A t \in sync[s].seen : synced[t] > 0 \/ t \in late \/ \E m \in manual : m > t

(* The equity curve has no hole in the range of the last backfill, whatever *)
(* backfills, closes and a midnight come between.                           *)
CurveIsWhole == \A d \in covered.first..covered.end : equity[d] # "none"

(* Not so: today's close outlives a backfill of the same day. *)
CloseIsKept == [][\A d \in 1..Days : equity[d] = "close" => equity'[d] = "close"]_equity

(* Not so: a backfill whose download is deleted lets others go on. *)
NobodyBlocked == download # "deleted"
=============================================================================
