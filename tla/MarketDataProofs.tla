-------------------------- MODULE MarketDataProofs --------------------------
(***************************************************************************)
(* Proofs about the parts of MCMarketData, for any numbers of downloads,   *)
(* providers, permits, cancel calls, trades and minutes.  Names without a  *)
(* prefix are those of Downloads.                                          *)
(***************************************************************************)
EXTENDS MCMarketData, Sequences, TLAPS

Waiting == {"inserted", "new", "lookup", "wait", "check"}

(* What the row of a download can say at each point of its task, and how   *)
(* far the task has come.                                                  *)
RowFollowsTask ==
  \A d \in DownloadIds :
    /\ d \notin created => task[d] = "none"
    /\ task[d] = "none" => status[d] = "absent"
    /\ task[d] \in Waiting \cup {"mark"} => status[d] \notin {"running"} \cup Finished
    /\ task[d] \in {"fetch", "final"} => status[d] \notin {"queued"} \cup Finished
    /\ task[d] = "close" => status[d] \notin Active

Counted ==
  \A d \in DownloadIds :
    /\ task[d] \in {"none", "mark"} \cup Waiting => progress[d] = 0
    /\ task[d] = "fetch" => progress[d] < Symbols[d]

(* A cancelled task is still to end, and a canceller waits for that.       *)
CancelIsAwaited ==
  \A d \in cancelReq :
    task[d] \in Suspended /\ \E c \in Cancellers : canceller[c] = [pc |-> "update", id |-> d]

(* FinishedIsAnnounced, also while a canceller has still to read the row.  *)
AnnouncedOrCancelled ==
  \A d \in DownloadIds \ cutOff :
    status[d] \in Finished /\ task[d] = "done" /\ (\A c \in Cancellers : canceller[c].id = d => canceller[c].pc = "read")
      => d \in notified

DownloadsInv ==
  TypeOK /\ RowFollowsTask /\ Counted /\ CancelIsAwaited /\ SomebodyEndsIt /\ AnnouncedOrCancelled

-----------------------------------------------------------------------------
LEMMA DownloadsInit == Init => DownloadsInv
BY ConstantsAssumption DEF Init, Idle, DownloadsInv, TypeOK, RowFollowsTask, Counted, CancelIsAwaited,
   SomebodyEndsIt, AnnouncedOrCancelled, Active, Finished, Waiting

LEMMA DownloadsStep == DownloadsInv /\ [Next]_vars => DownloadsInv'
<1> SUFFICES ASSUME DownloadsInv, [Next]_vars PROVE DownloadsInv'
  OBVIOUS
<1> USE ConstantsAssumption DEF DownloadsInv, Active, Finished, Terminal, Suspended, Holding, Waiting
<1>1. ASSUME NEW d \in DownloadIds, CreateRow(d) PROVE DownloadsInv'
  <2> USE <1>1 DEF CreateRow
  <2>1. TypeOK'
    BY DEF TypeOK, Counted
  <2>2. RowFollowsTask'
    BY DEF TypeOK, RowFollowsTask
  <2>3. Counted'
    BY DEF TypeOK, Counted, RowFollowsTask
  <2>4. CancelIsAwaited'
    BY DEF TypeOK, CancelIsAwaited, RowFollowsTask
  <2>5. SomebodyEndsIt'
    BY DEF TypeOK, SomebodyEndsIt, RowFollowsTask, CancelIsAwaited
  <2>6. AnnouncedOrCancelled'
    BY DEF TypeOK, AnnouncedOrCancelled, RowFollowsTask, CancelIsAwaited
  <2> QED
    BY <2>1, <2>2, <2>3, <2>4, <2>5, <2>6
<1>2. ASSUME NEW d \in DownloadIds, StartTask(d) PROVE DownloadsInv'
  <2> USE <1>2 DEF StartTask, Goto
  <2>1. TypeOK'
    BY DEF TypeOK, Counted
  <2>2. RowFollowsTask'
    BY DEF TypeOK, RowFollowsTask
  <2>3. Counted'
    BY DEF TypeOK, Counted, RowFollowsTask
  <2>4. CancelIsAwaited'
    BY DEF TypeOK, CancelIsAwaited
  <2>5. SomebodyEndsIt'
    BY DEF TypeOK, SomebodyEndsIt, RowFollowsTask, CancelIsAwaited
  <2>6. AnnouncedOrCancelled'
    BY DEF TypeOK, AnnouncedOrCancelled, RowFollowsTask, CancelIsAwaited
  <2> QED
    BY <2>1, <2>2, <2>3, <2>4, <2>5, <2>6
<1>3. ASSUME NEW d \in DownloadIds, FirstStep(d) PROVE DownloadsInv'
  <2> USE <1>3 DEF FirstStep, Runs, Goto
  <2>1. TypeOK'
    BY DEF TypeOK, Counted
  <2>2. RowFollowsTask'
    BY DEF TypeOK, RowFollowsTask
  <2>3. Counted'
    BY DEF TypeOK, Counted, RowFollowsTask
  <2>4. CancelIsAwaited'
    BY DEF TypeOK, CancelIsAwaited
  <2>5. SomebodyEndsIt'
    BY DEF TypeOK, SomebodyEndsIt, RowFollowsTask, CancelIsAwaited
  <2>6. AnnouncedOrCancelled'
    BY DEF TypeOK, AnnouncedOrCancelled, RowFollowsTask, CancelIsAwaited
  <2> QED
    BY <2>1, <2>2, <2>3, <2>4, <2>5, <2>6
<1>4. ASSUME NEW d \in DownloadIds, LookUp(d) PROVE DownloadsInv'
  <2> USE <1>4 DEF LookUp, Runs, Goto
  <2>1. TypeOK'
    BY DEF TypeOK, Counted
  <2>2. RowFollowsTask'
    BY DEF TypeOK, RowFollowsTask
  <2>3. Counted'
    BY DEF TypeOK, Counted, RowFollowsTask
  <2>4. CancelIsAwaited'
    BY DEF TypeOK, CancelIsAwaited
  <2>5. SomebodyEndsIt'
    BY DEF TypeOK, SomebodyEndsIt, RowFollowsTask, CancelIsAwaited
  <2>6. AnnouncedOrCancelled'
    BY DEF TypeOK, AnnouncedOrCancelled, RowFollowsTask, CancelIsAwaited
  <2> QED
    BY <2>1, <2>2, <2>3, <2>4, <2>5, <2>6
<1>5. ASSUME NEW d \in DownloadIds, Acquire(d) PROVE DownloadsInv'
  <2> USE <1>5 DEF Acquire, Runs, Goto
  <2>1. TypeOK'
    BY DEF TypeOK, Counted
  <2>2. RowFollowsTask'
    BY DEF TypeOK, RowFollowsTask
  <2>3. Counted'
    BY DEF TypeOK, Counted, RowFollowsTask
  <2>4. CancelIsAwaited'
    BY DEF TypeOK, CancelIsAwaited
  <2>5. SomebodyEndsIt'
    BY DEF TypeOK, SomebodyEndsIt, RowFollowsTask, CancelIsAwaited
  <2>6. AnnouncedOrCancelled'
    BY DEF TypeOK, AnnouncedOrCancelled, RowFollowsTask, CancelIsAwaited
  <2> QED
    BY <2>1, <2>2, <2>3, <2>4, <2>5, <2>6
<1>6. ASSUME NEW d \in DownloadIds, Check(d) PROVE DownloadsInv'
  <2> USE <1>6 DEF Check, Runs, Goto
  <2>1. TypeOK'
    BY DEF TypeOK, Counted
  <2>2. RowFollowsTask'
    BY DEF TypeOK, RowFollowsTask
  <2>3. Counted'
    BY DEF TypeOK, Counted, RowFollowsTask
  <2>4. CancelIsAwaited'
    BY DEF TypeOK, CancelIsAwaited
  <2>5. SomebodyEndsIt'
    BY DEF TypeOK, SomebodyEndsIt, RowFollowsTask, CancelIsAwaited
  <2>6. AnnouncedOrCancelled'
    BY DEF TypeOK, AnnouncedOrCancelled, RowFollowsTask, CancelIsAwaited
  <2> QED
    BY <2>1, <2>2, <2>3, <2>4, <2>5, <2>6
<1>7. ASSUME NEW d \in DownloadIds, MarkRunning(d) PROVE DownloadsInv'
  <2> USE <1>7 DEF MarkRunning, Runs, Goto, SetStatus
  <2>1. TypeOK'
    BY DEF TypeOK, Counted
  <2>2. RowFollowsTask'
    BY DEF TypeOK, RowFollowsTask
  <2>3. Counted'
    BY DEF TypeOK, Counted, RowFollowsTask
  <2>4. CancelIsAwaited'
    BY DEF TypeOK, CancelIsAwaited
  <2>5. SomebodyEndsIt'
    BY DEF TypeOK, SomebodyEndsIt, RowFollowsTask, CancelIsAwaited
  <2>6. AnnouncedOrCancelled'
    BY DEF TypeOK, AnnouncedOrCancelled, RowFollowsTask, CancelIsAwaited
  <2> QED
    BY <2>1, <2>2, <2>3, <2>4, <2>5, <2>6
<1>8. ASSUME NEW d \in DownloadIds, FetchSymbol(d) PROVE DownloadsInv'
  <2> USE <1>8 DEF FetchSymbol, Runs, Goto, LastSymbol
  <2>1. TypeOK'
    BY DEF TypeOK, Counted
  <2>2. RowFollowsTask'
    BY DEF TypeOK, RowFollowsTask
  <2>3. Counted'
    BY DEF TypeOK, Counted, RowFollowsTask
  <2>4. CancelIsAwaited'
    BY DEF TypeOK, CancelIsAwaited
  <2>5. SomebodyEndsIt'
    BY DEF TypeOK, SomebodyEndsIt, RowFollowsTask, CancelIsAwaited
  <2>6. AnnouncedOrCancelled'
    BY DEF TypeOK, AnnouncedOrCancelled, RowFollowsTask, CancelIsAwaited
  <2> QED
    BY <2>1, <2>2, <2>3, <2>4, <2>5, <2>6
<1>9. ASSUME NEW d \in DownloadIds, Finalize(d) PROVE DownloadsInv'
  <2> USE <1>9 DEF Finalize, Runs, Goto, SetStatus, FinalStatus
  <2>1. TypeOK'
    BY DEF TypeOK, Counted
  <2>2. RowFollowsTask'
    BY DEF TypeOK, RowFollowsTask
  <2>3. Counted'
    BY DEF TypeOK, Counted, RowFollowsTask
  <2>4. CancelIsAwaited'
    BY DEF TypeOK, CancelIsAwaited
  <2>5. SomebodyEndsIt'
    BY DEF TypeOK, SomebodyEndsIt, RowFollowsTask, CancelIsAwaited
  <2>6. AnnouncedOrCancelled'
    BY DEF TypeOK, AnnouncedOrCancelled, RowFollowsTask, CancelIsAwaited
  <2> QED
    BY <2>1, <2>2, <2>3, <2>4, <2>5, <2>6
<1>10. ASSUME NEW d \in DownloadIds, Notify(d) PROVE DownloadsInv'
  <2> USE <1>10 DEF Notify, Runs, Goto, CallsListeners
  <2>1. TypeOK'
    BY DEF TypeOK, Counted
  <2>2. RowFollowsTask'
    BY DEF TypeOK, RowFollowsTask
  <2>3. Counted'
    BY DEF TypeOK, Counted, RowFollowsTask
  <2>4. CancelIsAwaited'
    BY DEF TypeOK, CancelIsAwaited
  <2>5. SomebodyEndsIt'
    BY DEF TypeOK, SomebodyEndsIt, RowFollowsTask, CancelIsAwaited
  <2>6. AnnouncedOrCancelled'
    BY DEF TypeOK, AnnouncedOrCancelled, RowFollowsTask, CancelIsAwaited
  <2> QED
    BY <2>1, <2>2, <2>3, <2>4, <2>5, <2>6
<1>11. ASSUME NEW d \in DownloadIds, Interrupt(d) PROVE DownloadsInv'
  <2> USE <1>11
  <2>1. PICK c \in Cancellers : canceller[c] = [pc |-> "update", id |-> d]
    BY DEF Interrupt, CancelIsAwaited
  <2>2. /\ task[d] \in Suspended /\ task' = [task EXCEPT ![d] = "done"]
        /\ status' \in [DownloadIds -> {"absent"} \cup Active \cup Terminal]
        /\ \A e \in DownloadIds \ {d} : status'[e] = status[e]
        /\ canceller'[c].id = d /\ canceller'[c].pc = "update" /\ UNCHANGED canceller
    BY <2>1 DEF Interrupt, Goto, SetStatus, FinalStatus, CancelIsAwaited, TypeOK
  <2>3. TypeOK'
    BY <2>2 DEF Interrupt, TypeOK
  <2>4. RowFollowsTask'
    BY <2>2 DEF TypeOK, RowFollowsTask, Interrupt
  <2>5. Counted'
    BY <2>2 DEF TypeOK, Counted, RowFollowsTask, Interrupt
  <2>6. CancelIsAwaited'
    BY <2>2 DEF TypeOK, CancelIsAwaited, Interrupt
  <2>7. SomebodyEndsIt'
    BY <2>2 DEF TypeOK, SomebodyEndsIt
  <2>8. AnnouncedOrCancelled'
    BY <2>2 DEF TypeOK, AnnouncedOrCancelled, Interrupt
  <2> QED
    BY <2>3, <2>4, <2>5, <2>6, <2>7, <2>8
<1>12. ASSUME NEW d \in DownloadIds, DeleteRow(d) PROVE DownloadsInv'
  <2> USE <1>12 DEF DeleteRow
  <2>1. TypeOK'
    BY DEF TypeOK, Counted
  <2>2. RowFollowsTask'
    BY DEF TypeOK, RowFollowsTask
  <2>3. Counted'
    BY DEF TypeOK, Counted, RowFollowsTask
  <2>4. CancelIsAwaited'
    BY DEF TypeOK, CancelIsAwaited
  <2>5. SomebodyEndsIt'
    BY DEF TypeOK, SomebodyEndsIt, RowFollowsTask, CancelIsAwaited
  <2>6. AnnouncedOrCancelled'
    BY DEF TypeOK, AnnouncedOrCancelled, RowFollowsTask, CancelIsAwaited
  <2> QED
    BY <2>1, <2>2, <2>3, <2>4, <2>5, <2>6
<1>13. ASSUME NEW c \in Cancellers, NEW d \in DownloadIds, CancelCall(c, d) PROVE DownloadsInv'
  <2> USE <1>13 DEF CancelCall, Idle
  <2>1. TypeOK'
    BY DEF TypeOK, Counted
  <2>2. RowFollowsTask'
    BY DEF TypeOK, RowFollowsTask
  <2>3. Counted'
    BY DEF TypeOK, Counted, RowFollowsTask
  <2>4. CancelIsAwaited'
    BY DEF TypeOK, CancelIsAwaited
  <2>5. SomebodyEndsIt'
    BY DEF TypeOK, SomebodyEndsIt, RowFollowsTask, CancelIsAwaited
  <2>6. AnnouncedOrCancelled'
    BY DEF TypeOK, AnnouncedOrCancelled, RowFollowsTask, CancelIsAwaited
  <2> QED
    BY <2>1, <2>2, <2>3, <2>4, <2>5, <2>6
<1>14. ASSUME NEW c \in Cancellers, CancelUpdate(c) PROVE DownloadsInv'
  <2> USE <1>14 DEF CancelUpdate, MarkCancelled, SetStatus, Idle
  <2>1. TypeOK'
    BY DEF TypeOK, Counted
  <2>2. RowFollowsTask'
    BY DEF TypeOK, RowFollowsTask
  <2>3. Counted'
    BY DEF TypeOK, Counted, RowFollowsTask
  <2>4. CancelIsAwaited'
    BY DEF TypeOK, CancelIsAwaited
  <2>5. SomebodyEndsIt'
    BY DEF TypeOK, SomebodyEndsIt, RowFollowsTask, CancelIsAwaited
  <2>6. AnnouncedOrCancelled'
    BY DEF TypeOK, AnnouncedOrCancelled, RowFollowsTask, CancelIsAwaited
  <2> QED
    BY <2>1, <2>2, <2>3, <2>4, <2>5, <2>6
<1>15. ASSUME NEW c \in Cancellers, CancelRead(c) PROVE DownloadsInv'
  <2> USE <1>15 DEF CancelRead, Idle
  <2>1. TypeOK'
    BY DEF TypeOK, Counted
  <2>2. RowFollowsTask'
    BY DEF TypeOK, RowFollowsTask
  <2>3. Counted'
    BY DEF TypeOK, Counted, RowFollowsTask
  <2>4. CancelIsAwaited'
    BY DEF TypeOK, CancelIsAwaited
  <2>5. SomebodyEndsIt'
    BY DEF TypeOK, SomebodyEndsIt, RowFollowsTask, CancelIsAwaited
  <2>6. AnnouncedOrCancelled'
    BY DEF TypeOK, AnnouncedOrCancelled, RowFollowsTask, CancelIsAwaited
  <2> QED
    BY <2>1, <2>2, <2>3, <2>4, <2>5, <2>6
<1>16. ASSUME NEW c \in Cancellers, CancelWrite(c) PROVE DownloadsInv'
  <2> USE <1>16 DEF CancelWrite, SetStatus, Idle
  <2>1. TypeOK'
    BY DEF TypeOK, Counted
  <2>2. RowFollowsTask'
    BY DEF TypeOK, RowFollowsTask
  <2>3. Counted'
    BY DEF TypeOK, Counted, RowFollowsTask
  <2>4. CancelIsAwaited'
    BY DEF TypeOK, CancelIsAwaited
  <2>5. SomebodyEndsIt'
    BY DEF TypeOK, SomebodyEndsIt, RowFollowsTask, CancelIsAwaited
  <2>6. AnnouncedOrCancelled'
    BY DEF TypeOK, AnnouncedOrCancelled, RowFollowsTask, CancelIsAwaited
  <2> QED
    BY <2>1, <2>2, <2>3, <2>4, <2>5, <2>6
<1>17. ASSUME Restart PROVE DownloadsInv'
  <2> USE <1>17 DEF Restart, Orphaned, Idle
  <2>1. TypeOK'
    BY DEF TypeOK, Counted
  <2>2. RowFollowsTask'
    BY DEF TypeOK, RowFollowsTask
  <2>3. Counted'
    BY DEF TypeOK, Counted, RowFollowsTask
  <2>4. CancelIsAwaited'
    BY DEF TypeOK, CancelIsAwaited
  <2>5. SomebodyEndsIt'
    BY DEF TypeOK, SomebodyEndsIt, RowFollowsTask, CancelIsAwaited
  <2>6. AnnouncedOrCancelled'
    BY DEF TypeOK, AnnouncedOrCancelled, RowFollowsTask, CancelIsAwaited
  <2> QED
    BY <2>1, <2>2, <2>3, <2>4, <2>5, <2>6
<1>18. CASE UNCHANGED vars
  BY <1>18 DEF vars, TypeOK, RowFollowsTask, Counted, CancelIsAwaited, SomebodyEndsIt, AnnouncedOrCancelled
<1> QED
  BY <1>1, <1>2, <1>3, <1>4, <1>5, <1>6, <1>7, <1>8, <1>9, <1>10, <1>11, <1>12, <1>13, <1>14, <1>15, <1>16, <1>17, <1>18
  DEF Next, TaskStep, CancelStep

-----------------------------------------------------------------------------
(* LiveBars. *)

BarsInv == Bars!TypeOK /\ Bars!CountedOnce

(* A queue of bars holds each trade once, under its minute; the second     *)
(* queue has kept every trade of the first.                                *)
Once(bs, minutes) ==
  /\ \A i \in DOMAIN bs : \A j \in DOMAIN bs[i].trades : minutes[bs[i].trades[j]] = bs[i].minute
  /\ \A i, k \in DOMAIN bs : \A j \in DOMAIN bs[i].trades, l \in DOMAIN bs[k].trades :
       bs[i].trades[j] = bs[k].trades[l] => i = k /\ j = l

Keeps(as, bs) ==
  \A i \in DOMAIN as : \E k \in DOMAIN bs : \A j \in DOMAIN as[i].trades :
    j \in DOMAIN bs[k].trades /\ bs[k].trades[j] = as[i].trades[j]

LEMMA BarsInit == Bars!ConstantsAssumption /\ Bars!Init => BarsInv
<1> SUFFICES ASSUME Bars!ConstantsAssumption, Bars!Init PROVE BarsInv
  OBVIOUS
<1>1. Bars!TypeOK
  BY DEF Bars!ConstantsAssumption, Bars!Init, Bars!TypeOK
<1>2. Bars!AllBars = <<>>
  BY DEF Bars!Init, Bars!AllBars
<1> QED
  BY <1>1, <1>2 DEF BarsInv, Bars!CountedOnce

(* What add makes of an open bar b, or of none.                            *)
LEMMA AddedTo ==
  ASSUME Bars!ConstantsAssumption, NEW b \in Bars!Bar, NEW t \in Trades, NEW m \in 1..Minutes
  PROVE  /\ b # None /\ b.minute \in 1..Minutes /\ b.trades \in Seq(Trades)
         /\ Bars!Add(None, t, m) = [minute |-> m, trades |-> <<t>>]
         /\ m < b.minute => Bars!Add(b, t, m) = b
         /\ ~(m < b.minute) => Bars!Add(b, t, m) = [minute |-> b.minute, trades |-> Append(b.trades, t)]
<1>1. b # None
  BY DEF Bars!ConstantsAssumption, Bars!Bar
<1>2. b.minute \in 1..Minutes /\ b.trades \in Seq(Trades)
  BY DEF Bars!Bar
<1>3. \A s : [b EXCEPT !.trades = s] = [minute |-> b.minute, trades |-> s]
  BY DEF Bars!Bar
<1> QED
  BY <1>1, <1>2, <1>3 DEF Bars!Add

LEMMA AddType ==
  ASSUME Bars!ConstantsAssumption, NEW b \in Bars!Bar \cup {None}, NEW t \in Trades, NEW m \in 1..Minutes
  PROVE  Bars!Add(b, t, m) \in Bars!Bar
<1>1. CASE b = None
  BY <1>1 DEF Bars!Add, Bars!Bar
<1>2. CASE b \in Bars!Bar
  <2>1. b.trades \in Seq(Trades) /\ Append(b.trades, t) \in Seq(Trades)
    BY <1>2 DEF Bars!Bar
  <2>2. \A s \in Seq(Trades) : [minute |-> b.minute, trades |-> s] \in Bars!Bar
    BY <1>2 DEF Bars!Bar
  <2>3. CASE m < b.minute
    BY <1>2, <2>3, AddedTo
  <2>4. CASE ~(m < b.minute)
    BY <1>2, <2>1, <2>2, <2>4, AddedTo
  <2> QED
    BY <2>3, <2>4
<1> QED
  BY <1>1, <1>2

LEMMA BarsType ==
  ASSUME Bars!ConstantsAssumption, Bars!TypeOK, Bars!Next
  PROVE  Bars!TypeOK'
<1>1. bar # None => bar \in Bars!Bar
  BY DEF Bars!TypeOK
<1>2. None \in Bars!Bar \cup {None}
  OBVIOUS
<1>3. ASSUME NEW t \in Trades, Bars!OnTrade(t) PROVE Bars!TypeOK'
  <2>1. PICK m \in 1..Minutes :
          /\ minuteOf' = [minuteOf EXCEPT ![t] = m]
          /\ buffer' = Append(buffer, t)
          /\ IF Bars!Closed(m) THEN pending' = Append(pending, bar) /\ bar' = Bars!Add(None, t, m)
                               ELSE bar' = Bars!Add(bar, t, m) /\ UNCHANGED pending
    BY <1>3 DEF Bars!OnTrade
  <2>2. bar' \in Bars!Bar
    <3>1. bar \in Bars!Bar \cup {None}
      BY DEF Bars!TypeOK
    <3>2. Bars!Add(bar, t, m) \in Bars!Bar /\ Bars!Add(None, t, m) \in Bars!Bar
      BY <1>2, <3>1, AddType
    <3> QED
      BY <2>1, <3>2
  <2>3. pending' \in Seq(Bars!Bar)
    <3>1. CASE Bars!Closed(m)
      <4>1. bar \in Bars!Bar
        BY <1>1, <3>1 DEF Bars!Closed
      <4>2. Append(pending, bar) \in Seq(Bars!Bar)
        BY <4>1 DEF Bars!TypeOK
      <4> QED
        BY <2>1, <3>1, <4>2
    <3>2. CASE ~Bars!Closed(m)
      BY <2>1, <3>2 DEF Bars!TypeOK
    <3> QED
      BY <3>1, <3>2
  <2>4. minuteOf' \in [Trades -> 0..Minutes] /\ buffer' \in Seq(Trades)
    BY <2>1 DEF Bars!TypeOK, Bars!ConstantsAssumption
  <2> QED
    BY <1>3, <2>2, <2>3, <2>4 DEF Bars!OnTrade, Bars!TypeOK
<1>4. CASE Bars!TakeClosed
  <2>1. CASE Bars!Closed(now)
    <3>1. bar \in Bars!Bar
      BY <1>1, <2>1 DEF Bars!Closed
    <3>2. Bars!Saved(bars, bar) \in [1..Minutes -> Seq(Trades)]
      BY <3>1 DEF Bars!Saved, Bars!TypeOK, Bars!Bar
    <3>3. Append(dispatched, bar) \in Seq(Bars!Bar)
      BY <3>1 DEF Bars!TypeOK
    <3> QED
      BY <1>4, <2>1, <3>2, <3>3 DEF Bars!TakeClosed, Bars!TypeOK
  <2>2. CASE ~Bars!Closed(now)
    BY <1>4, <2>2 DEF Bars!TakeClosed, Bars!TypeOK
  <2> QED
    BY <2>1, <2>2
<1>5. CASE Bars!FlushTicks
  <2>1. Bars!ToSet(buffer) \subseteq Trades
    BY DEF Bars!ToSet, Bars!TypeOK
  <2>2. file' \in [rows: SUBSET Trades, damaged: BOOLEAN] /\ preserved' \subseteq Trades
    <3>1. CASE UNCHANGED <<file, preserved>>
      BY <3>1 DEF Bars!TypeOK
    <3>2. CASE file' = [file EXCEPT !.rows = @ \cup Bars!ToSet(buffer)] /\ UNCHANGED preserved
      BY <2>1, <3>2 DEF Bars!TypeOK
    <3>3. CASE file' = [rows |-> Bars!ToSet(buffer), damaged |-> FALSE] /\ preserved' = Bars!SetsAside(file.rows)
      BY <2>1, <3>3 DEF Bars!TypeOK, Bars!SetsAside
    <3> QED
      BY <1>5, <3>1, <3>2, <3>3 DEF Bars!FlushTicks
  <2> QED
    BY <1>5, <2>2 DEF Bars!FlushTicks, Bars!TypeOK
<1>6. CASE Bars!FlushPending
  <2>1. PICK last \in [1..Minutes -> {0} \cup DOMAIN pending] :
          bars' = [m \in 1..Minutes |-> IF last[m] = 0 THEN bars[m] ELSE pending[last[m]].trades]
    BY <1>6 DEF Bars!FlushPending
  <2>2. \A i \in DOMAIN pending : pending[i].trades \in Seq(Trades)
    <3>1. \A i \in DOMAIN pending : pending[i] \in Bars!Bar
      BY DEF Bars!TypeOK
    <3> QED
      BY <3>1 DEF Bars!Bar
  <2>3. bars' \in [1..Minutes -> Seq(Trades)]
    BY <2>1, <2>2 DEF Bars!TypeOK
  <2>4. dispatched' \in Seq(Bars!Bar) /\ pending' \in Seq(Bars!Bar)
    BY <1>6 DEF Bars!FlushPending, Bars!TypeOK
  <2> QED
    BY <1>6, <2>3, <2>4 DEF Bars!FlushPending, Bars!TypeOK
<1>7. CASE Bars!Minute
  BY <1>7 DEF Bars!Minute, Bars!TypeOK, Bars!ConstantsAssumption
<1>8. CASE Bars!Damage
  BY <1>8 DEF Bars!Damage, Bars!TypeOK
<1> QED
  BY <1>3, <1>4, <1>5, <1>6, <1>7, <1>8 DEF Bars!Next

-----------------------------------------------------------------------------
(* What a trade and a flush do to the queue of all bars. *)

LEMMA BarParts ==
  ASSUME NEW b \in Bars!Bar
  PROVE  b.minute \in 1..Minutes /\ b.trades \in Seq(Trades) /\ \A j \in DOMAIN b.trades : b.trades[j] \in Trades
<1>1. b.minute \in 1..Minutes /\ b.trades \in Seq(Trades)
  BY DEF Bars!Bar
<1> QED
  BY <1>1

(* A trade that is in no bar yet may get any minute. *)
LEMMA FreshTrade ==
  ASSUME Minutes \in Nat, NEW bs \in Seq(Bars!Bar), NEW minutes \in [Trades -> 0..Minutes],
         Once(bs, minutes), NEW t \in Trades, minutes[t] = 0, NEW m
  PROVE  /\ Once(bs, [minutes EXCEPT ![t] = m])
         /\ \A i \in DOMAIN bs : \A j \in DOMAIN bs[i].trades : bs[i].trades[j] # t
<1>1. \A i \in DOMAIN bs : bs[i] \in Bars!Bar
  OBVIOUS
<1>2. ASSUME NEW i \in DOMAIN bs, NEW j \in DOMAIN bs[i].trades
      PROVE  /\ bs[i].trades[j] \in Trades \ {t}
             /\ [minutes EXCEPT ![t] = m][bs[i].trades[j]] = bs[i].minute
  <2>1. bs[i].minute # 0 /\ bs[i].trades[j] \in Trades
    BY <1>1, <1>2, BarParts
  <2>2. minutes[bs[i].trades[j]] = bs[i].minute
    BY <1>2 DEF Once
  <2> QED
    BY <2>1, <2>2
<1> QED
  BY <1>2 DEF Once

LEMMA NewBar ==
  ASSUME Minutes \in Nat, NEW bs \in Seq(Bars!Bar), NEW minutes \in [Trades -> 0..Minutes],
         Once(bs, minutes), NEW t \in Trades, minutes[t] = 0, NEW m \in 1..Minutes
  PROVE  LET bs2 == Append(bs, [minute |-> m, trades |-> <<t>>]) IN
         Once(bs2, [minutes EXCEPT ![t] = m]) /\ Keeps(bs, bs2)
<1> DEFINE new == [minute |-> m, trades |-> <<t>>]
           bs2 == Append(bs, new)
<1>1. new.minute = m /\ DOMAIN new.trades = {1} /\ new.trades[1] = t
  OBVIOUS
<1>2. /\ DOMAIN bs2 = DOMAIN bs \cup {Len(bs) + 1} /\ Len(bs) + 1 \notin DOMAIN bs
      /\ \A i \in DOMAIN bs : bs2[i] = bs[i]
      /\ bs2[Len(bs) + 1] = new
  OBVIOUS
<1> HIDE DEF new, bs2
<1>3. /\ Once(bs, [minutes EXCEPT ![t] = m])
      /\ \A i \in DOMAIN bs : \A j \in DOMAIN bs[i].trades : bs[i].trades[j] # t
  BY FreshTrade
<1>4. Once(bs2, [minutes EXCEPT ![t] = m])
  <2>1. [minutes EXCEPT ![t] = m][t] = m
    OBVIOUS
  <2>2. \A i \in DOMAIN bs2 : \A j \in DOMAIN bs2[i].trades : [minutes EXCEPT ![t] = m][bs2[i].trades[j]] = bs2[i].minute
    BY <1>1, <1>2, <1>3, <2>1 DEF Once
  <2>3. \A i, k \in DOMAIN bs2 : \A j \in DOMAIN bs2[i].trades, l \in DOMAIN bs2[k].trades :
          bs2[i].trades[j] = bs2[k].trades[l] => i = k /\ j = l
    BY <1>1, <1>2, <1>3 DEF Once
  <2> QED
    BY <2>2, <2>3 DEF Once
<1>5. Keeps(bs, bs2)
  BY <1>2 DEF Keeps
<1> QED
  BY <1>4, <1>5 DEF bs2, new

LEMMA GrownBar ==
  ASSUME Minutes \in Nat, NEW bs \in Seq(Bars!Bar), NEW minutes \in [Trades -> 0..Minutes],
         Once(bs, minutes), NEW t \in Trades, minutes[t] = 0,
         NEW n \in DOMAIN bs, NEW bs2 \in Seq(Bars!Bar), DOMAIN bs2 = DOMAIN bs,
         \A i \in DOMAIN bs \ {n} : bs2[i] = bs[i],
         bs2[n] = [minute |-> bs[n].minute, trades |-> Append(bs[n].trades, t)]
  PROVE  Once(bs2, [minutes EXCEPT ![t] = bs[n].minute]) /\ Keeps(bs, bs2)
<1> DEFINE old == bs[n].trades
           mins2 == [minutes EXCEPT ![t] = bs[n].minute]
<1>1. bs2[n].minute = bs[n].minute /\ bs2[n].trades = Append(old, t)
  OBVIOUS
<1>2. old \in Seq(Trades)
  <2>1. bs[n] \in Bars!Bar
    OBVIOUS
  <2> QED
    BY <2>1, BarParts
<1>3. /\ DOMAIN Append(old, t) = DOMAIN old \cup {Len(old) + 1} /\ Len(old) + 1 \notin DOMAIN old
      /\ \A j \in DOMAIN old : Append(old, t)[j] = old[j]
      /\ Append(old, t)[Len(old) + 1] = t
  BY <1>2
<1>4. /\ Once(bs, mins2)
      /\ \A i \in DOMAIN bs : \A j \in DOMAIN bs[i].trades : bs[i].trades[j] # t
  BY FreshTrade
<1>5. mins2[t] = bs[n].minute
  OBVIOUS
<1> HIDE DEF mins2
<1>6. \A i \in DOMAIN bs2 : \A j \in DOMAIN bs2[i].trades : mins2[bs2[i].trades[j]] = bs2[i].minute
  <2>1. ASSUME NEW i \in DOMAIN bs2, NEW j \in DOMAIN bs2[i].trades PROVE mins2[bs2[i].trades[j]] = bs2[i].minute
    <3>1. CASE i # n
      BY <2>1, <3>1, <1>4 DEF Once
    <3>2. CASE i = n /\ j \in DOMAIN old
      BY <3>2, <1>1, <1>3, <1>4 DEF Once
    <3>3. CASE i = n /\ j = Len(old) + 1
      BY <3>3, <1>1, <1>3, <1>5
    <3> QED
      BY <2>1, <3>1, <3>2, <3>3, <1>1, <1>3
  <2> QED
    BY <2>1
<1>7. \A i, k \in DOMAIN bs2 : \A j \in DOMAIN bs2[i].trades, l \in DOMAIN bs2[k].trades :
        bs2[i].trades[j] = bs2[k].trades[l] => i = k /\ j = l
  <2>1. ASSUME NEW i \in DOMAIN bs2, NEW j \in DOMAIN bs2[i].trades
        PROVE  \/ j \in DOMAIN bs[i].trades /\ bs2[i].trades[j] = bs[i].trades[j] /\ bs2[i].trades[j] # t
               \/ i = n /\ j = Len(old) + 1 /\ bs2[i].trades[j] = t
    <3>1. CASE i # n
      BY <2>1, <3>1, <1>4
    <3>2. CASE i = n
      BY <2>1, <3>2, <1>1, <1>3, <1>4
    <3> QED
      BY <3>1, <3>2
  <2>2. ASSUME NEW i \in DOMAIN bs2, NEW k \in DOMAIN bs2,
               NEW j \in DOMAIN bs2[i].trades, NEW l \in DOMAIN bs2[k].trades, bs2[i].trades[j] = bs2[k].trades[l]
        PROVE  i = k /\ j = l
    <3>1. CASE bs2[i].trades[j] = t
      BY <2>1, <2>2, <3>1
    <3>2. CASE bs2[i].trades[j] # t
      <4>1. /\ j \in DOMAIN bs[i].trades /\ l \in DOMAIN bs[k].trades
            /\ bs[i].trades[j] = bs[k].trades[l]
        BY <2>1, <2>2, <3>2
      <4> QED
        BY <4>1, <1>4 DEF Once
    <3> QED
      BY <3>1, <3>2
  <2> QED
    BY <2>2
<1>8. Keeps(bs, bs2)
  <2> SUFFICES ASSUME NEW i \in DOMAIN bs PROVE \A j \in DOMAIN bs[i].trades :
          j \in DOMAIN bs2[i].trades /\ bs2[i].trades[j] = bs[i].trades[j]
    BY DEF Keeps
  <2> QED
    BY <1>1, <1>3
<1> QED
  BY <1>6, <1>7, <1>8 DEF Once, mins2

(* The last bar goes ahead of the k before it.                             *)
MovesAhead(as, bs, n, k) ==
  /\ DOMAIN as = 1..n + k + 1 /\ DOMAIN bs = 1..n + k + 1
  /\ \A i \in 1..n : bs[i] = as[i]
  /\ bs[n + 1] = as[n + k + 1]
  /\ \A i \in 1..k : bs[n + 1 + i] = as[n + i]

LEMMA MovedBar ==
  ASSUME NEW n \in Nat, NEW k \in Nat, NEW as, NEW bs, NEW minutes,
         Once(as, minutes), MovesAhead(as, bs, n, k)
  PROVE  Once(bs, minutes) /\ Keeps(as, bs)
<1> USE DEF MovesAhead
<1> DEFINE f == [i \in 1..n + k + 1 |-> IF i <= n THEN i ELSE IF i = n + 1 THEN n + k + 1 ELSE i - 1]
<1>1. \A i \in 1..n + k + 1 :
        /\ f[i] \in 1..n + k + 1
        /\ i <= n => f[i] = i
        /\ i = n + 1 => f[i] = n + k + 1
        /\ n + 1 < i => f[i] = i - 1
  OBVIOUS
<1> HIDE DEF f
<1>2. \A i, j \in 1..n + k + 1 : f[i] = f[j] => i = j
  BY <1>1
<1>3. ASSUME NEW i \in 1..n + k + 1 PROVE \E j \in 1..n + k + 1 : f[j] = i
  <2>1. CASE i <= n
    BY <1>1, <2>1
  <2>2. CASE i = n + k + 1
    <3>1. n + 1 \in 1..n + k + 1 /\ f[n + 1] = i
      BY <1>1, <2>2
    <3> QED
      BY <3>1
  <2>3. CASE n < i /\ i < n + k + 1
    <3>1. i + 1 \in 1..n + k + 1 /\ f[i + 1] = i
      BY <1>1, <2>3
    <3> QED
      BY <3>1
  <2> QED
    BY <2>1, <2>2, <2>3
<1>4. ASSUME NEW i \in 1..n + k + 1 PROVE bs[i] = as[f[i]]
  <2>1. CASE i <= n
    <3>1. f[i] = i /\ i \in 1..n
      BY <1>1, <2>1
    <3> QED
      BY <3>1
  <2>2. CASE i = n + 1
    BY <1>1, <2>2
  <2>3. CASE n + 1 < i
    <3> DEFINE l == i - (n + 1)
    <3>1. l \in 1..k /\ n + 1 + l = i /\ n + l = i - 1 /\ f[i] = i - 1
      BY <1>1, <2>3
    <3>2. bs[n + 1 + l] = as[n + l]
      BY <3>1
    <3> QED
      BY <3>1, <3>2
  <2>4. i <= n \/ i = n + 1 \/ n + 1 < i
    OBVIOUS
  <2> QED
    BY <2>1, <2>2, <2>3, <2>4
<1>5. Once(bs, minutes)
  <2>1. ASSUME NEW i \in DOMAIN bs, NEW j \in DOMAIN bs[i].trades PROVE minutes[bs[i].trades[j]] = bs[i].minute
    <3>1. f[i] \in DOMAIN as /\ as[f[i]] = bs[i]
      BY <1>1, <1>4
    <3>2. \A l \in DOMAIN as[f[i]].trades : minutes[as[f[i]].trades[l]] = as[f[i]].minute
      BY <3>1 DEF Once
    <3> QED
      BY <2>1, <3>1, <3>2
  <2>2. ASSUME NEW i \in DOMAIN bs, NEW j \in DOMAIN bs,
               NEW q \in DOMAIN bs[i].trades, NEW r \in DOMAIN bs[j].trades, bs[i].trades[q] = bs[j].trades[r]
        PROVE  i = j /\ q = r
    <3>1. f[i] \in DOMAIN as /\ as[f[i]] = bs[i] /\ f[j] \in DOMAIN as /\ as[f[j]] = bs[j]
      BY <1>1, <1>4
    <3>2. \A l \in DOMAIN as[f[i]].trades, m \in DOMAIN as[f[j]].trades :
            as[f[i]].trades[l] = as[f[j]].trades[m] => f[i] = f[j] /\ l = m
      BY <3>1 DEF Once
    <3>3. f[i] = f[j] /\ q = r
      BY <2>2, <3>1, <3>2
    <3> QED
      BY <1>2, <3>3
  <2> QED
    BY <2>1, <2>2 DEF Once
<1>6. ASSUME NEW i \in DOMAIN as
      PROVE  \E m \in DOMAIN bs : \A j \in DOMAIN as[i].trades :
               j \in DOMAIN bs[m].trades /\ bs[m].trades[j] = as[i].trades[j]
  <2>1. PICK m \in DOMAIN bs : f[m] = i
    BY <1>3
  <2>2. bs[m] = as[i]
    BY <1>4, <2>1
  <2> QED
    BY <2>2
<1> QED
  BY <1>5, <1>6 DEF Keeps

(* The queue of all bars, from its three parts.                            *)
All(d, p, b) == d \o p \o (IF b = None THEN <<>> ELSE <<b>>)

LEMMA AllType ==
  ASSUME NEW d \in Seq(Bars!Bar), NEW p \in Seq(Bars!Bar), NEW b \in Bars!Bar \cup {None}
  PROVE  All(d, p, b) \in Seq(Bars!Bar)
<1>1. CASE b = None
  BY <1>1 DEF All
<1>2. CASE b \in Bars!Bar /\ b # None
  BY <1>2 DEF All
<1> QED
  BY <1>1, <1>2

LEMMA AllAppended ==
  ASSUME NEW d \in Seq(Bars!Bar), NEW p \in Seq(Bars!Bar), NEW b \in Bars!Bar, b # None
  PROVE  /\ All(d, p, b) = Append(All(d, p, None), b)
         /\ \A c \in Bars!Bar : c # None => All(d, Append(p, c), b) = Append(All(d, p, c), b)
<1>1. All(d, p, b) = Append(All(d, p, None), b)
  BY DEF All
<1>2. ASSUME NEW c \in Bars!Bar, c # None PROVE All(d, Append(p, c), b) = Append(All(d, p, c), b)
  BY <1>2 DEF All
<1> QED
  BY <1>1, <1>2

LEMMA AllPlaces ==
  ASSUME NEW d \in Seq(Bars!Bar), NEW p \in Seq(Bars!Bar), NEW b \in Bars!Bar, b # None
  PROVE  /\ Len(All(d, p, b)) = Len(d) + Len(p) + 1
         /\ \A i \in 1..Len(d) : All(d, p, b)[i] = d[i]
         /\ \A i \in 1..Len(p) : All(d, p, b)[Len(d) + i] = p[i]
         /\ All(d, p, b)[Len(d) + Len(p) + 1] = b
BY DEF All

LEMMA AllMoved ==
  ASSUME NEW d \in Seq(Bars!Bar), NEW p \in Seq(Bars!Bar), NEW b \in Bars!Bar, b # None
  PROVE  /\ Len(All(Append(d, b), p, None)) = Len(d) + Len(p) + 1
         /\ \A i \in 1..Len(d) : All(Append(d, b), p, None)[i] = d[i]
         /\ All(Append(d, b), p, None)[Len(d) + 1] = b
         /\ \A i \in 1..Len(p) : All(Append(d, b), p, None)[Len(d) + 1 + i] = p[i]
BY DEF All

LEMMA AllFlushed ==
  ASSUME NEW d \in Seq(Bars!Bar), NEW p \in Seq(Bars!Bar), NEW b \in Bars!Bar \cup {None}
  PROVE  All(d \o p, <<>>, b) = All(d, p, b)
<1>1. CASE b = None
  BY <1>1 DEF All
<1>2. CASE b \in Bars!Bar /\ b # None
  BY <1>2 DEF All
<1> QED
  BY <1>1, <1>2

-----------------------------------------------------------------------------
LEMMA OnTradeKeeps ==
  ASSUME Bars!ConstantsAssumption, BarsInv, NEW t \in Trades, Bars!OnTrade(t)
  PROVE  Once(Bars!AllBars', minuteOf') /\ Keeps(Bars!AllBars, Bars!AllBars')
<1> DEFINE bs == All(dispatched, pending, bar)
<1>1. PICK m \in 1..Minutes :
        /\ minuteOf' = [minuteOf EXCEPT ![t] = m]
        /\ IF Bars!Closed(m) THEN pending' = Append(pending, bar) /\ bar' = Bars!Add(None, t, m)
                             ELSE bar' = Bars!Add(bar, t, m) /\ UNCHANGED pending
        /\ UNCHANGED dispatched
  BY DEF Bars!OnTrade
<1>2. /\ Minutes \in Nat /\ minuteOf \in [Trades -> 0..Minutes] /\ minuteOf[t] = 0
      /\ dispatched \in Seq(Bars!Bar) /\ pending \in Seq(Bars!Bar) /\ bar \in Bars!Bar \cup {None}
  BY DEF BarsInv, Bars!TypeOK, Bars!OnTrade, Bars!Delivered, Bars!ConstantsAssumption
<1>3. Bars!AllBars = bs /\ Bars!AllBars' = All(dispatched', pending', bar')
  BY DEF Bars!AllBars, All
<1>4. bs \in Seq(Bars!Bar)
  BY <1>2, AllType
<1>5. Once(bs, minuteOf)
  BY <1>3 DEF BarsInv, Bars!CountedOnce, Once
<1> DEFINE new == [minute |-> m, trades |-> <<t>>]
<1>6. new \in Bars!Bar /\ new # None
  <2>1. <<t>> \in Seq(Trades)
    OBVIOUS
  <2>2. new \in Bars!Bar
    BY <2>1 DEF Bars!Bar
  <2> QED
    BY <2>2, AddedTo
<1>7. Bars!Add(None, t, m) = new
  BY DEF Bars!Add
<1> HIDE DEF bs, new
<1>8. Once(Append(bs, new), minuteOf') /\ Keeps(bs, Append(bs, new))
  BY <1>1, <1>2, <1>4, <1>5, NewBar DEF new
<1>9. CASE bar = None
  <2>1. bar' = new /\ pending' = pending
    BY <1>1, <1>7, <1>9 DEF Bars!Closed
  <2>2. All(dispatched, pending, new) = Append(bs, new)
    BY <1>2, <1>6, <1>9, AllAppended DEF bs
  <2> QED
    BY <1>1, <1>3, <1>8, <2>1, <2>2
<1>10. CASE bar # None /\ Bars!Closed(m)
  <2>1. bar' = new /\ pending' = Append(pending, bar)
    BY <1>1, <1>7, <1>10
  <2>2. All(dispatched, Append(pending, bar), new) = Append(bs, new)
    BY <1>2, <1>6, <1>10, AllAppended DEF bs
  <2> QED
    BY <1>1, <1>3, <1>8, <2>1, <2>2
<1>11. CASE bar # None /\ ~Bars!Closed(m)
  <2>1. /\ bar \in Bars!Bar /\ bar.minute \in 1..Minutes /\ ~(bar.minute < m)
        /\ bar' = Bars!Add(bar, t, m) /\ pending' = pending
    BY <1>1, <1>2, <1>11, BarParts DEF Bars!Closed
  <2>2. CASE m < bar.minute
    <3>1. All(dispatched', pending', bar') = bs
      BY <1>1, <2>1, <2>2, AddedTo DEF bs
    <3>2. Once(bs, minuteOf')
      BY <1>1, <1>2, <1>4, <1>5, FreshTrade
    <3> QED
      BY <1>3, <3>1, <3>2 DEF Keeps
  <2>3. CASE ~(m < bar.minute)
    <3> DEFINE n == Len(dispatched) + Len(pending) + 1
               bs2 == All(dispatched, pending, bar')
    <3>1. bar.minute = m
      BY <2>1, <2>3
    <3>2. bar' = [minute |-> bar.minute, trades |-> Append(bar.trades, t)]
      BY <2>1, <2>3, AddedTo
    <3>3. bar' \in Bars!Bar /\ bar' # None
      <4>1. bar' \in Bars!Bar
        BY <1>2, <2>1, AddType
      <4> QED
        BY <4>1, AddedTo
    <3>4. bs2 \in Seq(Bars!Bar)
      BY <1>2, <3>3, AllType
    <3>5. /\ Len(bs) = n /\ bs[n] = bar
          /\ \A i \in 1..Len(dispatched) : bs[i] = dispatched[i]
          /\ \A i \in 1..Len(pending) : bs[Len(dispatched) + i] = pending[i]
      <4>1. bs = All(dispatched, pending, bar) /\ bar \in Bars!Bar /\ bar # None
        BY <1>11, <2>1 DEF bs
      <4> QED
        BY <1>2, <4>1, AllPlaces
    <3>6. /\ Len(bs2) = n /\ bs2[n] = bar'
          /\ \A i \in 1..Len(dispatched) : bs2[i] = dispatched[i]
          /\ \A i \in 1..Len(pending) : bs2[Len(dispatched) + i] = pending[i]
      BY <1>2, <3>3, AllPlaces
    <3>7. Len(dispatched) \in Nat /\ Len(pending) \in Nat /\ n \in DOMAIN bs /\ DOMAIN bs = 1..n /\ DOMAIN bs2 = 1..n
      BY <1>2, <1>4, <3>4, <3>5, <3>6
    <3> HIDE DEF bs2
    <3>8. ASSUME NEW i \in DOMAIN bs \ {n} PROVE bs2[i] = bs[i]
      <4>1. CASE i <= Len(dispatched)
        BY <3>5, <3>6, <3>7, <4>1
      <4>2. CASE ~(i <= Len(dispatched))
        <5>1. i - Len(dispatched) \in 1..Len(pending) /\ i = Len(dispatched) + (i - Len(dispatched))
          BY <3>7, <4>2
        <5>2. \A l \in 1..Len(pending) : bs2[Len(dispatched) + l] = bs[Len(dispatched) + l]
          BY <3>5, <3>6
        <5> QED
          BY <5>1, <5>2
      <4> QED
        BY <4>1, <4>2
    <3> HIDE DEF n
    <3>9. bs2[n] = [minute |-> bs[n].minute, trades |-> Append(bs[n].trades, t)]
      BY <3>2, <3>5, <3>6
    <3>10. Once(bs2, [minuteOf EXCEPT ![t] = bs[n].minute]) /\ Keeps(bs, bs2)
      BY <1>2, <1>4, <1>5, <3>4, <3>7, <3>8, <3>9, GrownBar
    <3> QED
      BY <1>1, <1>3, <2>1, <3>1, <3>5, <3>10 DEF bs2
  <2> QED
    BY <2>2, <2>3
<1> QED
  BY <1>9, <1>10, <1>11

LEMMA TakeClosedKeeps ==
  ASSUME Bars!ConstantsAssumption, BarsInv, Bars!TakeClosed
  PROVE  Once(Bars!AllBars', minuteOf') /\ Keeps(Bars!AllBars, Bars!AllBars')
<1> DEFINE as == All(dispatched, pending, bar)
           bs == All(dispatched', pending', bar')
<1>1. Bars!AllBars = as /\ Bars!AllBars' = bs
  BY DEF Bars!AllBars, All
<1>2. Once(as, minuteOf)
  BY <1>1 DEF BarsInv, Bars!CountedOnce, Once
<1>3. minuteOf' = minuteOf /\ pending' = pending
  BY DEF Bars!TakeClosed
<1>4. CASE ~Bars!Closed(now)
  <2>1. bs = as
    BY <1>3, <1>4 DEF Bars!TakeClosed
  <2> QED
    BY <1>1, <1>2, <1>3, <2>1 DEF Keeps
<1>5. CASE Bars!Closed(now)
  <2> DEFINE n == Len(dispatched)
             k == Len(pending)
  <2>1. bar # None /\ bar \in Bars!Bar /\ dispatched \in Seq(Bars!Bar) /\ pending \in Seq(Bars!Bar)
    BY <1>5 DEF Bars!Closed, BarsInv, Bars!TypeOK
  <2>2. bs = All(Append(dispatched, bar), pending, None)
    BY <1>3, <1>5 DEF Bars!TakeClosed
  <2>3. /\ Len(as) = n + k + 1 /\ as[n + k + 1] = bar
        /\ \A i \in 1..n : as[i] = dispatched[i]
        /\ \A i \in 1..k : as[n + i] = pending[i]
    BY <2>1, AllPlaces
  <2>4. /\ Len(bs) = n + k + 1 /\ bs[n + 1] = bar
        /\ \A i \in 1..n : bs[i] = dispatched[i]
        /\ \A i \in 1..k : bs[n + 1 + i] = pending[i]
    BY <2>1, <2>2, AllMoved
  <2>5. /\ n \in Nat /\ k \in Nat /\ as \in Seq(Bars!Bar) /\ bs \in Seq(Bars!Bar)
        /\ DOMAIN as = 1..n + k + 1 /\ DOMAIN bs = 1..n + k + 1
    <3>1. as \in Seq(Bars!Bar)
      BY <2>1, AllType
    <3>2. bs \in Seq(Bars!Bar)
      <4>1. Append(dispatched, bar) \in Seq(Bars!Bar) /\ None \in Bars!Bar \cup {None}
        BY <2>1
      <4> QED
        BY <2>1, <2>2, <4>1, AllType
    <3> QED
      BY <2>1, <2>3, <2>4, <3>1, <3>2
  <2> HIDE DEF as, bs, n, k
  <2>6. MovesAhead(as, bs, n, k)
    BY <2>3, <2>4, <2>5 DEF MovesAhead
  <2>7. Once(bs, minuteOf) /\ Keeps(as, bs)
    BY <1>2, <2>5, <2>6, MovedBar
  <2> QED
    BY <1>1, <1>3, <2>7
<1> QED
  BY <1>4, <1>5

LEMMA FlushPendingKeeps ==
  ASSUME Bars!ConstantsAssumption, BarsInv, Bars!FlushPending
  PROVE  Bars!AllBars' = Bars!AllBars /\ minuteOf' = minuteOf
<1>1. /\ dispatched' = dispatched \o pending /\ pending' = <<>> /\ bar' = bar /\ minuteOf' = minuteOf
      /\ dispatched \in Seq(Bars!Bar) /\ pending \in Seq(Bars!Bar) /\ bar \in Bars!Bar \cup {None}
  BY DEF Bars!FlushPending, BarsInv, Bars!TypeOK
<1>2. Bars!AllBars = All(dispatched, pending, bar) /\ Bars!AllBars' = All(dispatched', pending', bar')
  BY DEF Bars!AllBars, All
<1> QED
  BY <1>1, <1>2, AllFlushed

(* What every step of LiveBars keeps, whatever it does to the bars.        *)
LEMMA BarsStep ==
  ASSUME Bars!ConstantsAssumption, BarsInv, [Bars!Next]_barVars
  PROVE  BarsInv' /\ Keeps(Bars!AllBars, Bars!AllBars')
<1>1. CASE UNCHANGED barVars
  <2>1. Bars!TypeOK'
    BY <1>1 DEF barVars, BarsInv, Bars!TypeOK, Bars!Bar
  <2>2. Bars!AllBars' = Bars!AllBars /\ minuteOf' = minuteOf
    BY <1>1 DEF barVars, Bars!AllBars
  <2> QED
    BY <2>1, <2>2 DEF BarsInv, Bars!CountedOnce, Keeps
<1>2. CASE Bars!Next
  <2>1. Bars!TypeOK'
    BY <1>2, BarsType DEF BarsInv
  <2>2. Once(Bars!AllBars, minuteOf)
    BY DEF BarsInv, Bars!CountedOnce, Once
  <2>3. Once(Bars!AllBars', minuteOf') /\ Keeps(Bars!AllBars, Bars!AllBars')
    <3>1. ASSUME NEW t \in Trades, Bars!OnTrade(t)
          PROVE  Once(Bars!AllBars', minuteOf') /\ Keeps(Bars!AllBars, Bars!AllBars')
      BY <3>1, OnTradeKeeps
    <3>2. CASE Bars!TakeClosed
      BY <3>2, TakeClosedKeeps
    <3>3. CASE Bars!FlushTicks \/ Bars!FlushPending \/ Bars!Minute \/ Bars!Damage
      <4>1. Bars!AllBars' = Bars!AllBars /\ minuteOf' = minuteOf
        <5>1. CASE Bars!FlushTicks
          BY <5>1 DEF Bars!FlushTicks, Bars!AllBars
        <5>2. CASE Bars!FlushPending
          BY <5>2, FlushPendingKeeps
        <5>3. CASE Bars!Minute
          BY <5>3 DEF Bars!Minute, Bars!AllBars
        <5>4. CASE Bars!Damage
          BY <5>4 DEF Bars!Damage, Bars!AllBars
        <5> QED
          BY <3>3, <5>1, <5>2, <5>3, <5>4
      <4> QED
        BY <2>2, <4>1 DEF Keeps
    <3> QED
      BY <1>2, <3>1, <3>2, <3>3 DEF Bars!Next
  <2>4. Bars!CountedOnce'
    BY <2>3 DEF Bars!CountedOnce, Once
  <2> QED
    BY <2>1, <2>3, <2>4 DEF BarsInv
<1> QED
  BY <1>1, <1>2

LEMMA BarredKept ==
  ASSUME Keeps(Bars!AllBars, Bars!AllBars')
  PROVE  Bars!Barred \subseteq Bars!Barred'
<1> SUFFICES ASSUME NEW i \in DOMAIN Bars!AllBars, NEW j \in DOMAIN Bars!AllBars[i].trades
             PROVE  Bars!AllBars[i].trades[j] \in Bars!Barred'
  BY DEF Bars!Barred, Bars!ToSet
<1>1. PICK k \in DOMAIN Bars!AllBars' :
        j \in DOMAIN Bars!AllBars'[k].trades /\ Bars!AllBars'[k].trades[j] = Bars!AllBars[i].trades[j]
  BY DEF Keeps
<1> QED
  BY <1>1 DEF Bars!Barred, Bars!ToSet

LEMMA TicksStay ==
  ASSUME [Bars!Next]_barVars
  PROVE  file.rows \cup preserved \subseteq file'.rows \cup preserved'
<1>1. CASE UNCHANGED barVars
  BY <1>1 DEF barVars
<1>2. ASSUME NEW t \in Trades, Bars!OnTrade(t) PROVE UNCHANGED <<file, preserved>>
  BY <1>2 DEF Bars!OnTrade
<1>3. CASE Bars!TakeClosed
  BY <1>3 DEF Bars!TakeClosed
<1>4. CASE Bars!FlushTicks
  <2>1. CASE UNCHANGED <<file, preserved>>
    BY <2>1
  <2>2. CASE file' = [file EXCEPT !.rows = @ \cup Bars!ToSet(buffer)] /\ UNCHANGED preserved
    BY <2>2
  <2>3. CASE file' = [rows |-> Bars!ToSet(buffer), damaged |-> FALSE] /\ preserved' = Bars!SetsAside(file.rows)
    BY <2>3 DEF Bars!SetsAside
  <2> QED
    BY <1>4, <2>1, <2>2, <2>3 DEF Bars!FlushTicks
<1>5. CASE Bars!FlushPending
  BY <1>5 DEF Bars!FlushPending
<1>6. CASE Bars!Minute
  BY <1>6 DEF Bars!Minute
<1>7. CASE Bars!Damage
  BY <1>7 DEF Bars!Damage
<1> QED
  BY <1>1, <1>2, <1>3, <1>4, <1>5, <1>6, <1>7 DEF Bars!Next

-----------------------------------------------------------------------------
(* The two parts of LiveFeeds, and what LiveFeedsProofs proves of them.    *)
Shared == INSTANCE LiveFeedsProofs WITH
  task <- flushTask, Owners <- {"o1"}, Symbols <- {"s1"}, Brokers <- {"b1", "b2"},
  BrokerOf <- [o \in {"o1"} |-> "b1"], Providers <- {}, Surgical <- {}, Cap <- 2,
  Instances <- {}, AccountOf <- <<>>, AssetOf <- <<>>, Calls <- {"c1", "c2"}, Rows <- {"r1", "r2"},
  Conns <- {"x1", "x2"}, Handles <- {"h1", "h2"}, Tasks <- {"t1", "t2"}

Single == INSTANCE LiveFeedsProofs WITH
  task <- flushTask, Owners <- {"o1"}, Symbols <- {"s1", "s2"}, Brokers <- {"b1", "b2"},
  BrokerOf <- [o \in {"o1"} |-> "b1"], Providers <- {}, Surgical <- {"o1"}, Cap <- 2,
  Instances <- {"i1"}, AccountOf <- [i \in {"i1"} |-> "o1"], AssetOf <- [i \in {"i1"} |-> "s1"],
  Calls <- {"c1"}, Rows <- {"r1", "r2"}, Conns <- {"x1", "x2"}, Handles <- {"h1", "h2"},
  Tasks <- {"t1", "t2"}

(* Each is the same specification, in the names of the two instances.      *)
LEMMA OverlappingIsShared ==
  /\ Overlapping!ConstantsAssumption <=> Shared!ConstantsAssumption
  /\ (Overlapping!Init <=> Shared!Init) /\ (Overlapping!Next <=> Shared!Next)
  /\ (Overlapping!TypeOK <=> Shared!TypeOK) /\ (Overlapping!TrackedStreamOpen <=> Shared!TrackedStreamOpen)
BY DEF Overlapping!Keys, Shared!Keys, Overlapping!Key, Shared!Key, Overlapping!Consumers, Shared!Consumers,
   Overlapping!Sub, Shared!Sub, Overlapping!Call, Shared!Call, Overlapping!Task, Shared!Task,
   Overlapping!Connection, Shared!Connection, Overlapping!Handle, Shared!Handle,
   Overlapping!ConstantsAssumption, Shared!ConstantsAssumption, Overlapping!Idle, Shared!Idle,
   Overlapping!TypeOK, Shared!TypeOK, Overlapping!Init, Shared!Init, Overlapping!FreeConns,
   Shared!FreeConns, Overlapping!FreeHandles, Shared!FreeHandles, Overlapping!FreeTasks, Shared!FreeTasks,
   Overlapping!FreeRows, Shared!FreeRows, Overlapping!Fresh, Shared!Fresh, Overlapping!RowsOf,
   Shared!RowsOf, Overlapping!Here, Shared!Here, Overlapping!CanWrite, Shared!CanWrite, Overlapping!Goes,
   Shared!Goes, Overlapping!Ends, Shared!Ends, Overlapping!Matching, Shared!Matching, Overlapping!Begins,
   Shared!Begins, Overlapping!CreateSub, Shared!CreateSub, Overlapping!PreStartChecks,
   Shared!PreStartChecks, Overlapping!InsertConsumer, Shared!InsertConsumer, Overlapping!PostStopActions,
   Shared!PostStopActions, Overlapping!Unsubscribe, Shared!Unsubscribe, Overlapping!NewTask, Shared!NewTask,
   Overlapping!JoinTask, Shared!JoinTask, Overlapping!AtCap, Shared!AtCap, Overlapping!Raises,
   Shared!Raises, Overlapping!StartSubscription, Shared!StartSubscription, Overlapping!OpenStream,
   Shared!OpenStream, Overlapping!Rehandled, Shared!Rehandled, Overlapping!RestartStream,
   Shared!RestartStream, Overlapping!MarkRunning, Shared!MarkRunning, Overlapping!FinishRequest,
   Shared!FinishRequest, Overlapping!FirstOf, Shared!FirstOf, Overlapping!StopSubscription,
   Shared!StopSubscription, Overlapping!Carried, Shared!Carried, Overlapping!Carrying, Shared!Carrying,
   Overlapping!Disown, Shared!Disown, Overlapping!NotCarried, Shared!NotCarried, Overlapping!LeaveStream,
   Shared!LeaveStream, Overlapping!FinishStop, Shared!FinishStop, Overlapping!FlushTask, Shared!FlushTask,
   Overlapping!Resumable, Shared!Resumable, Overlapping!Boot, Shared!Boot, Overlapping!ResumeNext,
   Shared!ResumeNext, Overlapping!Forget, Shared!Forget, Overlapping!BeginStop, Shared!BeginStop,
   Overlapping!EndStop, Shared!EndStop, Overlapping!Exit, Shared!Exit, Overlapping!Next, Shared!Next,
   Overlapping!TrackedStreamOpen, Shared!TrackedStreamOpen, Overlapping!StreamedIsFlushed,
   Shared!StreamedIsFlushed, Overlapping!StreamsFollowSubscriptions, Shared!StreamsFollowSubscriptions,
   Overlapping!db, Shared!db, Overlapping!agg, Shared!agg, Overlapping!vars, Shared!vars,
   Overlapping!RemoveAt, Shared!RemoveAt, Overlapping!IsInjective, Shared!IsInjective,
   Overlapping!Cardinality, Shared!Cardinality, Overlapping!IsFiniteSet, Shared!IsFiniteSet

LEMMA OneByOneIsSingle ==
  /\ OneByOne!ConstantsAssumption <=> Single!ConstantsAssumption
  /\ (OneByOne!Init <=> Single!Init) /\ (OneByOne!Next <=> Single!Next)
  /\ (OneByOne!TypeOK <=> Single!TypeOK) /\ (OneByOne!TrackedStreamOpen <=> Single!TrackedStreamOpen)
  /\ OneByOne!StreamsFollowSubscriptions <=> Single!StreamsFollowSubscriptions
  /\ OneByOne!StreamedIsFlushed <=> Single!StreamedIsFlushed
BY DEF OneByOne!Keys, Single!Keys, OneByOne!Key, Single!Key, OneByOne!Consumers, Single!Consumers,
   OneByOne!Sub, Single!Sub, OneByOne!Call, Single!Call, OneByOne!Task, Single!Task, OneByOne!Connection,
   Single!Connection, OneByOne!Handle, Single!Handle, OneByOne!ConstantsAssumption,
   Single!ConstantsAssumption, OneByOne!Idle, Single!Idle, OneByOne!TypeOK, Single!TypeOK, OneByOne!Init,
   Single!Init, OneByOne!FreeConns, Single!FreeConns, OneByOne!FreeHandles, Single!FreeHandles,
   OneByOne!FreeTasks, Single!FreeTasks, OneByOne!FreeRows, Single!FreeRows, OneByOne!Fresh, Single!Fresh,
   OneByOne!RowsOf, Single!RowsOf, OneByOne!Here, Single!Here, OneByOne!CanWrite, Single!CanWrite,
   OneByOne!Goes, Single!Goes, OneByOne!Ends, Single!Ends, OneByOne!Matching, Single!Matching,
   OneByOne!Begins, Single!Begins, OneByOne!CreateSub, Single!CreateSub, OneByOne!PreStartChecks,
   Single!PreStartChecks, OneByOne!InsertConsumer, Single!InsertConsumer, OneByOne!PostStopActions,
   Single!PostStopActions, OneByOne!Unsubscribe, Single!Unsubscribe, OneByOne!NewTask, Single!NewTask,
   OneByOne!JoinTask, Single!JoinTask, OneByOne!AtCap, Single!AtCap, OneByOne!Raises, Single!Raises,
   OneByOne!StartSubscription, Single!StartSubscription, OneByOne!OpenStream, Single!OpenStream,
   OneByOne!Rehandled, Single!Rehandled, OneByOne!RestartStream, Single!RestartStream, OneByOne!MarkRunning,
   Single!MarkRunning, OneByOne!FinishRequest, Single!FinishRequest, OneByOne!FirstOf, Single!FirstOf,
   OneByOne!StopSubscription, Single!StopSubscription, OneByOne!Carried, Single!Carried, OneByOne!Carrying,
   Single!Carrying, OneByOne!Disown, Single!Disown, OneByOne!NotCarried, Single!NotCarried,
   OneByOne!LeaveStream, Single!LeaveStream, OneByOne!FinishStop, Single!FinishStop, OneByOne!FlushTask,
   Single!FlushTask, OneByOne!Resumable, Single!Resumable, OneByOne!Boot, Single!Boot, OneByOne!ResumeNext,
   Single!ResumeNext, OneByOne!Forget, Single!Forget, OneByOne!BeginStop, Single!BeginStop,
   OneByOne!EndStop, Single!EndStop, OneByOne!Exit, Single!Exit, OneByOne!Next, Single!Next,
   OneByOne!TrackedStreamOpen, Single!TrackedStreamOpen, OneByOne!StreamedIsFlushed,
   Single!StreamedIsFlushed, OneByOne!StreamsFollowSubscriptions, Single!StreamsFollowSubscriptions,
   OneByOne!db, Single!db, OneByOne!agg, Single!agg, OneByOne!vars, Single!vars, OneByOne!RemoveAt,
   Single!RemoveAt, OneByOne!IsInjective, Single!IsInjective, OneByOne!Cardinality, Single!Cardinality,
   OneByOne!IsFiniteSet, Single!IsFiniteSet

FeedsInv ==
  IF part = "one by one" THEN Single!FeedsInv /\ Single!StreamsInv("o1", "c1") ELSE Shared!FeedsInv

LEMMA FeedsConstants == Shared!ConstantsAssumption /\ Single!ConstantsAssumption /\ Single!OneClient("o1", "c1")
BY PartsAssumption, OverlappingIsShared, OneByOneIsSingle DEF Single!OneClient

LEMMA FeedsInit == MCInit => FeedsInv
<1> SUFFICES ASSUME MCInit PROVE FeedsInv
  OBVIOUS
<1>1. CASE part = "one by one"
  <2>1. Single!Init
    BY <1>1, OneByOneIsSingle DEF MCInit
  <2> QED
    BY <1>1, <2>1, FeedsConstants, Single!FeedsInit, Single!StreamsInit DEF FeedsInv
<1>2. CASE part # "one by one"
  <2>1. Shared!Init
    BY <1>2, OverlappingIsShared DEF MCInit
  <2> QED
    BY <1>2, <2>1, FeedsConstants, Shared!FeedsInit DEF FeedsInv
<1> QED
  BY <1>1, <1>2

LEMMA FeedsMove == FeedsInv /\ [MCNext]_<<part, vars, feedVars, barVars>> => FeedsInv'
<1> SUFFICES ASSUME FeedsInv, [MCNext]_<<part, vars, feedVars, barVars>> PROVE FeedsInv'
  OBVIOUS
<1>1. UNCHANGED part /\ (\/ part = "one by one" /\ OneByOne!Next
                         \/ part = "overlapping" /\ Overlapping!Next
                         \/ UNCHANGED feedVars)
  BY DEF MCNext
<1>2. UNCHANGED feedVars => UNCHANGED Single!vars /\ UNCHANGED Shared!vars
  BY DEF feedVars, Single!vars, Shared!vars
<1>3. CASE part = "one by one"
  <2>1. [Single!Next]_Single!vars
    BY <1>1, <1>2, <1>3, OneByOneIsSingle
  <2> QED
    BY <1>1, <1>3, <2>1, FeedsConstants, Single!FeedsStep, Single!StreamsStep DEF FeedsInv
<1>4. CASE part # "one by one"
  <2>1. [Shared!Next]_Shared!vars
    BY <1>1, <1>2, <1>4, OverlappingIsShared
  <2> QED
    BY <1>1, <1>4, <2>1, FeedsConstants, Shared!FeedsStep DEF FeedsInv
<1> QED
  BY <1>3, <1>4

-----------------------------------------------------------------------------
(* A behaviour of MCSpec moves one part.                                   *)
MarketDataInv == DownloadsInv /\ BarsInv /\ FeedsInv

LEMMA PartMoves == MCNext \/ UNCHANGED <<part, vars, feedVars, barVars>> => [Next]_vars /\ [Bars!Next]_barVars
BY DEF MCNext

LEMMA MarketDataAlways == MCInit /\ [][MCNext]_<<part, vars, feedVars, barVars>> => []MarketDataInv
<1>1. Bars!ConstantsAssumption
  BY PartsAssumption
<1>2. MCInit => MarketDataInv
  BY <1>1, DownloadsInit, BarsInit, FeedsInit DEF MCInit, MarketDataInv
<1>3. MarketDataInv /\ [MCNext]_<<part, vars, feedVars, barVars>> => MarketDataInv'
  BY <1>1, DownloadsStep, BarsStep, FeedsMove, PartMoves DEF MarketDataInv
<1> QED
  BY <1>2, <1>3, PTL

(* Whatever the order of tasks, cancels, deletes and restarts: no download *)
(* row stays queued or running with nobody left to end it, and a finished  *)
(* download told its listeners.                                            *)
THEOREM DownloadsAreEnded == MCSpec => []DownloadsEnd
<1>1. MarketDataInv => DownloadsEnd
  BY ConstantsAssumption DEF MarketDataInv, DownloadsInv, DownloadsEnd, FinishedIsAnnounced, AnnouncedOrCancelled
<1> QED
  BY <1>1, MarketDataAlways, PTL DEF MCSpec

(* Any number of trades, in any order, are counted in one bar at most, and *)
(* in their own minute's, however the stream's thread and the flush task   *)
(* interleave.                                                             *)
THEOREM TradesAreCountedOnce == MCSpec => []CountedOnce
<1>1. MarketDataInv => CountedOnce
  BY DEF MarketDataInv, BarsInv, CountedOnce
<1> QED
  BY <1>1, MarketDataAlways, PTL DEF MCSpec

(* No step loses a trade from the bars that wait, or a tick that was       *)
(* written, from a damaged file either.                                    *)
THEOREM TradesStay == MCSpec => TradesAreKept
<1>1. MarketDataInv /\ [MCNext]_<<part, vars, feedVars, barVars>> => [Bars!Barred \subseteq Bars!Barred']_Bars!vars
  BY PartsAssumption, PartMoves, BarsStep, BarredKept DEF MarketDataInv
<1>2. [MCNext]_<<part, vars, feedVars, barVars>> => [file.rows \cup preserved \subseteq file'.rows \cup preserved']_Bars!vars
  BY PartMoves, TicksStay
<1> QED
  BY <1>1, <1>2, MarketDataAlways, PTL DEF MCSpec, TradesAreKept, Bars!BarsAreKept, Bars!WrittenTicksKept

(* A stream that is known is open and carries what its connection says,    *)
(* while two requests overlap as they may; while requests do not overlap,  *)
(* no stream carries a symbol without a subscription, and what is streamed *)
(* is flushed.  LiveFeedsProofs has the same for any owners and calls, and *)
(* for any symbols, deployments and rows of one owner.                     *)
THEOREM FeedsFollowRequests == MCSpec => []FeedsAreRight
<1>1. MarketDataInv => FeedsAreRight
  <2>1. CASE part = "one by one"
    <3>1. Single!FeedsInv /\ Single!StreamsInv("o1", "c1") => Single!StreamedIsFlushed /\ Single!StreamsFollowSubscriptions
      BY FeedsConstants, Single!StreamsAreRight
    <3> QED
      BY <2>1, <3>1, OneByOneIsSingle DEF MarketDataInv, FeedsInv, FeedsAreRight, Single!FeedsInv
  <2>2. CASE part # "one by one"
    BY <2>2, OverlappingIsShared DEF MarketDataInv, FeedsInv, FeedsAreRight, Shared!FeedsInv
  <2> QED
    BY <2>1, <2>2
<1> QED
  BY <1>1, MarketDataAlways, PTL DEF MCSpec

(* The downloads, feeds and bars keep their types.                         *)
THEOREM MarketDataTypes == MCSpec => []MCTypeOK
<1>1. MarketDataInv => MCTypeOK
  <2>1. MarketDataInv => TypeOK /\ Bars!TypeOK
    BY DEF MarketDataInv, DownloadsInv, BarsInv
  <2>2. MarketDataInv => IF part = "one by one" THEN OneByOne!TypeOK ELSE Overlapping!TypeOK
    BY OneByOneIsSingle, OverlappingIsShared DEF MarketDataInv, FeedsInv, Single!FeedsInv, Shared!FeedsInv
  <2> QED
    BY <2>1, <2>2 DEF MCTypeOK
<1> QED
  BY <1>1, MarketDataAlways, PTL DEF MCSpec

=============================================================================
