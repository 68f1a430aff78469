-------------------------- MODULE LiveFeedsProofs ---------------------------
(***************************************************************************)
(* Proofs about LiveFeeds: for any owners, symbols, rows and overlapping   *)
(* calls, that a known stream is open; for one owner and calls that do not *)
(* overlap, that streams follow the subscriptions and are flushed.         *)
(***************************************************************************)
EXTENDS LiveFeeds, FiniteSetTheorems, TLAPS

(* What a call in progress has picked; a call of start() resumes a row that *)
(* is there.                                                                *)
CallInv ==
  \A c \in Calls : call[c] # Idle =>
    /\ call[c].op # "idle" /\ call[c].pc # "idle"
    /\ call[c].owner \in Owners /\ call[c].sym \in Symbols
    /\ call[c].pc = "insert" => call[c].who \in Consumers
    /\ call[c].pc = "insert" /\ call[c].op = "prestart" => call[c].who \in Instances
    /\ call[c].pc = "stopping" => call[c].key \in Keys
    /\ call[c].pc = "restart" => call[c].conn \in Conns /\ call[c].old \in Handles
    /\ call[c].op = "boot" => call[c].row = None /\ call[c].pc \in {"start", "open", "restart", "mark"}

BootInv ==
  /\ phase \in {"down", "stopping", "stopped"} => \A c \in Calls : call[c] = Idle
  /\ phase = "booting" => /\ \A c \in Calls : call[c] = Idle \/ call[c].op = "boot"
                          /\ \A r \in todo : row[r] # None

(* The handle that a restart is about to close is of its own owner, and no *)
(* connection but its own has it.                                          *)
RestartInv ==
  \A c \in Calls : call[c].pc = "restart" =>
    LET x == call[c].conn  h == call[c].old IN
    /\ x # None
    /\ handle[h] # None => handle[h].owner = call[c].owner
    /\ \A o \in Owners : streams[o] = x => o = call[c].owner
    /\ \A o \in Owners : streams[o] # None /\ conn[streams[o]].handle = h => streams[o] = x

FeedsInv == TypeOK /\ CallInv /\ BootInv /\ RestartInv /\ TrackedStreamOpen

-----------------------------------------------------------------------------
LEMMA NoneIsNew ==
  ASSUME ConstantsAssumption
  PROVE  /\ None \notin Owners /\ None \notin Symbols /\ None \notin Instances /\ None \notin Calls
         /\ None \notin Rows /\ None \notin Conns /\ None \notin Handles /\ None \notin Tasks
         /\ BrokerOf \in [Owners -> Brokers] /\ Surgical \subseteq Owners /\ Providers \subseteq Owners
         /\ AccountOf \in [Instances -> Owners] /\ AssetOf \in [Instances -> Symbols]
         /\ IsFiniteSet(Rows) /\ None \notin Sub /\ None \notin Task /\ None \notin Handle
BY DEF ConstantsAssumption

(* An identity that is made is one that is free. *)
LEMMA FreshIsFree ==
  /\ FreeConns # {} => Fresh(FreeConns) \in FreeConns
  /\ FreeHandles # {} => Fresh(FreeHandles) \in FreeHandles
  /\ FreeTasks # {} => Fresh(FreeTasks) \in FreeTasks
  /\ FreeRows # {} => Fresh(FreeRows) \in FreeRows
BY DEF Fresh

LEMMA SecondPart ==
  ASSUME NEW S, NEW s \in Seq(S), NEW t \in Seq(S), NEW m \in 1..Len(t)
  PROVE  (s \o t)[Len(s) + m] = t[m]
OBVIOUS

Occurs(s, k) == \E j \in DOMAIN s : s[j] = k

(* The states keep their type when the one of a key is taken out. *)
LEMMA StateRemoved ==
  ASSUME NEW S, NEW s \in Seq(S), IsInjective(s), NEW i \in DOMAIN s
  PROVE  /\ RemoveAt(s, i) \in Seq(S) /\ IsInjective(RemoveAt(s, i))
         /\ \A k : Occurs(RemoveAt(s, i), k) <=> Occurs(s, k) /\ k # s[i]
<1> DEFINE r == RemoveAt(s, i)
<1>1. i \in 1..Len(s) /\ Len(s) \in Nat /\ DOMAIN s = 1..Len(s)
  OBVIOUS
<1>2. /\ r \in Seq(S) /\ Len(r) = Len(s) - 1 /\ DOMAIN r = 1..(Len(s) - 1)
      /\ \A j \in 1..(Len(s) - 1) : r[j] = IF j < i THEN s[j] ELSE s[j + 1]
  <2>1. SubSeq(s, 1, i - 1) \in Seq(S) /\ SubSeq(s, i + 1, Len(s)) \in Seq(S)
    BY <1>1
  <2>2. Len(SubSeq(s, 1, i - 1)) = i - 1 /\ Len(SubSeq(s, i + 1, Len(s))) = Len(s) - i
    BY <1>1
  <2>3. r \in Seq(S) /\ Len(r) = Len(s) - 1
    BY SMTT(30), <1>1, <2>1, <2>2 DEF RemoveAt
  <2>4. ASSUME NEW j \in 1..(Len(s) - 1) PROVE r[j] = IF j < i THEN s[j] ELSE s[j + 1]
    <3>1. CASE j < i
      <4>1. j \in 1..Len(SubSeq(s, 1, i - 1)) /\ SubSeq(s, 1, i - 1)[j] = s[j]
        BY <1>1, <2>2, <3>1
      <4> QED
        BY <2>1, <3>1, <4>1 DEF RemoveAt
    <3>2. CASE ~(j < i)
      <4> DEFINE t == SubSeq(s, i + 1, Len(s))  l == j - (i - 1)
      <4>1. l \in 1..(Len(s) - i) /\ (i - 1) + l = j /\ l + i = j + 1 /\ i - 1 \in Nat
        BY <1>1, <3>2
      <4>2. \A m \in 1..(Len(s) - i) : t[m] = s[m + i]
        BY <1>1
      <4>3. \A m \in 1..Len(t) : (SubSeq(s, 1, i - 1) \o t)[(i - 1) + m] = t[m]
        <5> HIDE DEF t
        <5> SUFFICES ASSUME NEW m \in 1..Len(t) PROVE (SubSeq(s, 1, i - 1) \o t)[(i - 1) + m] = t[m]
          OBVIOUS
        <5>1. (SubSeq(s, 1, i - 1) \o t)[Len(SubSeq(s, 1, i - 1)) + m] = t[m]
          BY <2>1, SecondPart DEF t
        <5> QED
          BY <2>2, <5>1
      <4> HIDE DEF l
      <4>4. r[j] = t[l]
        BY <2>2, <4>1, <4>3 DEF RemoveAt
      <4> QED
        BY <3>2, <4>1, <4>2, <4>4
    <3> QED
      BY <3>1, <3>2
  <2> QED
    BY <2>3, <2>4, <1>1
<1>3. IsInjective(r)
  <2> SUFFICES ASSUME NEW a \in 1..(Len(s) - 1), NEW b \in 1..(Len(s) - 1), r[a] = r[b] PROVE a = b
    BY <1>2 DEF IsInjective
  <2>1. \A j \in 1..Len(s), k \in 1..Len(s) : s[j] = s[k] => j = k
    BY <1>1 DEF IsInjective
  <2> QED
    BY <1>1, <1>2, <2>1
<1>4. ASSUME NEW k PROVE (\E j \in DOMAIN r : r[j] = k) <=> (\E j \in DOMAIN s : s[j] = k) /\ k # s[i]
  <2>1. ASSUME NEW j \in 1..(Len(s) - 1), r[j] = k PROVE (\E l \in DOMAIN s : s[l] = k) /\ k # s[i]
    <3>1. PICK l \in 1..Len(s) : l # i /\ s[l] = k
      BY <1>1, <1>2, <2>1
    <3> QED
      BY <1>1, <3>1 DEF IsInjective
  <2>2. ASSUME NEW j \in 1..Len(s), s[j] = k, k # s[i] PROVE \E l \in DOMAIN r : r[l] = k
    <3>1. CASE j < i
      BY <1>1, <1>2, <2>2, <3>1
    <3>2. CASE j > i
      <4>1. j - 1 \in 1..(Len(s) - 1) /\ r[j - 1] = s[j]
        BY <1>1, <1>2, <3>2
      <4> QED
        BY <1>2, <2>2, <4>1
    <3> QED
      BY <1>1, <2>2, <3>1, <3>2
  <2> QED
    BY <1>1, <1>2, <2>1, <2>2
<1>5. \A k : Occurs(r, k) <=> Occurs(s, k) /\ k # s[i]
  <2> HIDE DEF r
  <2> QED
    BY <1>4 DEF Occurs
<1> HIDE DEF r
<1> QED
  BY <1>2, <1>3, <1>5 DEF r

-----------------------------------------------------------------------------
(* A step of one call that leaves the streams alone and closes no handle.  *)
LEMMA CallMoves ==
  ASSUME ConstantsAssumption, TypeOK, CallInv, NEW c \in Calls, NEW k \in Call,
         call' = [call EXCEPT ![c] = k],
         k # Idle => /\ k.op # "idle" /\ k.pc # "idle" /\ k.owner \in Owners /\ k.sym \in Symbols
                     /\ k.pc = "insert" => k.who \in Consumers
                     /\ k.pc = "insert" /\ k.op = "prestart" => k.who \in Instances
                     /\ k.pc = "stopping" => k.key \in Keys
                     /\ k.pc = "restart" => k.conn \in Conns /\ k.old \in Handles
                     /\ k.op = "boot" => k.row = None /\ k.pc \in {"start", "open", "restart", "mark"}
  PROVE  /\ call' \in [Calls -> Call] /\ CallInv' /\ call'[c] = k
         /\ \A d \in Calls : d # c => call'[d] = call[d]
BY DEF TypeOK, CallInv

LEMMA StreamsStay ==
  ASSUME RestartInv, TrackedStreamOpen, UNCHANGED <<streams, conn, handle>>, NEW c \in Calls,
         call'[c].pc # "restart", \A d \in Calls : d # c => call'[d] = call[d]
  PROVE  RestartInv' /\ TrackedStreamOpen'
BY DEF RestartInv, TrackedStreamOpen

LEMMA IdleType == Idle \in Call /\ Idle.pc = "idle" /\ Idle.op = "idle" /\ Idle.row = None
BY DEF Idle, Call

(* A call that begins: when the process is up, for a call that was idle.   *)
LEMMA BeginsKeeps ==
  ASSUME ConstantsAssumption, FeedsInv, NEW c \in Calls, NEW k \in Call, phase = "up", call[c] = Idle,
         call' = [call EXCEPT ![c] = k], UNCHANGED <<phase, todo>>, UNCHANGED agg,
         k.op \notin {"idle", "boot"}, k.pc \in {"insert", "stop"}, k.owner \in Owners, k.sym \in Symbols,
         k.pc = "insert" => k.who \in Consumers,
         k.pc = "insert" /\ k.op = "prestart" => k.who \in Instances
  PROVE  /\ call' \in [Calls -> Call] /\ CallInv' /\ BootInv' /\ RestartInv' /\ TrackedStreamOpen'
<1>1. /\ call' \in [Calls -> Call] /\ CallInv' /\ call'[c] = k
      /\ \A d \in Calls : d # c => call'[d] = call[d]
  BY CallMoves DEF FeedsInv
<1>2. RestartInv' /\ TrackedStreamOpen'
  BY <1>1, StreamsStay DEF FeedsInv, agg
<1> QED
  BY <1>1, <1>2 DEF BootInv

LEMMA CreateKeeps ==
  ASSUME ConstantsAssumption, FeedsInv, NEW c \in Calls, CreateSub(c)
  PROVE  FeedsInv'
<1>1. PICK o \in Owners, s \in Symbols : Begins(c, "create", "insert", o, s, "manual")
  BY DEF CreateSub
<1> DEFINE k == [Idle EXCEPT !.op = "create", !.pc = "insert", !.owner = o, !.sym = s, !.who = "manual"]
<1>2. /\ k \in Call /\ k.op = "create" /\ k.pc = "insert" /\ k.owner \in Owners /\ k.sym \in Symbols
      /\ k.who \in Consumers
  BY DEF Idle, Call, Consumers
<1>3. phase = "up" /\ call[c] = Idle /\ call' = [call EXCEPT ![c] = k]
  BY <1>1 DEF Begins
<1>4. UNCHANGED <<row, lock, running, phase, todo>> /\ UNCHANGED agg
  BY DEF CreateSub
<1> HIDE DEF k
<1>5. call' \in [Calls -> Call] /\ CallInv' /\ BootInv' /\ RestartInv' /\ TrackedStreamOpen'
  BY <1>2, <1>3, <1>4, BeginsKeeps
<1> QED
  BY <1>4, <1>5 DEF FeedsInv, TypeOK, agg

LEMMA PreStartKeeps ==
  ASSUME ConstantsAssumption, FeedsInv, NEW c \in Calls, PreStartChecks(c)
  PROVE  FeedsInv'
<1>1. PICK i \in Instances \ running :
        LET rs == RowsOf(AccountOf[i], AssetOf[i]) IN
        /\ phase = "up" /\ call[c] = Idle
        /\ call' = [call EXCEPT ![c] = [Idle EXCEPT !.op = "prestart", !.pc = "insert", !.owner = AccountOf[i],
                     !.sym = AssetOf[i], !.who = i, !.row = IF rs = {} THEN None ELSE Fresh(rs)]]
  BY DEF PreStartChecks
<1> DEFINE rs == RowsOf(AccountOf[i], AssetOf[i])
           k == [Idle EXCEPT !.op = "prestart", !.pc = "insert", !.owner = AccountOf[i],
                     !.sym = AssetOf[i], !.who = i, !.row = IF rs = {} THEN None ELSE Fresh(rs)]
<1>2. (IF rs = {} THEN None ELSE Fresh(rs)) \in Rows \cup {None}
  BY DEF Fresh, RowsOf
<1>3. AccountOf[i] \in Owners /\ AssetOf[i] \in Symbols
  BY NoneIsNew
<1> HIDE DEF rs
<1>4. /\ k \in Call /\ k.op = "prestart" /\ k.pc = "insert" /\ k.owner \in Owners /\ k.sym \in Symbols
      /\ k.who \in Consumers /\ k.who \in Instances
  BY <1>2, <1>3 DEF Idle, Call, Consumers
<1>5. phase = "up" /\ call[c] = Idle /\ call' = [call EXCEPT ![c] = k]
  BY <1>1 DEF rs
<1>6. UNCHANGED <<row, lock, running, phase, todo>> /\ UNCHANGED agg
  BY DEF PreStartChecks
<1> HIDE DEF k
<1>7. call' \in [Calls -> Call] /\ CallInv' /\ BootInv' /\ RestartInv' /\ TrackedStreamOpen'
  BY <1>4, <1>5, <1>6, BeginsKeeps
<1> QED
  BY <1>6, <1>7 DEF FeedsInv, TypeOK, agg

(* A call of a request or of a deployment is under way only when the       *)
(* process has started.                                                    *)
LEMMA RequestsWait ==
  ASSUME FeedsInv, NEW c \in Calls, call[c].pc # "idle", call[c].op # "boot"
  PROVE  phase \notin {"down", "booting", "stopping", "stopped"} /\ call[c] # Idle
BY IdleType DEF FeedsInv, BootInv

LEMMA InsertKeeps ==
  ASSUME ConstantsAssumption, FeedsInv, NEW c \in Calls, InsertConsumer(c)
  PROVE  FeedsInv'
<1> DEFINE k == [call[c] EXCEPT !.pc = "start", !.row = None, !.who = None]
<1>1. call[c] \in Call /\ call[c].pc = "insert" /\ call[c] # Idle
  BY IdleType DEF InsertConsumer, FeedsInv, TypeOK
<1>2. /\ call[c].op \notin {"idle", "boot"} /\ call[c].owner \in Owners /\ call[c].sym \in Symbols
      /\ call[c].who \in Consumers /\ (call[c].op = "prestart" => call[c].who \in Instances)
  BY <1>1 DEF FeedsInv, CallInv
<1>3. k \in Call /\ k.op = call[c].op /\ k.pc = "start" /\ k.owner \in Owners /\ k.sym \in Symbols
  BY <1>1, <1>2 DEF Call
<1>4. /\ call' = [call EXCEPT ![c] = k] /\ UNCHANGED <<lock, phase, todo>> /\ UNCHANGED agg
  BY DEF InsertConsumer
<1> HIDE DEF k
<1>5. /\ call' \in [Calls -> Call] /\ CallInv' /\ call'[c] = k
      /\ \A d \in Calls : d # c => call'[d] = call[d]
  BY <1>2, <1>3, <1>4, CallMoves DEF FeedsInv
<1>6. RestartInv' /\ TrackedStreamOpen'
  BY <1>3, <1>4, <1>5, StreamsStay DEF FeedsInv, agg
<1>7. BootInv'
  BY <1>1, <1>2, <1>4, RequestsWait DEF BootInv
<1>8. row' \in [Rows -> Sub \cup {None}]
  <2>1. CASE /\ call[c].row = None /\ FreeRows # {}
             /\ row' = [row EXCEPT ![Fresh(FreeRows)] = [owner |-> call[c].owner, sym |-> call[c].sym,
                                         consumers |-> {call[c].who}, status |-> "running"]]
    BY <1>2, <2>1 DEF FeedsInv, TypeOK, Sub
  <2>2. CASE /\ call[c].row # None
             /\ row' = IF row[call[c].row] = None THEN row
                       ELSE [row EXCEPT ![call[c].row].consumers = @ \cup {call[c].who}]
    <3>1. CASE row[call[c].row] = None
      BY <2>2, <3>1 DEF FeedsInv, TypeOK
    <3>2. CASE row[call[c].row] # None
      <4>1. call[c].row \in Rows /\ row \in [Rows -> Sub \cup {None}]
        BY <1>1, <2>2 DEF Call, FeedsInv, TypeOK
      <4>2. row[call[c].row] \in Sub
        BY <3>2, <4>1
      <4>3. [row[call[c].row] EXCEPT !.consumers = @ \cup {call[c].who}] \in Sub
        BY <1>2, <4>2 DEF Sub
      <4> QED
        BY <2>2, <3>2, <4>1, <4>3
    <3> QED
      BY <3>1, <3>2
  <2> QED
    BY <2>1, <2>2 DEF InsertConsumer
<1>9. running' \subseteq Instances
  BY <1>2 DEF InsertConsumer, FeedsInv, TypeOK
<1> QED
  BY <1>4, <1>5, <1>6, <1>7, <1>8, <1>9 DEF FeedsInv, TypeOK, agg

(* The row of a symbol that is the only one of its owner. *)
LEMMA OnlyRow ==
  ASSUME ConstantsAssumption, NEW o, NEW s, Cardinality(RowsOf(o, s)) = 1
  PROVE  Fresh(RowsOf(o, s)) \in RowsOf(o, s)
<1>1. IsFiniteSet(RowsOf(o, s))
  <2>1. RowsOf(o, s) \subseteq Rows
    BY DEF RowsOf
  <2> QED
    BY <2>1, NoneIsNew, FS_Subset
<1>2. RowsOf(o, s) # {}
  BY <1>1, FS_EmptySet
<1> QED
  BY <1>2 DEF Fresh

LEMMA PostStopKeeps ==
  ASSUME ConstantsAssumption, FeedsInv, NEW c \in Calls, PostStopActions(c)
  PROVE  FeedsInv'
<1>1. PICK i \in running :
       LET rs == RowsOf(AccountOf[i], AssetOf[i])  left == row[Fresh(rs)].consumers \ {i} IN
       /\ running' = running \ {i}
       /\ IF Cardinality(rs) = 1
          THEN /\ row' = [row EXCEPT ![Fresh(rs)] = IF left = {} THEN None ELSE [@ EXCEPT !.consumers = left]]
               /\ IF left = {} THEN Begins(c, "poststop", "stop", AccountOf[i], AssetOf[i], i)
                               ELSE phase = "up" /\ call[c] = Idle /\ UNCHANGED call
          ELSE phase = "up" /\ call[c] = Idle /\ UNCHANGED <<row, call>>
  BY DEF PostStopActions
<1> DEFINE o == AccountOf[i]  s == AssetOf[i]  rs == RowsOf(o, s)
           left == row[Fresh(rs)].consumers \ {i}
           k == [Idle EXCEPT !.op = "poststop", !.pc = "stop", !.owner = o, !.sym = s, !.who = i]
<1>2. i \in Instances /\ o \in Owners /\ s \in Symbols /\ running' \subseteq Instances
  BY <1>1, NoneIsNew DEF FeedsInv, TypeOK
<1>3. UNCHANGED <<lock, phase, todo>> /\ UNCHANGED agg /\ phase = "up" /\ call[c] = Idle
  BY <1>1 DEF PostStopActions, Begins
<1>4. row' \in [Rows -> Sub \cup {None}]
  <2>1. CASE Cardinality(rs) = 1
    <3>1. Fresh(rs) \in RowsOf(o, s)
      BY <2>1, OnlyRow
    <3> HIDE DEF rs
    <3>2. Fresh(rs) \in Rows /\ row \in [Rows -> Sub \cup {None}] /\ row[Fresh(rs)] \in Sub
      BY <3>1 DEF RowsOf, FeedsInv, TypeOK
    <3>3. [row[Fresh(rs)] EXCEPT !.consumers = left] \in Sub
      BY <3>2 DEF Sub
    <3>4. row' = [row EXCEPT ![Fresh(rs)] = IF left = {} THEN None ELSE [@ EXCEPT !.consumers = left]]
      BY <1>1, <2>1 DEF rs
    <3> HIDE DEF left
    <3> QED
      BY <3>2, <3>3, <3>4
  <2>2. CASE Cardinality(rs) # 1
    BY <1>1, <2>2 DEF FeedsInv, TypeOK
  <2> QED
    BY <2>1, <2>2
<1>5. call' \in [Calls -> Call] /\ CallInv' /\ BootInv' /\ RestartInv' /\ TrackedStreamOpen'
  <2>1. CASE UNCHANGED call
    BY <1>3, <2>1 DEF FeedsInv, TypeOK, CallInv, BootInv, RestartInv, TrackedStreamOpen, agg
  <2>2. CASE Begins(c, "poststop", "stop", o, s, i)
    <3>1. k \in Call /\ k.op = "poststop" /\ k.pc = "stop" /\ k.owner \in Owners /\ k.sym \in Symbols
      BY <1>2 DEF Idle, Call, Consumers
    <3>2. call' = [call EXCEPT ![c] = k]
      BY <2>2 DEF Begins
    <3> HIDE DEF k
    <3> QED
      BY <1>3, <3>1, <3>2, BeginsKeeps
  <2> QED
    BY <1>1, <2>1, <2>2
<1> QED
  BY <1>2, <1>3, <1>4, <1>5 DEF FeedsInv, TypeOK, agg

LEMMA UnsubscribeKeeps ==
  ASSUME ConstantsAssumption, FeedsInv, NEW c \in Calls, Unsubscribe(c)
  PROVE  FeedsInv'
<1>1. PICK r \in Rows :
       /\ row[r] # None /\ phase = "up" /\ call[c] = Idle
       /\ IF row[r].consumers \subseteq {"manual"}
          THEN /\ call' = [call EXCEPT ![c] = [Idle EXCEPT !.op = "unsubscribe", !.pc = "stop",
                             !.owner = row[r].owner, !.sym = row[r].sym, !.row = r]]
               /\ lock' = c /\ UNCHANGED row
          ELSE /\ row' = [row EXCEPT ![r].consumers = @ \ {"manual"}]
               /\ UNCHANGED <<call, lock>>
  BY DEF Unsubscribe
<1>2. UNCHANGED <<running, phase, todo>> /\ UNCHANGED agg
  BY DEF Unsubscribe
<1>3. row[r] \in Sub /\ row[r].owner \in Owners /\ row[r].sym \in Symbols /\ row \in [Rows -> Sub \cup {None}]
  BY <1>1 DEF FeedsInv, TypeOK, Sub
<1>4. CASE /\ row' = [row EXCEPT ![r].consumers = @ \ {"manual"}] /\ UNCHANGED <<call, lock>>
  <2>1. [row[r] EXCEPT !.consumers = @ \ {"manual"}] \in Sub
    BY <1>3 DEF Sub
  <2>2. row' \in [Rows -> Sub \cup {None}]
    BY <1>3, <1>4, <2>1
  <2> QED
    BY <1>1, <1>2, <1>4, <2>2
       DEF FeedsInv, TypeOK, CallInv, BootInv, RestartInv, TrackedStreamOpen, agg
<1>5. ASSUME UNCHANGED row, lock' = c,
             call' = [call EXCEPT ![c] = [Idle EXCEPT !.op = "unsubscribe", !.pc = "stop",
                             !.owner = row[r].owner, !.sym = row[r].sym, !.row = r]]
      PROVE  FeedsInv'
  <2> DEFINE k == [Idle EXCEPT !.op = "unsubscribe", !.pc = "stop",
                             !.owner = row[r].owner, !.sym = row[r].sym, !.row = r]
  <2>1. k \in Call /\ k.op = "unsubscribe" /\ k.pc = "stop" /\ k.owner \in Owners /\ k.sym \in Symbols
    BY <1>3 DEF Idle, Call
  <2>2. call' = [call EXCEPT ![c] = k]
    BY <1>5
  <2> HIDE DEF k
  <2>3. call' \in [Calls -> Call] /\ CallInv' /\ BootInv' /\ RestartInv' /\ TrackedStreamOpen'
    BY <1>1, <1>2, <2>1, <2>2, BeginsKeeps
  <2> QED
    BY <1>2, <1>5, <2>3 DEF FeedsInv, TypeOK, agg
<1> QED
  BY <1>1, <1>4, <1>5

-----------------------------------------------------------------------------
(* Starting a stream. *)
LEMMA StreamOf ==
  ASSUME ConstantsAssumption, TypeOK, TrackedStreamOpen, NEW o \in Owners, streams[o] # None
  PROVE  LET x == streams[o]  h == conn[x].handle IN
         /\ x \in Conns /\ conn[x] \in Connection /\ h \in Handles
         /\ handle[h] \in Handle /\ handle[h].owner = o /\ conn[x].syms \subseteq handle[h].syms
<1>1. streams[o] \in Conns /\ conn[streams[o]] \in Connection
  BY DEF TypeOK, Connection
<1>2. conn[streams[o]].handle \in Handles
  BY <1>1 DEF TrackedStreamOpen, Connection
<1> QED
  BY <1>1, <1>2 DEF TrackedStreamOpen, TypeOK, Handle

LEMMA KeyType == ConstantsAssumption => \A o \in Owners, s \in Symbols : Key(o, s) \in Keys
BY DEF ConstantsAssumption, Key, Keys

LEMMA NewTaskType ==
  ASSUME ConstantsAssumption, TypeOK, NEW k \in Keys, NewTask(k)
  PROVE  /\ task' \in [Tasks -> Task \cup {None}] /\ tracked' \in [Keys -> Tasks \cup {None}]
         /\ \E t \in FreeTasks : /\ task' = [task EXCEPT ![t] = [key |-> k, pc |-> "new", own |-> FALSE]]
                                 /\ tracked' = [tracked EXCEPT ![k] = t]
<1>1. Fresh(FreeTasks) \in FreeTasks
  BY FreshIsFree DEF NewTask
<1>2. Fresh(FreeTasks) \in Tasks
  BY <1>1 DEF FreeTasks
<1>3. [key |-> k, pc |-> "new", own |-> FALSE] \in Task
  BY DEF Task
<1> QED
  BY <1>1, <1>2, <1>3 DEF NewTask, TypeOK, Task

(* A call that goes on to another step, or that ends. *)
LEMMA NextKeeps ==
  ASSUME ConstantsAssumption, FeedsInv, NEW c \in Calls, call[c].pc # "idle", NEW pc,
         pc \in {"start", "open", "mark", "stop"}, call[c].op = "boot" => pc # "stop",
         call' = [call EXCEPT ![c].pc = pc]
  PROVE  /\ call' \in [Calls -> Call] /\ CallInv' /\ call'[c] = [call[c] EXCEPT !.pc = pc]
         /\ \A d \in Calls : d # c => call'[d] = call[d]
<1> DEFINE k == [call[c] EXCEPT !.pc = pc]
<1>1. call[c] \in Call /\ call[c] # Idle
  BY IdleType DEF FeedsInv, TypeOK
<1>2. /\ call[c].op # "idle" /\ call[c].owner \in Owners /\ call[c].sym \in Symbols
      /\ call[c].op = "boot" => call[c].row = None
  BY <1>1 DEF FeedsInv, CallInv
<1>3. /\ k \in Call /\ k.op = call[c].op /\ k.pc = pc /\ k.owner = call[c].owner /\ k.sym = call[c].sym
      /\ k.row = call[c].row
  BY <1>1 DEF Call
<1>4. call' = [call EXCEPT ![c] = k]
  OBVIOUS
<1> HIDE DEF k
<1>5. /\ call' \in [Calls -> Call] /\ CallInv' /\ call'[c] = k
      /\ \A d \in Calls : d # c => call'[d] = call[d]
  BY ZenonT(40), <1>2, <1>3, <1>4, CallMoves DEF FeedsInv
<1> QED
  BY <1>5 DEF k

LEMMA EndKeeps ==
  ASSUME ConstantsAssumption, FeedsInv, NEW c \in Calls, Ends(c)
  PROVE  /\ call' \in [Calls -> Call] /\ CallInv' /\ call'[c] = Idle
         /\ \A d \in Calls : d # c => call'[d] = call[d]
BY CallMoves, IdleType DEF FeedsInv, Ends

(* While it boots, only the calls of start() go on. *)
LEMMA BootKeeps ==
  ASSUME FeedsInv, NEW c \in Calls, call[c].pc # "idle", \A d \in Calls : d # c => call'[d] = call[d],
         call'[c] = Idle \/ call'[c].op = call[c].op, todo' = todo, phase' \in {phase, "failed"},
         \A r \in Rows : row[r] # None => row'[r] # None \/ phase # "booting"
  PROVE  BootInv'
BY IdleType DEF FeedsInv, BootInv, TypeOK

LEMMA StartKeeps ==
  ASSUME ConstantsAssumption, FeedsInv, NEW c \in Calls, StartSubscription(c)
  PROVE  FeedsInv'
<1> DEFINE o == call[c].owner  s == call[c].sym  x == streams[o]
<1>1. /\ call[c].pc = "start" /\ call[c] \in Call /\ call[c] # Idle /\ o \in Owners /\ s \in Symbols
      /\ Key(o, s) \in Keys
  BY IdleType, KeyType DEF StartSubscription, FeedsInv, TypeOK, CallInv
<1>2. UNCHANGED <<row, lock, running, todo, streams>>
  BY DEF StartSubscription
<1>3. states' \in Seq(Keys) /\ IsInjective(states')
  <2>1. states \in Seq(Keys) /\ IsInjective(states)
    BY DEF FeedsInv, TypeOK
  <2>2. CASE Here(Key(o, s))
    BY <2>1, <2>2 DEF StartSubscription
  <2>3. CASE ~Here(Key(o, s))
    <3>1. states' = Append(states, Key(o, s))
      BY <2>3 DEF StartSubscription
    <3>2. states' \in Seq(Keys) /\ Len(states') = Len(states) + 1
      BY <1>1, <2>1, <3>1
    <3>3. \A i \in 1..Len(states') : states'[i] = IF i = Len(states) + 1 THEN Key(o, s) ELSE states[i]
      BY <1>1, <2>1, <3>1
    <3>4. \A i \in 1..Len(states) : states[i] # Key(o, s)
      BY <2>1, <2>3 DEF Here
    <3>5. ASSUME NEW i \in 1..Len(states'), NEW j \in 1..Len(states'), states'[i] = states'[j] PROVE i = j
      <4>1. \A m \in 1..Len(states), n \in 1..Len(states) : states[m] = states[n] => m = n
        BY <2>1 DEF IsInjective
      <4> QED
        BY <2>1, <3>2, <3>3, <3>4, <3>5, <4>1
    <3> QED
      BY <3>2, <3>5 DEF IsInjective
  <2> QED
    BY <2>2, <2>3
<1>4. /\ task' \in [Tasks -> Task \cup {None}] /\ tracked' \in [Keys -> Tasks \cup {None}]
  <2>1. UNCHANGED <<task, tracked>> \/ NewTask(Key(o, s))
    BY DEF StartSubscription, JoinTask
  <2> QED
    BY <1>1, <2>1, NewTaskType DEF FeedsInv, TypeOK, Task
<1>5. CASE Goes(c, "open") /\ UNCHANGED <<tracked, task, conn, handle, phase>>
  <2>1. /\ call' \in [Calls -> Call] /\ CallInv' /\ call'[c] = [call[c] EXCEPT !.pc = "open"]
        /\ \A d \in Calls : d # c => call'[d] = call[d]
    BY <1>1, <1>5, NextKeeps DEF Goes
  <2>2. call'[c].pc = "open" /\ call'[c].op = call[c].op
    BY <1>1, <2>1 DEF Call
  <2>3. BootInv' /\ RestartInv' /\ TrackedStreamOpen'
    BY <1>1, <1>2, <1>5, <2>1, <2>2, BootKeeps, StreamsStay DEF FeedsInv
  <2> QED
    BY <1>2, <1>3, <1>4, <1>5, <2>1, <2>3 DEF FeedsInv, TypeOK, Task
<1>6. CASE Raises(c) /\ UNCHANGED <<tracked, task, conn, handle>>
  <2>1. /\ call' \in [Calls -> Call] /\ CallInv' /\ call'[c] = Idle
        /\ \A d \in Calls : d # c => call'[d] = call[d]
    BY <1>6, EndKeeps DEF Raises
  <2>2. BootInv' /\ RestartInv' /\ TrackedStreamOpen'
    BY <1>1, <1>2, <1>6, <2>1, BootKeeps, StreamsStay, IdleType DEF FeedsInv, Raises
  <2>3. phase' \in {phase, "failed"}
    BY <1>6 DEF Raises
  <2> QED
    BY <1>2, <1>3, <1>4, <1>6, <2>1, <2>2, <2>3 DEF FeedsInv, TypeOK, Task
<1>7. CASE /\ x # None
           /\ call' = [call EXCEPT ![c].pc = "restart", ![c].conn = x, ![c].old = conn[x].handle]
           /\ UNCHANGED <<tracked, task, conn, handle, phase>>
  <2> DEFINE k == [call[c] EXCEPT !.pc = "restart", !.conn = x, !.old = conn[x].handle]
  <2>1. x \in Conns /\ conn[x].handle \in Handles /\ handle[conn[x].handle].owner = o
    BY <1>1, <1>7, StreamOf DEF FeedsInv
  <2>2. /\ k \in Call /\ k.pc = "restart" /\ k.op = call[c].op /\ k.owner = o /\ k.sym = s /\ k.row = call[c].row
        /\ k.conn = x /\ k.old = conn[x].handle
    BY <1>1, <2>1 DEF Call
  <2>3. call' = [call EXCEPT ![c] = k]
    BY <1>7
  <2> HIDE DEF k
  <2>4. /\ call' \in [Calls -> Call] /\ CallInv' /\ call'[c] = k
        /\ \A d \in Calls : d # c => call'[d] = call[d]
    <3>1. call[c].op # "idle" /\ (call[c].op = "boot" => call[c].row = None)
      BY <1>1 DEF FeedsInv, CallInv
    <3> QED
      BY <1>1, <2>1, <2>2, <2>3, <3>1, CallMoves DEF FeedsInv
  <2>5. BootInv'
    BY <1>1, <1>2, <1>7, <2>2, <2>4, BootKeeps
  <2>6. TrackedStreamOpen'
    BY <1>2, <1>7 DEF FeedsInv, TrackedStreamOpen
  <2>7. RestartInv'
    <3>1. \A p \in Owners : streams[p] # None => handle[conn[streams[p]].handle].owner = p
      BY DEF FeedsInv, TrackedStreamOpen
    <3>2. \A p \in Owners : streams[p] # None /\ conn[streams[p]].handle = conn[x].handle => p = o
      BY <1>1, <1>7, <2>1, <3>1
    <3>3. \A p \in Owners : streams[p] = x => p = o
      BY <1>7, <3>2
    <3>4. ASSUME NEW d \in Calls, call'[d].pc = "restart"
          PROVE  LET y == call'[d].conn  h == call'[d].old IN
                 /\ y # None
                 /\ handle[h] # None => handle[h].owner = call'[d].owner
                 /\ \A p \in Owners : streams[p] = y => p = call'[d].owner
                 /\ \A p \in Owners : streams[p] # None /\ conn[streams[p]].handle = h => streams[p] = y
      <4>1. CASE d = c
        BY ZenonT(40), <1>7, <2>1, <2>2, <2>4, <3>2, <3>3, <4>1
      <4>2. CASE d # c
        BY <2>4, <3>4, <4>2 DEF FeedsInv, RestartInv
      <4> QED
        BY <4>1, <4>2
    <3> QED
      BY <1>2, <1>7, <3>4 DEF RestartInv
  <2> QED
    BY <1>2, <1>3, <1>4, <1>7, <2>4, <2>5, <2>6, <2>7 DEF FeedsInv, TypeOK, Task
<1>8. CASE /\ x # None /\ conn' = [conn EXCEPT ![x].syms = @ \cup {s}]
           /\ handle' = [handle EXCEPT ![conn[x].handle].syms = @ \cup {s}]
           /\ Goes(c, "mark") /\ UNCHANGED phase
  <2> DEFINE g == conn[x].handle
  <2>1. /\ x \in Conns /\ conn[x] \in Connection /\ g \in Handles
        /\ handle[g] \in Handle /\ handle[g].owner = o /\ conn[x].syms \subseteq handle[g].syms
    BY <1>1, <1>8, StreamOf DEF FeedsInv
  <2>2. /\ call' \in [Calls -> Call] /\ CallInv' /\ call'[c] = [call[c] EXCEPT !.pc = "mark"]
        /\ \A d \in Calls : d # c => call'[d] = call[d]
    BY <1>1, <1>8, NextKeeps DEF Goes
  <2>3. call'[c].pc = "mark" /\ call'[c].op = call[c].op
    BY <1>1, <2>2 DEF Call
  <2>4. BootInv'
    BY <1>1, <1>2, <1>8, <2>2, <2>3, BootKeeps
  <2>5. /\ conn' \in [Conns -> Connection] /\ handle' \in [Handles -> Handle \cup {None}]
        /\ \A y \in Conns : /\ conn'[y].handle = conn[y].handle
                            /\ conn'[y].syms = IF y = x THEN conn[y].syms \cup {s} ELSE conn[y].syms
        /\ \A h \in Handles : /\ handle'[h] = None <=> handle[h] = None
                              /\ handle'[h].owner = handle[h].owner
                              /\ handle'[h].syms = IF h = g THEN handle[h].syms \cup {s} ELSE handle[h].syms
    <3>1. conn \in [Conns -> Connection] /\ handle \in [Handles -> Handle \cup {None}]
      BY DEF FeedsInv, TypeOK, Connection, Handle
    <3>2. conn' = [conn EXCEPT ![x] = [conn[x] EXCEPT !.syms = @ \cup {s}]]
      BY <1>8
    <3>3. handle' = [handle EXCEPT ![g] = [handle[g] EXCEPT !.syms = @ \cup {s}]]
      BY <1>8
    <3>4. /\ [conn[x] EXCEPT !.syms = @ \cup {s}] \in Connection
          /\ [conn[x] EXCEPT !.syms = @ \cup {s}].handle = conn[x].handle
          /\ [conn[x] EXCEPT !.syms = @ \cup {s}].syms = conn[x].syms \cup {s}
      BY <1>1, <2>1 DEF Connection
    <3>5. /\ [handle[g] EXCEPT !.syms = @ \cup {s}] \in Handle
          /\ [handle[g] EXCEPT !.syms = @ \cup {s}].owner = handle[g].owner
          /\ [handle[g] EXCEPT !.syms = @ \cup {s}].syms = handle[g].syms \cup {s}
      BY <1>1, <2>1 DEF Handle
    <3>6. handle[g] # None /\ handle'[g] # None
      BY <2>1, <3>1, <3>3, <3>5, NoneIsNew
    <3> HIDE DEF g
    <3> QED
      BY <2>1, <3>1, <3>2, <3>3, <3>4, <3>5, <3>6
  <2>6. TrackedStreamOpen'
    <3> SUFFICES ASSUME NEW p \in Owners, streams[p] # None
                 PROVE  LET z == conn'[streams[p]] IN
                        /\ z.handle # None /\ handle'[z.handle] # None
                        /\ handle'[z.handle].owner = p /\ z.syms \subseteq handle'[z.handle].syms
      BY <1>2 DEF TrackedStreamOpen
    <3> DEFINE y == streams[p]  h == conn[y].handle
    <3>1. /\ y \in Conns /\ h \in Handles /\ handle[h] # None
          /\ handle[h].owner = p /\ conn[y].syms \subseteq handle[h].syms
      BY StreamOf, NoneIsNew DEF FeedsInv
    <3>2. y = x => h = g
      OBVIOUS
    <3> HIDE DEF y, h, g
    <3>3. conn'[y].handle = conn[y].handle /\ handle'[h] # None /\ handle'[h].owner = p
      BY <2>5, <3>1
    <3>4. conn'[y].syms \subseteq handle'[h].syms
      BY <2>5, <3>1, <3>2
    <3>5. conn'[y].handle = h /\ h # None
      BY <3>1, <3>3, NoneIsNew DEF h
    <3> QED
      BY <3>3, <3>4, <3>5 DEF y
  <2>7. RestartInv'
    <3> SUFFICES ASSUME NEW d \in Calls, call'[d].pc = "restart"
                 PROVE  LET z == call'[d].conn  f == call'[d].old IN
                        /\ z # None
                        /\ handle'[f] # None => handle'[f].owner = call'[d].owner
                        /\ \A p \in Owners : streams[p] = z => p = call'[d].owner
                        /\ \A p \in Owners : streams[p] # None /\ conn'[streams[p]].handle = f => streams[p] = z
      BY <1>2 DEF RestartInv
    <3>1. call'[d] = call[d] /\ call[d].pc = "restart" /\ call[d].old \in Handles
      BY <2>2, <2>3, IdleType DEF FeedsInv, CallInv
    <3>2. \A p \in Owners : streams[p] # None => conn'[streams[p]].handle = conn[streams[p]].handle
      BY <2>5, StreamOf DEF FeedsInv
    <3>3. /\ handle'[call[d].old] # None => handle[call[d].old] # None
          /\ handle'[call[d].old].owner = handle[call[d].old].owner
      BY <2>5, <3>1
    <3> QED
      BY <3>1, <3>2, <3>3 DEF FeedsInv, RestartInv
  <2> QED
    BY <1>2, <1>3, <1>4, <1>8, <2>2, <2>4, <2>5, <2>6, <2>7
       DEF FeedsInv, TypeOK, Task, Connection, Handle
<1> QED
  BY <1>5, <1>6, <1>7, <1>8 DEF StartSubscription

(* Writing the status of rows changes neither what they subscribe nor who  *)
(* consumes them.                                                          *)
LEMMA StatusWritten ==
  ASSUME ConstantsAssumption, row \in [Rows -> Sub \cup {None}], NEW o, NEW s,
         NEW v \in {"running", "error"},
         row' = [r \in Rows |-> IF r \in Matching(o, s) THEN [row[r] EXCEPT !.status = v] ELSE row[r]]
  PROVE  /\ row' \in [Rows -> Sub \cup {None}]
         /\ \A r \in Rows : /\ row'[r] = None <=> row[r] = None
                            /\ row[r] # None => /\ row'[r].owner = row[r].owner
                                                /\ row'[r].sym = row[r].sym
         /\ \A p, q : RowsOf(p, q)' = RowsOf(p, q)
<1>1. ASSUME NEW r \in Rows, r \in Matching(o, s)
      PROVE  /\ row[r] \in Sub /\ row'[r] \in Sub /\ row'[r].owner = row[r].owner /\ row'[r].sym = row[r].sym
  <2>1. row[r] \in Sub
    BY <1>1 DEF Matching, RowsOf
  <2> QED
    BY <1>1, <2>1 DEF Sub
<1>2. /\ row' \in [Rows -> Sub \cup {None}]
      /\ \A r \in Rows : /\ row'[r] = None <=> row[r] = None
                         /\ row[r] # None => row'[r].owner = row[r].owner /\ row'[r].sym = row[r].sym
  BY <1>1, NoneIsNew
<1>3. \A p, q : RowsOf(p, q)' = RowsOf(p, q)
  BY <1>2 DEF RowsOf
<1> QED
  BY <1>2, <1>3

LEMMA OpenKeeps ==
  ASSUME ConstantsAssumption, FeedsInv, NEW c \in Calls, OpenStream(c)
  PROVE  FeedsInv'
<1> DEFINE o == call[c].owner  s == call[c].sym
<1>1. /\ call[c].pc = "open" /\ call[c] \in Call /\ call[c] # Idle /\ o \in Owners /\ s \in Symbols
      /\ Key(o, s) \in Keys
  BY IdleType, KeyType DEF OpenStream, FeedsInv, TypeOK, CallInv
<1>2. UNCHANGED <<lock, running, phase, todo, states>>
  BY DEF OpenStream
<1>3. /\ task' \in [Tasks -> Task \cup {None}] /\ tracked' \in [Keys -> Tasks \cup {None}]
  BY <1>1, NewTaskType DEF OpenStream, FeedsInv
<1>4. /\ call' \in [Calls -> Call] /\ CallInv' /\ call'[c] = [call[c] EXCEPT !.pc = "mark"]
      /\ \A d \in Calls : d # c => call'[d] = call[d]
  BY <1>1, NextKeeps DEF Goes, OpenStream
<1>5. call'[c].pc = "mark" /\ call'[c].op = call[c].op
  BY <1>1, <1>4 DEF Call
<1>6. /\ row' \in [Rows -> Sub \cup {None}] /\ \A r \in Rows : row'[r] = None <=> row[r] = None
  <2>1. row \in [Rows -> Sub \cup {None}]
    BY DEF FeedsInv, TypeOK
  <2>2. \/ UNCHANGED row
        \/ row' = [r \in Rows |-> IF r \in Matching(o, s) THEN [row[r] EXCEPT !.status = "error"] ELSE row[r]]
    BY DEF OpenStream
  <2> QED
    BY <2>1, <2>2, StatusWritten
<1>7. BootInv'
  BY <1>1, <1>2, <1>4, <1>5, <1>6, BootKeeps
<1>8. /\ streams' \in [Owners -> Conns \cup {None}]
      /\ conn' \in [Conns -> Connection] /\ handle' \in [Handles -> Handle \cup {None}]
      /\ RestartInv' /\ TrackedStreamOpen'
  <2>1. CASE UNCHANGED <<streams, conn, handle>>
    BY <1>4, <1>5, <2>1, StreamsStay DEF FeedsInv, TypeOK
  <2>2. ASSUME FreeConns # {}, FreeHandles # {},
               LET x == Fresh(FreeConns)  h == Fresh(FreeHandles) IN
               /\ handle' = [handle EXCEPT ![h] = [owner |-> o, syms |-> {s}]]
               /\ conn' = [conn EXCEPT ![x] = [syms |-> {s}, handle |-> h]]
               /\ streams' = [streams EXCEPT ![o] = x]
        PROVE  /\ streams' \in [Owners -> Conns \cup {None}]
               /\ conn' \in [Conns -> Connection] /\ handle' \in [Handles -> Handle \cup {None}]
               /\ RestartInv' /\ TrackedStreamOpen'
    <3>1. PICK x \in FreeConns, h \in FreeHandles :
               /\ handle' = [handle EXCEPT ![h] = [owner |-> o, syms |-> {s}]]
               /\ conn' = [conn EXCEPT ![x] = [syms |-> {s}, handle |-> h]]
               /\ streams' = [streams EXCEPT ![o] = x]
      BY <2>2, FreshIsFree
    <3>2. /\ x \in Conns /\ (\A p \in Owners : streams[p] # x) /\ (\A d \in Calls : call[d].conn # x)
          /\ h \in Handles /\ handle[h] = None /\ (\A d \in Calls : call[d].old # h)
      BY DEF FreeConns, FreeHandles
    <3>3. [owner |-> o, syms |-> {s}] \in Handle /\ [syms |-> {s}, handle |-> h] \in Connection
      BY <1>1, <3>2 DEF Handle, Connection
    <3>4. /\ streams' \in [Owners -> Conns \cup {None}]
          /\ conn' \in [Conns -> Connection] /\ handle' \in [Handles -> Handle \cup {None}]
          /\ streams'[o] = x /\ \A p \in Owners : p # o => streams'[p] = streams[p]
          /\ conn'[x] = [syms |-> {s}, handle |-> h] /\ \A y \in Conns : y # x => conn'[y] = conn[y]
          /\ handle'[h] = [owner |-> o, syms |-> {s}] /\ \A g \in Handles : g # h => handle'[g] = handle[g]
      BY <1>1, <3>1, <3>2, <3>3 DEF FeedsInv, TypeOK
    <3>5. TrackedStreamOpen'
      <4> SUFFICES ASSUME NEW p \in Owners, streams'[p] # None
                   PROVE  LET z == conn'[streams'[p]] IN
                          /\ z.handle # None /\ handle'[z.handle] # None
                          /\ handle'[z.handle].owner = p /\ z.syms \subseteq handle'[z.handle].syms
        BY DEF TrackedStreamOpen
      <4>1. CASE p = o
        <5>1. handle'[h] # None /\ h # None
          BY <3>2, <3>3, <3>4, NoneIsNew
        <5>2. handle'[h].owner = o /\ handle'[h].syms = {s} /\ conn'[x].handle = h /\ conn'[x].syms = {s}
          BY <3>4
        <5>3. streams'[p] = x
          BY <3>4, <4>1
        <5> HIDE DEF o, s
        <5> QED
          BY <4>1, <5>1, <5>2, <5>3
      <4>2. CASE p # o
        <5>1. streams'[p] = streams[p] /\ streams[p] # None /\ streams[p] # x
          BY <3>2, <3>4, <4>2
        <5>2. LET y == streams[p]  g == conn[y].handle IN
              /\ y \in Conns /\ g \in Handles /\ handle[g] # None
              /\ handle[g].owner = p /\ conn[y].syms \subseteq handle[g].syms
          BY <5>1, StreamOf, NoneIsNew DEF FeedsInv
        <5>3. conn'[streams[p]] = conn[streams[p]] /\ conn[streams[p]].handle # h
          BY <3>2, <3>4, <5>1, <5>2
        <5> QED
          BY <3>4, <5>1, <5>2, <5>3, NoneIsNew
      <4> QED
        BY <4>1, <4>2
    <3>6. RestartInv'
      <4> SUFFICES ASSUME NEW d \in Calls, call'[d].pc = "restart"
                   PROVE  LET z == call'[d].conn  f == call'[d].old IN
                          /\ z # None
                          /\ handle'[f] # None => handle'[f].owner = call'[d].owner
                          /\ \A p \in Owners : streams'[p] = z => p = call'[d].owner
                          /\ \A p \in Owners : streams'[p] # None /\ conn'[streams'[p]].handle = f
                               => streams'[p] = z
        BY DEF RestartInv
      <4>1. call'[d] = call[d] /\ call[d].pc = "restart" /\ call[d].old \in Handles /\ call[d].conn \in Conns
        BY <1>4, <1>5, IdleType DEF FeedsInv, CallInv
      <4>2. call[d].conn # x /\ call[d].old # h /\ handle'[call[d].old] = handle[call[d].old]
        BY <3>2, <3>4, <4>1
      <4>3. /\ handle[call[d].old] # None => handle[call[d].old].owner = call[d].owner
            /\ \A p \in Owners : streams[p] = call[d].conn => p = call[d].owner
            /\ \A p \in Owners : streams[p] # None /\ conn[streams[p]].handle = call[d].old
                               => streams[p] = call[d].conn
        BY <4>1 DEF FeedsInv, RestartInv
      <4>4. \A p \in Owners : p # o /\ streams[p] # None => conn'[streams[p]] = conn[streams[p]]
        BY <3>2, <3>4, StreamOf DEF FeedsInv
      <4>5. conn'[x].handle = h
        BY <3>4
      <4> QED
        BY <1>1, <3>4, <4>1, <4>2, <4>3, <4>4, <4>5, NoneIsNew
    <3> QED
      BY <3>4, <3>5, <3>6
  <2> QED
    BY <2>1, <2>2 DEF OpenStream
<1> QED
  BY <1>2, <1>3, <1>4, <1>6, <1>7, <1>8 DEF FeedsInv, TypeOK

LEMMA RestartKeeps ==
  ASSUME ConstantsAssumption, FeedsInv, NEW c \in Calls, RestartStream(c)
  PROVE  FeedsInv'
<1> DEFINE o == call[c].owner  s == call[c].sym  x == call[c].conn  g == call[c].old
           syms == conn[x].syms \cup {s}
<1>1. /\ call[c].pc = "restart" /\ call[c] \in Call /\ call[c] # Idle /\ o \in Owners /\ s \in Symbols
      /\ Key(o, s) \in Keys /\ x \in Conns /\ g \in Handles /\ syms \in SUBSET Symbols
      /\ call[c].op # "idle" /\ (call[c].op = "boot" => call[c].row = None)
  <2>1. call[c].pc = "restart" /\ call[c] \in Call /\ call[c] # Idle
    BY IdleType DEF RestartStream, FeedsInv, TypeOK
  <2>2. o \in Owners /\ s \in Symbols /\ x \in Conns /\ g \in Handles
    BY <2>1 DEF FeedsInv, CallInv
  <2>3. call[c].op # "idle" /\ (call[c].op = "boot" => call[c].row = None)
    BY <2>1 DEF FeedsInv, CallInv
  <2>4. syms \in SUBSET Symbols
    BY <2>2 DEF FeedsInv, TypeOK, Connection
  <2> QED
    BY <2>1, <2>2, <2>3, <2>4, KeyType
<1> HIDE DEF syms
<1>2. UNCHANGED <<row, lock, running, phase, todo, states, streams>>
  BY DEF RestartStream
<1>3. CASE Ends(c) /\ UNCHANGED <<conn, handle, tracked, task>>
  <2>1. /\ call' \in [Calls -> Call] /\ CallInv' /\ call'[c] = Idle
        /\ \A d \in Calls : d # c => call'[d] = call[d]
    BY <1>3, EndKeeps
  <2>2. BootInv' /\ RestartInv' /\ TrackedStreamOpen'
    BY <1>1, <1>2, <1>3, <2>1, BootKeeps, StreamsStay, IdleType DEF FeedsInv
  <2> QED
    BY <1>2, <1>3, <2>1, <2>2 DEF FeedsInv, TypeOK
<1>4. ASSUME FreeHandles # {},
             LET h == Fresh(FreeHandles) IN
             /\ handle' = [handle EXCEPT ![h] = [owner |-> o, syms |-> syms], ![g] = None]
             /\ conn' = Rehandled(x, syms, h),
             NewTask(Key(o, s)),
             call' = [call EXCEPT ![c].pc = "mark", ![c].conn = None, ![c].old = None]
      PROVE  FeedsInv'
  <2>1. PICK h \in FreeHandles :
             /\ handle' = [handle EXCEPT ![h] = [owner |-> o, syms |-> syms], ![g] = None]
             /\ conn' = [conn EXCEPT ![x] = [syms |-> syms, handle |-> h]]
    BY <1>4, FreshIsFree DEF Rehandled
  <2>2. h \in Handles /\ handle[h] = None /\ (\A d \in Calls : call[d].old # h)
    BY DEF FreeHandles
  <2>3. [owner |-> o, syms |-> syms] \in Handle /\ [syms |-> syms, handle |-> h] \in Connection
    BY <1>1, <2>2 DEF Handle, Connection
  <2>4. h # g
    BY <2>2
  <2>5. /\ conn' \in [Conns -> Connection] /\ handle' \in [Handles -> Handle \cup {None}]
        /\ conn'[x] = [syms |-> syms, handle |-> h] /\ \A y \in Conns : y # x => conn'[y] = conn[y]
        /\ handle'[h] = [owner |-> o, syms |-> syms] /\ handle'[g] = None
        /\ \A f \in Handles : f # h /\ f # g => handle'[f] = handle[f]
    BY <1>1, <2>1, <2>2, <2>3, <2>4 DEF FeedsInv, TypeOK
  <2>6. /\ task' \in [Tasks -> Task \cup {None}] /\ tracked' \in [Keys -> Tasks \cup {None}]
    BY <1>1, <1>4, NewTaskType DEF FeedsInv
  <2> DEFINE k == [call[c] EXCEPT !.pc = "mark", !.conn = None, !.old = None]
  <2>7. k \in Call /\ k.pc = "mark" /\ k.op = call[c].op /\ k.owner = o /\ k.sym = s /\ k.row = call[c].row
    BY <1>1 DEF Call
  <2>8. call' = [call EXCEPT ![c] = k]
    BY <1>4
  <2> HIDE DEF k
  <2>9. /\ call' \in [Calls -> Call] /\ CallInv' /\ call'[c] = k
        /\ \A d \in Calls : d # c => call'[d] = call[d]
    BY <1>1, <2>7, <2>8, CallMoves DEF FeedsInv
  <2>10. BootInv'
    BY <1>1, <1>2, <2>7, <2>9, BootKeeps
  <2>11. /\ handle[g] # None => handle[g].owner = o
         /\ \A p \in Owners : streams[p] = x => p = o
         /\ \A p \in Owners : streams[p] # None /\ conn[streams[p]].handle = g => streams[p] = x
    BY <1>1 DEF FeedsInv, RestartInv
  <2>12. TrackedStreamOpen'
    <3> SUFFICES ASSUME NEW p \in Owners, streams[p] # None
                 PROVE  LET z == conn'[streams[p]] IN
                        /\ z.handle # None /\ handle'[z.handle] # None
                        /\ handle'[z.handle].owner = p /\ z.syms \subseteq handle'[z.handle].syms
      BY <1>2 DEF TrackedStreamOpen
    <3>1. LET y == streams[p]  f == conn[y].handle IN
          /\ y \in Conns /\ f \in Handles /\ handle[f] # None
          /\ handle[f].owner = p /\ conn[y].syms \subseteq handle[f].syms
      BY StreamOf, NoneIsNew DEF FeedsInv
    <3>2. CASE streams[p] = x
      <4>1. handle'[h] # None /\ h # None
        BY <2>2, <2>3, <2>5, NoneIsNew
      <4>2. handle'[h].owner = o /\ handle'[h].syms = syms /\ conn'[x].handle = h /\ conn'[x].syms = syms
        BY <2>5
      <4>3. p = o
        BY <2>11, <3>2
      <4> HIDE DEF o, x
      <4> QED
        BY <3>2, <4>1, <4>2, <4>3
    <3>3. CASE streams[p] # x
      <4>1. conn'[streams[p]] = conn[streams[p]]
        BY <2>5, <3>1, <3>3
      <4>2. conn[streams[p]].handle # g /\ conn[streams[p]].handle # h
        BY <2>2, <2>11, <3>1, <3>3
      <4>3. handle'[conn[streams[p]].handle] = handle[conn[streams[p]].handle]
        BY <2>5, <3>1, <4>2
      <4> QED
        BY <3>1, <4>1, <4>3, NoneIsNew
    <3> QED
      BY <3>2, <3>3
  <2>13. RestartInv'
    <3> SUFFICES ASSUME NEW d \in Calls, call'[d].pc = "restart"
                 PROVE  LET z == call'[d].conn  f == call'[d].old IN
                        /\ z # None
                        /\ handle'[f] # None => handle'[f].owner = call'[d].owner
                        /\ \A p \in Owners : streams[p] = z => p = call'[d].owner
                        /\ \A p \in Owners : streams[p] # None /\ conn'[streams[p]].handle = f => streams[p] = z
      BY <1>2 DEF RestartInv
    <3>1. call'[d] = call[d] /\ call[d].pc = "restart" /\ call[d].old \in Handles /\ call[d].conn \in Conns
      BY <2>7, <2>9, IdleType DEF FeedsInv, CallInv
    <3>2. /\ handle[call[d].old] # None => handle[call[d].old].owner = call[d].owner
          /\ \A p \in Owners : streams[p] = call[d].conn => p = call[d].owner
          /\ \A p \in Owners : streams[p] # None /\ conn[streams[p]].handle = call[d].old
                             => streams[p] = call[d].conn
      BY <3>1 DEF FeedsInv, RestartInv
    <3>3. call[d].old # h /\ handle'[call[d].old] \in {None, handle[call[d].old]}
      BY <2>2, <2>5, <3>1
    <3>4. \A p \in Owners : streams[p] # None =>
            \/ conn'[streams[p]] = conn[streams[p]]
            \/ conn'[streams[p]].handle = h
      BY <2>5, StreamOf DEF FeedsInv
    <3> QED
      BY <3>1, <3>2, <3>3, <3>4, NoneIsNew
  <2> QED
    BY <1>2, <2>5, <2>6, <2>9, <2>10, <2>12, <2>13 DEF FeedsInv, TypeOK
<1> QED
  BY <1>3, <1>4 DEF RestartStream, syms

LEMMA MarkKeeps ==
  ASSUME ConstantsAssumption, FeedsInv, NEW c \in Calls, MarkRunning(c)
  PROVE  FeedsInv'
<1>1. call[c].pc = "mark" /\ Ends(c) /\ phase' \in {phase, "failed"}
  BY DEF MarkRunning, Raises
<1>2. UNCHANGED <<lock, running, todo>> /\ UNCHANGED agg
  BY DEF MarkRunning
<1>3. /\ row' \in [Rows -> Sub \cup {None}] /\ \A r \in Rows : row'[r] = None <=> row[r] = None
  <2>1. row \in [Rows -> Sub \cup {None}]
    BY DEF FeedsInv, TypeOK
  <2>2. \/ UNCHANGED row
        \/ row' = [r \in Rows |-> IF r \in Matching(call[c].owner, call[c].sym)
                                  THEN [row[r] EXCEPT !.status = "running"] ELSE row[r]]
    BY DEF MarkRunning
  <2> QED
    BY <2>1, <2>2, StatusWritten
<1>4. /\ call' \in [Calls -> Call] /\ CallInv' /\ call'[c] = Idle
      /\ \A d \in Calls : d # c => call'[d] = call[d]
  BY <1>1, EndKeeps
<1>5. BootInv' /\ RestartInv' /\ TrackedStreamOpen'
  BY <1>1, <1>2, <1>3, <1>4, BootKeeps, StreamsStay, IdleType DEF FeedsInv, agg
<1> QED
  BY <1>1, <1>2, <1>3, <1>4, <1>5 DEF FeedsInv, TypeOK, agg

-----------------------------------------------------------------------------
(* Stopping a stream. *)
LEMMA FinishKeeps ==
  ASSUME ConstantsAssumption, FeedsInv, NEW c \in Calls, call[c].pc # "idle", FinishRequest(c),
         UNCHANGED <<running, phase, todo>>
  PROVE  /\ call' \in [Calls -> Call] /\ CallInv' /\ call'[c] = Idle
         /\ \A d \in Calls : d # c => call'[d] = call[d]
         /\ row' \in [Rows -> Sub \cup {None}] /\ lock' \in Calls \cup {None} /\ BootInv'
<1>1. /\ call' \in [Calls -> Call] /\ CallInv' /\ call'[c] = Idle
      /\ \A d \in Calls : d # c => call'[d] = call[d]
  BY EndKeeps DEF FinishRequest
<1>2. row' \in [Rows -> Sub \cup {None}] /\ lock' \in Calls \cup {None}
  BY DEF FinishRequest, FeedsInv, TypeOK
<1>3. call[c].row # None => phase \notin {"down", "booting"}
  BY RequestsWait, IdleType DEF FeedsInv, CallInv
<1>4. BootInv'
  BY <1>1, <1>3, BootKeeps DEF FinishRequest
<1> QED
  BY <1>1, <1>2, <1>4

LEMMA StopKeeps ==
  ASSUME ConstantsAssumption, FeedsInv, NEW c \in Calls, StopSubscription(c)
  PROVE  FeedsInv'
<1>1. /\ call[c].pc = "stop" /\ call[c] \in Call /\ call[c] # Idle
      /\ UNCHANGED <<running, phase, todo, states, streams, conn, handle>>
  BY IdleType DEF StopSubscription, FeedsInv, TypeOK
<1>2. CASE FinishRequest(c) /\ UNCHANGED <<task, tracked>>
  <2>1. /\ call' \in [Calls -> Call] /\ CallInv' /\ call'[c] = Idle
        /\ \A d \in Calls : d # c => call'[d] = call[d]
        /\ row' \in [Rows -> Sub \cup {None}] /\ lock' \in Calls \cup {None} /\ BootInv'
    BY <1>1, <1>2, FinishKeeps
  <2>2. RestartInv' /\ TrackedStreamOpen'
    BY <1>1, <2>1, StreamsStay, IdleType DEF FeedsInv
  <2> QED
    BY <1>1, <1>2, <2>1, <2>2 DEF FeedsInv, TypeOK
<1>3. ASSUME NEW i \in FirstOf(call[c].sym),
             call' = [call EXCEPT ![c].pc = "stopping", ![c].key = states[i]],
             tracked' = [tracked EXCEPT ![states[i]] = None],
             task' = IF tracked[states[i]] = None THEN task ELSE [task EXCEPT ![tracked[states[i]]] = None],
             UNCHANGED <<row, lock>>
      PROVE  FeedsInv'
  <2> DEFINE q == states[i]  k == [call[c] EXCEPT !.pc = "stopping", !.key = q]
  <2>1. q \in Keys
    BY DEF FirstOf, FeedsInv, TypeOK
  <2>2. /\ call[c].owner \in Owners /\ call[c].sym \in Symbols /\ call[c].op \notin {"idle", "boot"}
    BY <1>1 DEF FeedsInv, CallInv
  <2>3. /\ tracked' \in [Keys -> Tasks \cup {None}] /\ task' \in [Tasks -> Task \cup {None}]
    BY <1>3 DEF FeedsInv, TypeOK
  <2>4. k \in Call /\ k.pc = "stopping" /\ k.op = call[c].op /\ k.owner = call[c].owner /\ k.sym = call[c].sym
        /\ k.key = q
    BY <1>1, <2>1 DEF Call
  <2>5. call' = [call EXCEPT ![c] = k]
    BY <1>3
  <2> HIDE DEF k
  <2>6. /\ call' \in [Calls -> Call] /\ CallInv' /\ call'[c] = k
        /\ \A d \in Calls : d # c => call'[d] = call[d]
    BY <2>1, <2>2, <2>4, <2>5, CallMoves DEF FeedsInv
  <2>7. BootInv' /\ RestartInv' /\ TrackedStreamOpen'
    BY <1>1, <1>3, <2>4, <2>6, BootKeeps, StreamsStay DEF FeedsInv
  <2> QED
    BY <1>1, <1>3, <2>3, <2>6, <2>7 DEF FeedsInv, TypeOK
<1> QED
  BY <1>2, <1>3 DEF StopSubscription

(* A symbol leaves a stream: the handle is closed with its last symbol.    *)
LEMMA LeavesStream ==
  ASSUME ConstantsAssumption, TypeOK, TrackedStreamOpen, NEW p \in Owners, streams[p] # None, NEW s,
         LeaveStream(p, s)
  PROVE  LET x == streams[p]  g == conn[x].handle IN
         /\ streams' \in [Owners -> Conns \cup {None}]
         /\ conn' \in [Conns -> Connection] /\ handle' \in [Handles -> Handle \cup {None}]
         /\ \A q \in Owners : q # p => streams'[q] = streams[q]
         /\ streams'[p] \in {None, x}
         /\ conn'[x].handle = g /\ conn'[x].syms = conn[x].syms \ {s}
         /\ \A y \in Conns : y # x => conn'[y] = conn[y]
         /\ \A f \in Handles : f # g => handle'[f] = handle[f]
         /\ \/ streams'[p] = None /\ handle'[g] = None
            \/ /\ streams'[p] = x /\ handle'[g] # None /\ handle'[g].owner = p
               /\ conn'[x].syms \subseteq handle'[g].syms
               /\ p \in Surgical => handle'[g].syms = handle[g].syms \ {s}
<1> DEFINE x == streams[p]  g == conn[x].handle  left == conn[x].syms \ {s}
<1>1. /\ x \in Conns /\ conn[x] \in Connection /\ g \in Handles
      /\ handle[g] \in Handle /\ handle[g].owner = p /\ conn[x].syms \subseteq handle[g].syms /\ handle[g] # None
  BY StreamOf, NoneIsNew
<1>2. conn' = [conn EXCEPT ![x] = [conn[x] EXCEPT !.syms = left]]
  BY DEF LeaveStream
<1>3. /\ [conn[x] EXCEPT !.syms = left] \in Connection /\ [conn[x] EXCEPT !.syms = left].handle = g
      /\ [conn[x] EXCEPT !.syms = left].syms = left
  BY <1>1 DEF Connection
<1>4. /\ conn' \in [Conns -> Connection]
      /\ conn'[x].handle = g /\ conn'[x].syms = left /\ \A y \in Conns : y # x => conn'[y] = conn[y]
  BY <1>1, <1>2, <1>3 DEF TypeOK
<1>5. CASE p \notin Surgical
  BY <1>1, <1>4, <1>5 DEF LeaveStream, TypeOK
<1>6. CASE p \in Surgical /\ left = {}
  <2>1. handle' = [handle EXCEPT ![g] = None] /\ streams' = [streams EXCEPT ![p] = None]
    BY <1>6 DEF LeaveStream
  <2>2. handle \in [Handles -> Handle \cup {None}] /\ streams \in [Owners -> Conns \cup {None}]
    BY DEF TypeOK
  <2> HIDE DEF x, g
  <2>3. /\ handle' \in [Handles -> Handle \cup {None}] /\ handle'[g] = None
        /\ \A f \in Handles : f # g => handle'[f] = handle[f]
    BY <1>1, <2>1, <2>2
  <2>4. /\ streams' \in [Owners -> Conns \cup {None}] /\ streams'[p] = None
        /\ \A q \in Owners : q # p => streams'[q] = streams[q]
    BY <2>1, <2>2
  <2> QED
    BY <1>4, <2>3, <2>4 DEF x, g
<1>7. CASE p \in Surgical /\ left # {}
  <2>1. handle' = [handle EXCEPT ![g] = [handle[g] EXCEPT !.syms = @ \ {s}]] /\ UNCHANGED streams
    BY <1>7 DEF LeaveStream, NotCarried
  <2>2. /\ [handle[g] EXCEPT !.syms = @ \ {s}] \in Handle /\ [handle[g] EXCEPT !.syms = @ \ {s}].owner = p
        /\ [handle[g] EXCEPT !.syms = @ \ {s}].syms = handle[g].syms \ {s}
    BY <1>1 DEF Handle
  <2>3. /\ handle' \in [Handles -> Handle \cup {None}] /\ handle'[g] \in Handle
        /\ handle'[g].owner = p /\ handle'[g].syms = handle[g].syms \ {s}
        /\ \A f \in Handles : f # g => handle'[f] = handle[f]
    BY <1>1, <2>1, <2>2 DEF TypeOK
  <2>4. left \subseteq handle'[g].syms /\ handle'[g] # None
    BY <1>1, <2>3, NoneIsNew
  <2> QED
    BY <1>1, <1>4, <2>1, <2>3, <2>4 DEF TypeOK
<1> QED
  BY <1>5, <1>6, <1>7

LEMMA FinishStopKeeps ==
  ASSUME ConstantsAssumption, FeedsInv, NEW c \in Calls, FinishStop(c)
  PROVE  FeedsInv'
<1> DEFINE o == call[c].owner  s == call[c].sym  k == call[c].key
<1>1. /\ call[c].pc = "stopping" /\ call[c] \in Call /\ call[c] # Idle /\ o \in Owners /\ s \in Symbols
      /\ k \in Keys /\ UNCHANGED <<running, phase, todo, tracked>>
  BY IdleType DEF FinishStop, FeedsInv, TypeOK, CallInv
<1>2. states' \in Seq(Keys) /\ IsInjective(states')
  <2>1. states \in Seq(Keys) /\ IsInjective(states)
    BY DEF FeedsInv, TypeOK
  <2>2. CASE Here(k)
    <3>1. (CHOOSE i \in DOMAIN states : states[i] = k) \in DOMAIN states
      BY <2>2 DEF Here
    <3> QED
      BY <2>1, <2>2, <3>1, StateRemoved DEF FinishStop
  <2>3. CASE ~Here(k)
    BY <2>1, <2>3 DEF FinishStop
  <2> QED
    BY <2>2, <2>3
<1>3. task' \in [Tasks -> Task \cup {None}]
  <2>1. task' = Disown(k) /\ task \in [Tasks -> Task \cup {None}]
    BY DEF FinishStop, FeedsInv, TypeOK
  <2>2. \A t \in Tasks : task[t] # None => [task[t] EXCEPT !.own = FALSE] \in Task
    BY <2>1 DEF Task
  <2> QED
    BY <2>1, <2>2 DEF Disown
<1>4. /\ call' \in [Calls -> Call] /\ CallInv' /\ call'[c] = Idle
      /\ \A d \in Calls : d # c => call'[d] = call[d]
      /\ row' \in [Rows -> Sub \cup {None}] /\ lock' \in Calls \cup {None} /\ BootInv'
  BY <1>1, FinishKeeps DEF FinishStop
<1>5. /\ streams' \in [Owners -> Conns \cup {None}]
      /\ conn' \in [Conns -> Connection] /\ handle' \in [Handles -> Handle \cup {None}]
      /\ RestartInv' /\ TrackedStreamOpen'
  <2>1. CASE UNCHANGED <<streams, conn, handle>>
    BY <1>4, <2>1, StreamsStay, IdleType DEF FeedsInv, TypeOK
  <2>2. ASSUME NEW p \in Carrying(o, s), LeaveStream(p, s)
        PROVE  /\ streams' \in [Owners -> Conns \cup {None}]
               /\ conn' \in [Conns -> Connection] /\ handle' \in [Handles -> Handle \cup {None}]
               /\ RestartInv' /\ TrackedStreamOpen'
    <3> DEFINE x == streams[p]  g == conn[x].handle
    <3>1. p \in Owners /\ x # None
      BY <1>1, NoneIsNew DEF Carrying, Carried
    <3>2. /\ streams' \in [Owners -> Conns \cup {None}]
          /\ conn' \in [Conns -> Connection] /\ handle' \in [Handles -> Handle \cup {None}]
          /\ \A q \in Owners : q # p => streams'[q] = streams[q]
          /\ streams'[p] \in {None, x}
          /\ conn'[x].handle = g /\ \A y \in Conns : y # x => conn'[y] = conn[y]
          /\ \A f \in Handles : f # g => handle'[f] = handle[f]
          /\ \/ streams'[p] = None /\ handle'[g] = None
             \/ /\ streams'[p] = x /\ handle'[g] # None /\ handle'[g].owner = p
                /\ conn'[x].syms \subseteq handle'[g].syms
      BY <2>2, <3>1, LeavesStream DEF FeedsInv
    <3>3. \A q \in Owners : streams[q] # None =>
            LET y == streams[q]  f == conn[y].handle IN
            /\ y \in Conns /\ f \in Handles /\ f # None /\ handle[f] # None
            /\ handle[f].owner = q /\ conn[y].syms \subseteq handle[f].syms
      BY StreamOf, NoneIsNew DEF FeedsInv
    <3>4. \A q \in Owners : q # p /\ streams[q] # None =>
             /\ conn[streams[q]].handle # g /\ streams[q] # x
      BY <3>1, <3>3
    <3> HIDE DEF x, g
    <3>5. TrackedStreamOpen'
      <4> SUFFICES ASSUME NEW q \in Owners, streams'[q] # None
                   PROVE  LET z == conn'[streams'[q]] IN
                          /\ z.handle # None /\ handle'[z.handle] # None
                          /\ handle'[z.handle].owner = q /\ z.syms \subseteq handle'[z.handle].syms
        BY DEF TrackedStreamOpen
      <4>1. CASE q = p
        BY <3>1, <3>2, <3>3, <4>1 DEF g, x
      <4>2. CASE q # p
        BY <3>2, <3>3, <3>4, <4>2
      <4> QED
        BY <4>1, <4>2
    <3>6. RestartInv'
      <4> SUFFICES ASSUME NEW d \in Calls, call'[d].pc = "restart"
                   PROVE  LET z == call'[d].conn  f == call'[d].old IN
                          /\ z # None
                          /\ handle'[f] # None => handle'[f].owner = call'[d].owner
                          /\ \A q \in Owners : streams'[q] = z => q = call'[d].owner
                          /\ \A q \in Owners : streams'[q] # None /\ conn'[streams'[q]].handle = f
                               => streams'[q] = z
        BY DEF RestartInv
      <4>1. call'[d] = call[d] /\ call[d].pc = "restart" /\ call[d].old \in Handles /\ call[d].conn \in Conns
        BY <1>4, IdleType DEF FeedsInv, CallInv
      <4>2. /\ call[d].conn # None
            /\ handle[call[d].old] # None => handle[call[d].old].owner = call[d].owner
            /\ \A q \in Owners : streams[q] = call[d].conn => q = call[d].owner
            /\ \A q \in Owners : streams[q] # None /\ conn[streams[q]].handle = call[d].old
                               => streams[q] = call[d].conn
        BY <4>1 DEF FeedsInv, RestartInv
      <4>3. handle[g] # None /\ handle[g].owner = p
        BY <3>1, <3>3 DEF x, g
      <4>4. handle'[call[d].old] # None => handle'[call[d].old].owner = call[d].owner
        BY <3>2, <4>1, <4>2, <4>3
      <4>5. \A q \in Owners : streams'[q] # None =>
               streams'[q] = streams[q] /\ conn'[streams[q]].handle = conn[streams[q]].handle
        BY <3>1, <3>2, <3>3 DEF x, g
      <4> QED
        BY <4>1, <4>2, <4>4, <4>5
    <3> QED
      BY <3>2, <3>5, <3>6
  <2> QED
    BY <2>1, <2>2 DEF FinishStop
<1> QED
  BY <1>1, <1>2, <1>3, <1>4, <1>5 DEF FeedsInv, TypeOK

-----------------------------------------------------------------------------
(* The flush tasks, and the process. *)
LEMMA FlushKeeps ==
  ASSUME ConstantsAssumption, FeedsInv, NEW t \in Tasks, FlushTask(t)
  PROVE  FeedsInv'
<1>1. task[t] \in Task /\ task \in [Tasks -> Task \cup {None}]
  BY DEF FlushTask, FeedsInv, TypeOK
<1>2. PICK v \in Task \cup {None} : task' = [task EXCEPT ![t] = v]
  <2>1. /\ [task[t] EXCEPT !.pc = "wait", !.own = TRUE] \in Task
        /\ [task[t] EXCEPT !.pc = "db"] \in Task /\ [task[t] EXCEPT !.pc = "wait"] \in Task
    BY <1>1 DEF Task
  <2>2. \/ task' = [task EXCEPT ![t] = [task[t] EXCEPT !.pc = "wait", !.own = TRUE]]
        \/ task' = [task EXCEPT ![t] = None]
        \/ task' = [task EXCEPT ![t] = [task[t] EXCEPT !.pc = "db"]]
        \/ task' = [task EXCEPT ![t] = [task[t] EXCEPT !.pc = "wait"]]
    BY <1>1 DEF FlushTask
  <2> QED
    BY <2>1, <2>2
<1>3. task' \in [Tasks -> Task \cup {None}]
  BY <1>1, <1>2
<1> QED
  BY <1>3 DEF FlushTask, FeedsInv, TypeOK, CallInv, BootInv, RestartInv, TrackedStreamOpen

(* The steps of the process that leave the calls and the streams alone. *)
LEMMA PhaseKeeps ==
  ASSUME ConstantsAssumption, FeedsInv, UNCHANGED call, UNCHANGED db, UNCHANGED agg,
         todo' \subseteq Rows, \A r \in todo' : row[r] # None,
         phase' \in {"up", "booting", "stopping"}, \A c \in Calls : call[c] = Idle
  PROVE  FeedsInv'
BY DEF FeedsInv, TypeOK, CallInv, BootInv, RestartInv, TrackedStreamOpen, db, agg

LEMMA ResumeKeeps ==
  ASSUME ConstantsAssumption, FeedsInv, ResumeNext
  PROVE  FeedsInv'
<1>1. phase = "booting" /\ (\A c \in Calls : call[c] = Idle) /\ UNCHANGED db /\ UNCHANGED agg
  BY DEF ResumeNext
<1>2. CASE todo = {} /\ phase' = "up" /\ UNCHANGED <<todo, call>>
  BY <1>1, <1>2, PhaseKeeps
<1>3. ASSUME NEW r \in todo, NEW c \in Calls, todo' = todo \ {r}, UNCHANGED phase,
             call' = [call EXCEPT ![c] = [Idle EXCEPT !.op = "boot", !.pc = "start",
                                           !.owner = row[r].owner, !.sym = row[r].sym]]
      PROVE  FeedsInv'
  <2> DEFINE k == [Idle EXCEPT !.op = "boot", !.pc = "start", !.owner = row[r].owner, !.sym = row[r].sym]
  <2>1. r \in Rows /\ row[r] # None /\ row \in [Rows -> Sub \cup {None}] /\ todo \subseteq Rows
    BY <1>1 DEF FeedsInv, TypeOK, BootInv
  <2>2. row[r] \in Sub /\ row[r].owner \in Owners /\ row[r].sym \in Symbols
    BY <2>1 DEF Sub
  <2>3. /\ k \in Call /\ k.op = "boot" /\ k.pc = "start" /\ k.owner \in Owners /\ k.sym \in Symbols
        /\ k.row = None
    BY <2>2 DEF Idle, Call
  <2>4. call' = [call EXCEPT ![c] = k]
    BY <1>3
  <2> HIDE DEF k
  <2>5. /\ call' \in [Calls -> Call] /\ CallInv' /\ call'[c] = k
        /\ \A d \in Calls : d # c => call'[d] = call[d]
    BY <2>3, <2>4, CallMoves DEF FeedsInv
  <2>6. BootInv'
    BY <1>1, <1>3, <2>3, <2>5 DEF FeedsInv, BootInv, db
  <2>7. RestartInv' /\ TrackedStreamOpen'
    BY <1>1, <2>3, <2>5, StreamsStay DEF FeedsInv, agg
  <2> QED
    BY <1>1, <1>3, <2>1, <2>5, <2>6, <2>7 DEF FeedsInv, TypeOK, db, agg
<1> QED
  BY <1>1, <1>2, <1>3 DEF ResumeNext

LEMMA ForgetType ==
  ASSUME Forget
  PROVE  /\ states' \in Seq(Keys) /\ IsInjective(states') /\ tracked' \in [Keys -> Tasks \cup {None}]
         /\ streams' \in [Owners -> Conns \cup {None}] /\ conn' \in [Conns -> Connection]
         /\ \A o \in Owners : streams'[o] = None
<1>1. states' = <<>> /\ states' \in Seq(Keys)
  BY DEF Forget
<1>2. IsInjective(states')
  BY <1>1 DEF IsInjective
<1> QED
  BY <1>1, <1>2 DEF Forget, Connection

LEMMA EndStopKeeps ==
  ASSUME ConstantsAssumption, FeedsInv, EndStop
  PROVE  FeedsInv'
<1>1. phase' = "stopped" /\ UNCHANGED <<row, lock, running, call, todo, task>>
  BY DEF EndStop
<1>2. handle' \in [Handles -> Handle \cup {None}] /\ \A h \in Handles : handle'[h] \in {None, handle[h]}
  BY DEF EndStop, FeedsInv, TypeOK
<1>3. /\ states' \in Seq(Keys) /\ IsInjective(states') /\ tracked' \in [Keys -> Tasks \cup {None}]
      /\ streams' \in [Owners -> Conns \cup {None}] /\ conn' \in [Conns -> Connection]
      /\ \A o \in Owners : streams'[o] = None
  BY ForgetType DEF EndStop
<1>4. CallInv' /\ BootInv' /\ TrackedStreamOpen'
  <2>1. \A c \in Calls : call[c] = Idle
    BY DEF EndStop, FeedsInv, BootInv
  <2> QED
    BY <1>1, <1>3, <2>1 DEF CallInv, BootInv, TrackedStreamOpen
<1>5. RestartInv'
  <2> SUFFICES ASSUME NEW d \in Calls, call[d].pc = "restart"
               PROVE  LET z == call[d].conn  f == call[d].old IN
                      /\ z # None
                      /\ handle'[f] # None => handle'[f].owner = call[d].owner
                      /\ \A q \in Owners : streams'[q] # z
    BY <1>1, <1>3 DEF RestartInv
  <2>1. call[d].conn # None /\ (handle[call[d].old] # None => handle[call[d].old].owner = call[d].owner)
    BY DEF FeedsInv, RestartInv
  <2>2. call[d].old \in Handles
    BY IdleType DEF FeedsInv, CallInv
  <2> QED
    BY <1>2, <1>3, <2>1, <2>2
<1> QED
  BY <1>1, <1>2, <1>3, <1>4, <1>5 DEF FeedsInv, TypeOK

LEMMA ExitKeeps ==
  ASSUME ConstantsAssumption, FeedsInv, Exit
  PROVE  FeedsInv'
<1>1. /\ phase' = "down" /\ lock' = None /\ todo' = {} /\ UNCHANGED <<row, running>>
      /\ call' = [c \in Calls |-> Idle] /\ task' = [t \in Tasks |-> None] /\ handle' = [h \in Handles |-> None]
  BY DEF Exit
<1>2. /\ states' \in Seq(Keys) /\ IsInjective(states') /\ tracked' \in [Keys -> Tasks \cup {None}]
      /\ streams' \in [Owners -> Conns \cup {None}] /\ conn' \in [Conns -> Connection]
      /\ \A o \in Owners : streams'[o] = None
  BY ForgetType DEF Exit
<1>3. CallInv' /\ BootInv' /\ RestartInv' /\ TrackedStreamOpen'
  BY <1>1, <1>2, IdleType DEF CallInv, BootInv, RestartInv, TrackedStreamOpen
<1> QED
  BY <1>1, <1>2, <1>3, IdleType DEF FeedsInv, TypeOK

-----------------------------------------------------------------------------
LEMMA FeedsInit == ConstantsAssumption /\ Init => FeedsInv
<1> SUFFICES ASSUME ConstantsAssumption, Init PROVE FeedsInv
  OBVIOUS
<1>1. row \in [Rows -> Sub \cup {None}]
  <2>1. \A o \in Owners, s \in Symbols : [owner |-> o, sym |-> s, consumers |-> {}, status |-> "running"] \in Sub
    BY DEF Sub
  <2> QED
    BY <2>1 DEF Init
<1>2. /\ lock = None /\ running = {} /\ call = [c \in Calls |-> Idle] /\ phase = "down" /\ todo = {}
      /\ states = <<>> /\ tracked = [k \in Keys |-> None] /\ task = [t \in Tasks |-> None]
      /\ streams = [o \in Owners |-> None] /\ conn = [x \in Conns |-> [syms |-> {}, handle |-> None]]
      /\ handle = [h \in Handles |-> None]
  BY DEF Init
<1>3. states \in Seq(Keys) /\ IsInjective(states)
  BY <1>2 DEF IsInjective
<1>4. CallInv /\ BootInv /\ RestartInv /\ TrackedStreamOpen
  BY <1>2, IdleType DEF CallInv, BootInv, RestartInv, TrackedStreamOpen
<1> QED
  BY <1>1, <1>2, <1>3, <1>4, IdleType DEF FeedsInv, TypeOK, Connection

LEMMA FeedsStep == ConstantsAssumption /\ FeedsInv /\ [Next]_vars => FeedsInv'
<1> SUFFICES ASSUME ConstantsAssumption, FeedsInv, [Next]_vars PROVE FeedsInv'
  OBVIOUS
<1>1. CASE UNCHANGED vars
  BY <1>1 DEF vars, FeedsInv, TypeOK, CallInv, BootInv, RestartInv, TrackedStreamOpen
<1>2. ASSUME NEW c \in Calls,
             \/ CreateSub(c) \/ PreStartChecks(c) \/ InsertConsumer(c) \/ PostStopActions(c) \/ Unsubscribe(c)
             \/ StartSubscription(c) \/ OpenStream(c) \/ RestartStream(c) \/ MarkRunning(c)
             \/ StopSubscription(c) \/ FinishStop(c)
      PROVE  FeedsInv'
  BY <1>2, CreateKeeps, PreStartKeeps, InsertKeeps, PostStopKeeps, UnsubscribeKeeps, StartKeeps, OpenKeeps,
     RestartKeeps, MarkKeeps, StopKeeps, FinishStopKeeps
<1>3. ASSUME NEW t \in Tasks, FlushTask(t) PROVE FeedsInv'
  BY <1>3, FlushKeeps
<1>4. CASE Boot
  BY <1>4, PhaseKeeps DEF Boot, Resumable, FeedsInv, BootInv
<1>5. CASE BeginStop
  <2>1. todo' \subseteq Rows
    BY <1>5 DEF BeginStop, FeedsInv, TypeOK
  <2> QED
    BY <1>5, <2>1 DEF BeginStop, FeedsInv, TypeOK, CallInv, BootInv, RestartInv, TrackedStreamOpen, db, agg
<1> QED
  BY <1>1, <1>2, <1>3, <1>4, <1>5, ResumeKeeps, EndStopKeeps, ExitKeeps DEF Next

LEMMA FeedsHold ==
  ASSUME ConstantsAssumption
  PROVE  Spec => []FeedsInv
<1>1. Init => FeedsInv
  BY FeedsInit
<1>2. FeedsInv /\ [Next]_vars => FeedsInv'
  BY FeedsStep
<1> QED
  BY <1>1, <1>2, PTL DEF Spec

(* The rows, calls, states, tasks and streams keep their types, for any    *)
(* owners, symbols, rows and overlapping calls.                            *)
THEOREM FeedTypes ==
  ASSUME ConstantsAssumption
  PROVE  Spec => []TypeOK
<1>1. FeedsInv => TypeOK
  BY DEF FeedsInv
<1> QED
  BY <1>1, FeedsHold, PTL

(* A stream the aggregator knows is open, belongs to its owner and carries *)
(* every symbol of its connection, however the starts, restarts and stops  *)
(* of any number of requests overlap on any number of streams.             *)
THEOREM KnownStreamsAreOpen ==
  ASSUME ConstantsAssumption
  PROVE  Spec => []TrackedStreamOpen
<1>1. FeedsInv => TrackedStreamOpen
  BY DEF FeedsInv
<1> QED
  BY <1>1, FeedsHold, PTL

-----------------------------------------------------------------------------
(* The streams of one owner, served by one call at a time.  With a second  *)
(* owner, stop_subscription may take the other's state; with a second      *)
(* call, a row may go while another call opens its stream.                 *)
OneClient(o, c) == ConstantsAssumption /\ Owners = {o} /\ Calls = {c} /\ Surgical = {o}

OnlyStates(o) ==
  /\ \A i \in DOMAIN states : \E s \in Symbols : states[i] = Key(o, s)
  /\ \A s \in Carried(o) : Here(Key(o, s))
  /\ phase = "down" => streams[o] = None

(* A call finds its state, its rows and the stream as it left them.        *)
CallKnows(o, c) ==
  /\ call[c].pc \in {"open", "mark"} => Here(Key(o, call[c].sym))
  /\ call[c].pc = "open" => streams[o] = None
  /\ call[c].pc \in {"start", "open"} => RowsOf(o, call[c].sym) # {}
  /\ call[c].row # None => call[c].row \in RowsOf(o, call[c].sym)
  /\ call[c].pc # "restart"
  /\ call[c].pc = "stopping" => call[c].key = Key(o, call[c].sym)

TracksItsOwn == \A k \in Keys : tracked[k] # None /\ task[tracked[k]] # None => task[tracked[k]].key = k

Flushes(o, s) == \E t \in Tasks : task[t] # None /\ task[t].key = Key(o, s) /\ (task[t].own \/ task[t].pc = "new")

CarriedIsFlushed(o, c) ==
  phase \in {"booting", "up"} =>
    \A s \in Carried(o) : Flushes(o, s) \/ (call[c].pc = "stopping" /\ call[c].sym = s)

OpenIsCarried(o) ==
  \A h \in Handles : handle[h] # None =>
    streams[o] # None /\ conn[streams[o]].handle = h /\ handle[h].syms \subseteq conn[streams[o]].syms

CarriedIsSubscribed(o, c) ==
  \A s \in Carried(o) : RowsOf(o, s) # {} \/ (call[c].pc \in {"stop", "stopping"} /\ call[c].sym = s)

StreamsInv(o, c) ==
  /\ OnlyStates(o) /\ CallKnows(o, c) /\ TracksItsOwn /\ CarriedIsFlushed(o, c)
  /\ OpenIsCarried(o) /\ CarriedIsSubscribed(o, c)

LEMMA CarriedType ==
  ASSUME NEW o, NEW c, OneClient(o, c), TypeOK
  PROVE  /\ Carried(o) \subseteq Symbols
         /\ streams[o] # None => streams[o] \in Conns /\ conn[streams[o]] \in Connection
BY DEF OneClient, TypeOK, Carried, Connection

LEMMA KeyOfSymbol == \A o, s, q : (Key(o, s) = Key(o, q) <=> s = q) /\ Key(o, s)[2] = s
BY DEF Key

(* With one owner the state that is found by its symbol is the owner's. *)
LEMMA OnlyOne ==
  ASSUME NEW o, NEW c, OneClient(o, c), TypeOK, OnlyStates(o), NEW s \in Symbols
  PROVE  /\ \A i \in FirstOf(s) : i \in DOMAIN states /\ states[i] = Key(o, s)
         /\ Here(Key(o, s)) => FirstOf(s) # {}
<1>1. \A i \in DOMAIN states : states[i][2] = s => states[i] = Key(o, s)
  BY KeyOfSymbol DEF OnlyStates
<1>2. ASSUME NEW i \in DOMAIN states, states[i] = Key(o, s) PROVE i \in FirstOf(s)
  <2>1. states \in Seq(Keys) /\ \A a \in DOMAIN states, b \in DOMAIN states : states[a] = states[b] => a = b
    BY DEF TypeOK, IsInjective
  <2>2. ASSUME NEW j \in 1..i - 1 PROVE states[j][2] # s
    BY <1>1, <1>2, <2>1
  <2>3. states[i][2] = s
    BY <1>2, KeyOfSymbol
  <2> QED
    BY <2>2, <2>3 DEF FirstOf
<1> QED
  BY <1>1, <1>2 DEF FirstOf, Here

(* What a step that leaves the streams, their states and tasks alone keeps. *)
LEMMA AllStays ==
  ASSUME NEW o, NEW c, OneClient(o, c), FeedsInv, StreamsInv(o, c), UNCHANGED agg,
         phase' = "down" => phase = "down", phase' \in {"booting", "up"} => phase \in {"down", "booting", "up"},
         call[c].pc # "stopping"
  PROVE  /\ OnlyStates(o)' /\ TracksItsOwn' /\ CarriedIsFlushed(o, c)' /\ OpenIsCarried(o)'
         /\ Carried(o)' = Carried(o) /\ \A k : Here(k)' <=> Here(k)
<1>1. UNCHANGED <<states, tracked, task, streams, conn, handle>>
  BY DEF agg
<1>2. Carried(o)' = Carried(o) /\ (\A k : Here(k)' <=> Here(k)) /\ (\A s : Flushes(o, s)' <=> Flushes(o, s))
  BY <1>1 DEF Carried, Here, Flushes
<1>3. phase = "down" => Carried(o) = {}
  BY DEF StreamsInv, OnlyStates, Carried
<1> QED
  BY <1>1, <1>2, <1>3 DEF StreamsInv, OnlyStates, TracksItsOwn, CarriedIsFlushed, OpenIsCarried

-----------------------------------------------------------------------------
(* The requests that begin and write rows. *)
LEMMA CreateFollows ==
  ASSUME NEW o, NEW c, OneClient(o, c), FeedsInv, StreamsInv(o, c), CreateSub(c)
  PROVE  StreamsInv(o, c)'
<1>1. PICK p \in Owners, s \in Symbols : Begins(c, "create", "insert", p, s, "manual")
  BY DEF CreateSub
<1>2. phase = "up" /\ call[c] = Idle /\ UNCHANGED <<row, phase>> /\ UNCHANGED agg
  BY <1>1 DEF CreateSub, Begins
<1>3. call'[c].pc = "insert" /\ call'[c].row = None
  BY <1>1 DEF Begins, Idle, FeedsInv, TypeOK, OneClient
<1>4. call[c].pc = "idle"
  BY <1>2, IdleType
<1>5. /\ OnlyStates(o)' /\ TracksItsOwn' /\ CarriedIsFlushed(o, c)' /\ OpenIsCarried(o)'
      /\ Carried(o)' = Carried(o) /\ \A k : Here(k)' <=> Here(k)
  BY <1>2, <1>4, AllStays
<1>6. CarriedIsSubscribed(o, c)'
  BY <1>2, <1>4, <1>5 DEF StreamsInv, CarriedIsSubscribed, RowsOf
<1>7. CallKnows(o, c)'
  BY <1>3 DEF CallKnows
<1> QED
  BY <1>5, <1>6, <1>7 DEF StreamsInv

LEMMA PreStartFollows ==
  ASSUME NEW o, NEW c, OneClient(o, c), FeedsInv, StreamsInv(o, c), PreStartChecks(c)
  PROVE  StreamsInv(o, c)'
<1>1. PICK i \in Instances \ running :
        LET rs == RowsOf(AccountOf[i], AssetOf[i]) IN
        /\ phase = "up" /\ call[c] = Idle
        /\ call' = [call EXCEPT ![c] = [Idle EXCEPT !.op = "prestart", !.pc = "insert", !.owner = AccountOf[i],
                     !.sym = AssetOf[i], !.who = i, !.row = IF rs = {} THEN None ELSE Fresh(rs)]]
  BY DEF PreStartChecks
<1>2. UNCHANGED <<row, phase>> /\ UNCHANGED agg /\ call[c].pc = "idle"
  BY <1>1, IdleType DEF PreStartChecks
<1>3. AccountOf[i] = o
  BY NoneIsNew DEF OneClient
<1>4. /\ call'[c].pc = "insert" /\ call'[c].sym = AssetOf[i]
      /\ call'[c].row # None => call'[c].row \in RowsOf(o, AssetOf[i])
  BY <1>1, <1>3 DEF Fresh, Idle, FeedsInv, TypeOK, OneClient
<1>5. /\ OnlyStates(o)' /\ TracksItsOwn' /\ CarriedIsFlushed(o, c)' /\ OpenIsCarried(o)'
      /\ Carried(o)' = Carried(o) /\ \A k : Here(k)' <=> Here(k)
  BY <1>2, AllStays
<1>6. CarriedIsSubscribed(o, c)' /\ \A s : RowsOf(o, s)' = RowsOf(o, s)
  BY <1>2, <1>5 DEF StreamsInv, CarriedIsSubscribed, RowsOf
<1>7. CallKnows(o, c)'
  BY <1>4, <1>6 DEF CallKnows
<1> QED
  BY <1>5, <1>6, <1>7 DEF StreamsInv

LEMMA InsertFollows ==
  ASSUME NEW o, NEW c, OneClient(o, c), FeedsInv, StreamsInv(o, c), InsertConsumer(c)
  PROVE  StreamsInv(o, c)'
<1> DEFINE s == call[c].sym
<1>1. call[c].pc = "insert" /\ call[c] \in Call /\ call[c] # Idle /\ UNCHANGED phase /\ UNCHANGED agg /\ c \in Calls
  BY IdleType DEF InsertConsumer, FeedsInv, TypeOK, OneClient
<1>2. call[c].owner = o /\ s \in Symbols
  BY <1>1 DEF FeedsInv, CallInv, OneClient
<1>3. call'[c].pc = "start" /\ call'[c].row = None /\ call'[c].sym = s
  BY <1>1 DEF InsertConsumer, FeedsInv, TypeOK, Call
<1>4. /\ OnlyStates(o)' /\ TracksItsOwn' /\ CarriedIsFlushed(o, c)' /\ OpenIsCarried(o)'
      /\ Carried(o)' = Carried(o) /\ \A k : Here(k)' <=> Here(k)
  BY <1>1, AllStays
<1>5. row \in [Rows -> Sub \cup {None}]
  BY DEF FeedsInv, TypeOK
<1>6. /\ \A r \in Rows : row[r] # None => row'[r] # None /\ row'[r].owner = row[r].owner /\ row'[r].sym = row[r].sym
      /\ \E r \in Rows : row'[r] # None /\ row'[r].owner = o /\ row'[r].sym = s
  <2>1. CASE /\ call[c].row = None /\ FreeRows # {}
             /\ row' = [row EXCEPT ![Fresh(FreeRows)] = [owner |-> call[c].owner, sym |-> call[c].sym,
                                         consumers |-> {call[c].who}, status |-> "running"]]
    <3> DEFINE v == [owner |-> call[c].owner, sym |-> call[c].sym, consumers |-> {call[c].who}, status |-> "running"]
    <3>1. Fresh(FreeRows) \in Rows /\ row[Fresh(FreeRows)] = None
      BY <2>1, FreshIsFree DEF FreeRows
    <3>2. v \in Sub /\ v.owner = o /\ v.sym = s
      <4>1. call[c].who \in Consumers
        BY <1>1 DEF FeedsInv, CallInv
      <4> QED
        BY <1>2, <4>1 DEF Sub, OneClient
    <3>3. row' = [row EXCEPT ![Fresh(FreeRows)] = v]
      BY <2>1
    <3>4. v # None
      BY <3>2, NoneIsNew DEF OneClient
    <3> HIDE DEF v
    <3> QED
      BY <1>5, <3>1, <3>2, <3>3, <3>4
  <2>2. CASE /\ call[c].row # None
             /\ row' = IF row[call[c].row] = None THEN row
                       ELSE [row EXCEPT ![call[c].row].consumers = @ \cup {call[c].who}]
    <3> DEFINE q == call[c].row  v == [row[q] EXCEPT !.consumers = @ \cup {call[c].who}]
    <3>1. q \in Rows /\ row[q] # None /\ row[q].owner = o /\ row[q].sym = s
      BY <2>2 DEF StreamsInv, CallKnows, RowsOf
    <3>2. row[q] \in Sub /\ v.owner = o /\ v.sym = s /\ v \in Sub
      <4>1. call[c].who \in Consumers
        BY <1>1 DEF FeedsInv, CallInv
      <4> QED
        BY <1>5, <3>1, <4>1 DEF Sub
    <3>3. row' = [row EXCEPT ![q] = v]
      BY <2>2, <3>1
    <3>4. v # None
      BY <3>2, NoneIsNew DEF OneClient
    <3> HIDE DEF v, q
    <3> QED
      BY <1>5, <3>1, <3>2, <3>3, <3>4
  <2> QED
    BY <2>1, <2>2 DEF InsertConsumer
<1>7. CarriedIsSubscribed(o, c)'
  BY <1>1, <1>4, <1>6 DEF StreamsInv, CarriedIsSubscribed, RowsOf
<1>8. CallKnows(o, c)'
  BY <1>3, <1>6 DEF CallKnows, RowsOf
<1> QED
  BY <1>4, <1>7, <1>8 DEF StreamsInv

LEMMA PostStopFollows ==
  ASSUME NEW o, NEW c, OneClient(o, c), FeedsInv, StreamsInv(o, c), PostStopActions(c)
  PROVE  StreamsInv(o, c)'
<1>1. PICK i \in running :
       LET rs == RowsOf(AccountOf[i], AssetOf[i])  left == row[Fresh(rs)].consumers \ {i} IN
       IF Cardinality(rs) = 1
       THEN /\ row' = [row EXCEPT ![Fresh(rs)] = IF left = {} THEN None ELSE [@ EXCEPT !.consumers = left]]
            /\ IF left = {} THEN Begins(c, "poststop", "stop", AccountOf[i], AssetOf[i], i)
                            ELSE phase = "up" /\ call[c] = Idle /\ UNCHANGED call
       ELSE phase = "up" /\ call[c] = Idle /\ UNCHANGED <<row, call>>
  BY DEF PostStopActions
<1> DEFINE s == AssetOf[i]  rs == RowsOf(o, s)  q == Fresh(rs)  left == row[q].consumers \ {i}
<1>2. AccountOf[i] = o /\ s \in Symbols
  BY NoneIsNew DEF OneClient, FeedsInv, TypeOK
<1>3. call[c] = Idle /\ call[c].pc = "idle" /\ UNCHANGED phase /\ UNCHANGED agg
  BY <1>1, IdleType DEF PostStopActions, Begins
<1>4. /\ OnlyStates(o)' /\ TracksItsOwn' /\ CarriedIsFlushed(o, c)' /\ OpenIsCarried(o)'
      /\ Carried(o)' = Carried(o) /\ \A k : Here(k)' <=> Here(k)
  BY <1>3, AllStays
<1>5. row \in [Rows -> Sub \cup {None}]
  BY DEF FeedsInv, TypeOK
<1>6. CASE UNCHANGED <<row, call>>
  BY <1>3, <1>4, <1>6 DEF StreamsInv, CarriedIsSubscribed, CallKnows, RowsOf, agg
<1>7. ASSUME Cardinality(rs) = 1, left # {}, UNCHANGED call,
             row' = [row EXCEPT ![q] = [@ EXCEPT !.consumers = left]]
      PROVE  StreamsInv(o, c)'
  <2>1. q \in rs
    BY <1>7, OnlyRow DEF OneClient
  <2>2. q \in Rows /\ row[q] \in Sub /\ row[q] # None
    BY <1>5, <2>1 DEF RowsOf
  <2> DEFINE v == [row[q] EXCEPT !.consumers = left]
  <2>3. v \in Sub /\ v.owner = row[q].owner /\ v.sym = row[q].sym
    BY <2>2 DEF Sub
  <2>4. v # None /\ row' = [row EXCEPT ![q] = v]
    BY <1>7, <2>3, NoneIsNew DEF OneClient
  <2> HIDE DEF v, q
  <2>5. \A p \in Symbols : RowsOf(o, p)' = RowsOf(o, p)
    BY <1>5, <2>2, <2>3, <2>4 DEF RowsOf
  <2> QED
    BY <1>3, <1>4, <1>7, <2>5, CarriedType, IdleType
       DEF StreamsInv, CarriedIsSubscribed, CallKnows, FeedsInv, Idle
<1>8. ASSUME Cardinality(rs) = 1, left = {}, row' = [row EXCEPT ![q] = None],
             Begins(c, "poststop", "stop", o, s, i)
      PROVE  StreamsInv(o, c)'
  <2>1. call'[c].pc = "stop" /\ call'[c].sym = s /\ call'[c].row = None
    BY <1>8 DEF Begins, Idle, FeedsInv, TypeOK, OneClient
  <2>2. q \in rs
    BY <1>8, OnlyRow DEF OneClient
  <2>3. \A p : p # s => RowsOf(o, p)' = RowsOf(o, p)
    BY <1>5, <1>8, <2>2 DEF RowsOf
  <2>4. CarriedIsSubscribed(o, c)'
    BY <1>3, <1>4, <2>1, <2>3 DEF StreamsInv, CarriedIsSubscribed
  <2>5. CallKnows(o, c)'
    BY <2>1 DEF CallKnows
  <2> QED
    BY <1>4, <2>4, <2>5 DEF StreamsInv
<1> QED
  BY <1>1, <1>2, <1>6, <1>7, <1>8

LEMMA UnsubscribeFollows ==
  ASSUME NEW o, NEW c, OneClient(o, c), FeedsInv, StreamsInv(o, c), Unsubscribe(c)
  PROVE  StreamsInv(o, c)'
<1>1. PICK r \in Rows :
       /\ row[r] # None /\ phase = "up" /\ call[c] = Idle
       /\ IF row[r].consumers \subseteq {"manual"}
          THEN /\ call' = [call EXCEPT ![c] = [Idle EXCEPT !.op = "unsubscribe", !.pc = "stop",
                             !.owner = row[r].owner, !.sym = row[r].sym, !.row = r]]
               /\ lock' = c /\ UNCHANGED row
          ELSE /\ row' = [row EXCEPT ![r].consumers = @ \ {"manual"}]
               /\ UNCHANGED <<call, lock>>
  BY DEF Unsubscribe
<1>2. UNCHANGED phase /\ UNCHANGED agg /\ call[c].pc = "idle"
  BY <1>1, IdleType DEF Unsubscribe
<1>3. /\ OnlyStates(o)' /\ TracksItsOwn' /\ CarriedIsFlushed(o, c)' /\ OpenIsCarried(o)'
      /\ Carried(o)' = Carried(o) /\ \A k : Here(k)' <=> Here(k)
  BY <1>2, AllStays
<1>4. row \in [Rows -> Sub \cup {None}] /\ row[r] \in Sub /\ row[r].owner = o /\ row[r].sym \in Symbols
  BY <1>1 DEF FeedsInv, TypeOK, Sub, OneClient
<1>5. ASSUME row' = [row EXCEPT ![r].consumers = @ \ {"manual"}], UNCHANGED call PROVE StreamsInv(o, c)'
  <2> DEFINE v == [row[r] EXCEPT !.consumers = @ \ {"manual"}]
  <2>1. v \in Sub /\ v.owner = row[r].owner /\ v.sym = row[r].sym
    BY <1>4 DEF Sub
  <2>2. v # None /\ row' = [row EXCEPT ![r] = v]
    BY <1>5, <2>1, NoneIsNew DEF OneClient
  <2> HIDE DEF v
  <2>3. \A p \in Symbols : RowsOf(o, p)' = RowsOf(o, p)
    BY <1>1, <1>4, <2>1, <2>2 DEF RowsOf
  <2> QED
    BY <1>1, <1>2, <1>3, <1>5, <2>3, CarriedType, IdleType
       DEF StreamsInv, CarriedIsSubscribed, CallKnows, FeedsInv, Idle
<1>6. ASSUME UNCHANGED row,
             call' = [call EXCEPT ![c] = [Idle EXCEPT !.op = "unsubscribe", !.pc = "stop",
                             !.owner = row[r].owner, !.sym = row[r].sym, !.row = r]]
      PROVE  StreamsInv(o, c)'
  <2>1. call'[c].pc = "stop" /\ call'[c].sym = row[r].sym /\ call'[c].row = r
    BY <1>6 DEF Idle, FeedsInv, TypeOK, OneClient
  <2>2. \A p : RowsOf(o, p)' = RowsOf(o, p)
    BY <1>6 DEF RowsOf
  <2>3. r \in RowsOf(o, row[r].sym)
    BY <1>1, <1>4 DEF RowsOf
  <2>4. CarriedIsSubscribed(o, c)'
    BY <1>2, <1>3, <2>2 DEF StreamsInv, CarriedIsSubscribed
  <2>5. CallKnows(o, c)'
    BY <2>1, <2>2, <2>3 DEF CallKnows
  <2> QED
    BY <1>3, <2>4, <2>5 DEF StreamsInv
<1> QED
  BY <1>1, <1>5, <1>6

-----------------------------------------------------------------------------
(* The streams start. *)
LEMMA TaskJoins ==
  ASSUME NEW o, NEW c, OneClient(o, c), TypeOK, TracksItsOwn, NEW s \in Symbols, NewTask(Key(o, s))
  PROVE  TracksItsOwn' /\ Flushes(o, s)' /\ \A q : Flushes(o, q) => Flushes(o, q)'
<1>1. Key(o, s) \in Keys
  BY KeyType DEF OneClient
<1>2. PICK t \in FreeTasks : /\ task' = [task EXCEPT ![t] = [key |-> Key(o, s), pc |-> "new", own |-> FALSE]]
                             /\ tracked' = [tracked EXCEPT ![Key(o, s)] = t]
  BY <1>1, NewTaskType DEF OneClient
<1>3. t \in Tasks /\ task[t] = None /\ \A k \in Keys : tracked[k] # t
  BY DEF FreeTasks
<1> DEFINE v == [key |-> Key(o, s), pc |-> "new", own |-> FALSE]
<1>4. v.key = Key(o, s) /\ v.pc = "new" /\ v # None
  <2>1. v \in Task
    BY <1>1 DEF Task
  <2> QED
    BY <2>1, NoneIsNew DEF OneClient
<1>5. task' = [task EXCEPT ![t] = v]
  BY <1>2
<1> HIDE DEF v
<1>6. task'[t] = v /\ \A u \in Tasks : u # t => task'[u] = task[u]
  BY <1>3, <1>5 DEF TypeOK
<1>7. tracked'[Key(o, s)] = t /\ \A k \in Keys : k # Key(o, s) => tracked'[k] = tracked[k]
  BY <1>1, <1>2 DEF TypeOK
<1>8. ASSUME NEW k \in Keys, tracked'[k] # None, task'[tracked'[k]] # None PROVE task'[tracked'[k]].key = k
  <2>1. CASE k = Key(o, s)
    BY <1>4, <1>6, <1>7, <2>1
  <2>2. CASE k # Key(o, s)
    <3>1. tracked'[k] = tracked[k] /\ tracked[k] \in Tasks /\ tracked[k] # t
      BY <1>3, <1>7, <1>8, <2>2 DEF TypeOK
    <3> QED
      BY <1>6, <1>8, <3>1 DEF TracksItsOwn
  <2> QED
    BY <2>1, <2>2
<1> QED
  BY <1>3, <1>4, <1>6, <1>8 DEF TracksItsOwn, Flushes

LEMMA StartFollows ==
  ASSUME NEW o, NEW c, OneClient(o, c), FeedsInv, StreamsInv(o, c), StartSubscription(c)
  PROVE  StreamsInv(o, c)'
<1> DEFINE x == streams[o]
<1>0. PICK s : s = call[c].sym
  OBVIOUS
<1>1. /\ call[c].pc = "start" /\ call[c] \in Call /\ call[c].owner = o /\ s \in Symbols /\ c \in Calls
      /\ o \in Owners
  BY <1>0, IdleType DEF StartSubscription, FeedsInv, TypeOK, CallInv, OneClient
<1>2. UNCHANGED <<row, lock, running, todo, streams>>
  BY DEF StartSubscription
<1>3. /\ \A k : Here(k)' <=> (Here(k) \/ k = Key(o, s))
      /\ \A i \in DOMAIN states' : \E q \in Symbols : states'[i] = Key(o, q)
  <2>1. CASE Here(Key(o, s))
    BY <1>0, <1>1, <2>1 DEF StartSubscription, Here, StreamsInv, OnlyStates
  <2>2. CASE ~Here(Key(o, s))
    <3>1. states' = Append(states, Key(o, s)) /\ states \in Seq(Keys) /\ Key(o, s) \in Keys
      BY <1>0, <1>1, <2>2, KeyType DEF StartSubscription, FeedsInv, TypeOK, OneClient
    <3>2. /\ DOMAIN states = 1..Len(states) /\ DOMAIN states' = 1..Len(states) + 1 /\ Len(states) \in Nat
          /\ states'[Len(states) + 1] = Key(o, s) /\ \A i \in 1..Len(states) : states'[i] = states[i]
      BY <3>1
    <3>3. \A i \in DOMAIN states' : i = Len(states) + 1 \/ i \in DOMAIN states
      BY <3>2
    <3>4. \A i \in DOMAIN states : i \in DOMAIN states' /\ states'[i] = states[i]
      BY <3>2
    <3>5. Len(states) + 1 \in DOMAIN states'
      BY <3>2
    <3> QED
      BY <1>0, <1>1, <3>2, <3>3, <3>4, <3>5 DEF Here, StreamsInv, OnlyStates
  <2> QED
    BY <2>1, <2>2
<1>4. RowsOf(o, s)' # {} /\ \A q : RowsOf(o, q)' = RowsOf(o, q)
  BY <1>0, <1>1, <1>2 DEF RowsOf, StreamsInv, CallKnows
<1>10. call[c].row # None => call[c].row \in RowsOf(o, s)
  BY <1>0 DEF StreamsInv, CallKnows
<1>5. phase' = "down" => phase = "down"
  BY DEF StartSubscription, Raises
<1>6. phase' \in {"booting", "up"} => phase' = phase
  BY DEF StartSubscription, Raises
<1>7. CASE UNCHANGED <<tracked, task, conn, handle>> /\ ((Goes(c, "open") /\ x = None) \/ Raises(c))
  <2>1. /\ Carried(o)' = Carried(o) /\ (\A q : Flushes(o, q)' <=> Flushes(o, q))
        /\ TracksItsOwn' /\ OpenIsCarried(o)'
    BY <1>2, <1>7 DEF Carried, Flushes, StreamsInv, TracksItsOwn, OpenIsCarried
  <2>2. OnlyStates(o)'
    BY <1>2, <1>3, <1>5, <2>1 DEF StreamsInv, OnlyStates
  <2>3. CarriedIsFlushed(o, c)' /\ CarriedIsSubscribed(o, c)'
    BY <1>0, <1>1, <1>4, <1>6, <2>1 DEF StreamsInv, CarriedIsFlushed, CarriedIsSubscribed
  <2>4. CallKnows(o, c)'
    <3>1. CASE Goes(c, "open") /\ x = None
      <4>1. call'[c].pc = "open" /\ call'[c].sym = s /\ call'[c].row = call[c].row
        BY <1>0, <1>1, <3>1 DEF Goes, FeedsInv, TypeOK, Call
      <4> QED
        BY <1>2, <1>3, <1>4, <1>10, <3>1, <4>1 DEF CallKnows, RowsOf, Here
    <3>2. CASE Raises(c)
      <4>1. call'[c] = Idle
        BY <1>0, <1>1, <3>2 DEF Raises, Ends, FeedsInv, TypeOK
      <4> QED
        BY <4>1 DEF CallKnows, Idle
    <3> QED
      BY <1>7, <3>1, <3>2
  <2> QED
    BY <2>1, <2>2, <2>3, <2>4 DEF StreamsInv
<1>8. CASE /\ x # None /\ conn' = [conn EXCEPT ![x].syms = @ \cup {s}]
           /\ handle' = [handle EXCEPT ![conn[x].handle].syms = @ \cup {s}]
           /\ JoinTask(Key(o, s)) /\ Goes(c, "mark") /\ UNCHANGED phase
  <2> DEFINE g == conn[x].handle
  <2>1. /\ x \in Conns /\ conn[x] \in Connection /\ g \in Handles /\ handle[g] \in Handle
    BY <1>0, <1>1, <1>8, StreamOf DEF FeedsInv, OneClient
  <2>2. conn'[x].handle = g /\ conn'[x].syms = conn[x].syms \cup {s}
    BY <1>8, <2>1 DEF FeedsInv, TypeOK, Connection
  <2>3. handle'[g].syms = handle[g].syms \cup {s} /\ \A h \in Handles : h # g => handle'[h] = handle[h]
    BY <1>8, <2>1 DEF FeedsInv, TypeOK, Handle
  <2>4. Carried(o)' = Carried(o) \cup {s}
    BY <1>2, <1>8, <2>2 DEF Carried
  <2>5. TracksItsOwn' /\ Flushes(o, s)' /\ \A q : Flushes(o, q) => Flushes(o, q)'
    BY <1>0, <1>1, <1>8, TaskJoins DEF JoinTask, FeedsInv, StreamsInv
  <2>6. OpenIsCarried(o)'
    <3> SUFFICES ASSUME NEW h \in Handles, handle'[h] # None
                 PROVE  x # None /\ conn'[x].handle = h /\ handle'[h].syms \subseteq conn'[x].syms
      BY <1>2 DEF OpenIsCarried
    <3>1. h = g
      BY <1>8, <2>3 DEF StreamsInv, OpenIsCarried
    <3>2. handle[g].syms \subseteq conn[x].syms
      BY <2>1, NoneIsNew DEF StreamsInv, OpenIsCarried, OneClient
    <3> HIDE DEF x, g
    <3> QED
      BY <1>8, <2>2, <2>3, <3>1, <3>2
  <2>7. OnlyStates(o)'
    BY <1>2, <1>3, <1>5, <2>4 DEF StreamsInv, OnlyStates
  <2>8. call'[c].pc = "mark" /\ call'[c].sym = s /\ call'[c].row = call[c].row
    BY <1>0, <1>1, <1>8 DEF Goes, FeedsInv, TypeOK, Call
  <2>9. CarriedIsFlushed(o, c)'
    <3> SUFFICES ASSUME phase \in {"booting", "up"}, NEW q \in Carried(o) \cup {s} PROVE Flushes(o, q)'
      BY <1>8, <2>4 DEF CarriedIsFlushed
    <3> QED
      BY <1>0, <1>1, <2>5 DEF StreamsInv, CarriedIsFlushed
  <2>10. CarriedIsSubscribed(o, c)'
    BY <1>0, <1>1, <1>4, <2>4 DEF StreamsInv, CarriedIsSubscribed
  <2>11. CallKnows(o, c)'
    BY <1>3, <1>4, <1>10, <2>8 DEF CallKnows, RowsOf, Here
  <2> QED
    BY <2>5, <2>6, <2>7, <2>9, <2>10, <2>11 DEF StreamsInv
<1> QED
  BY <1>0, <1>1, <1>7, <1>8 DEF StartSubscription, OneClient

LEMMA OpenFollows ==
  ASSUME NEW o, NEW c, OneClient(o, c), FeedsInv, StreamsInv(o, c), OpenStream(c)
  PROVE  StreamsInv(o, c)'
<1>0. PICK s : s = call[c].sym
  OBVIOUS
<1>1. /\ call[c].pc = "open" /\ call[c] \in Call /\ call[c].owner = o /\ s \in Symbols /\ c \in Calls
      /\ o \in Owners
  BY <1>0, IdleType DEF OpenStream, FeedsInv, TypeOK, CallInv, OneClient
<1>2. /\ UNCHANGED <<lock, running, phase, todo, states>> /\ NewTask(Key(o, s)) /\ Goes(c, "mark")
  BY <1>0, <1>1 DEF OpenStream
<1>3. /\ streams[o] = None /\ Carried(o) = {} /\ (\A h \in Handles : handle[h] = None)
      /\ Here(Key(o, s)) /\ RowsOf(o, s) # {}
  BY <1>0, <1>1 DEF StreamsInv, CallKnows, Carried, OpenIsCarried
<1>4. TracksItsOwn' /\ Flushes(o, s)'
  BY <1>0, <1>1, <1>2, TaskJoins DEF FeedsInv, StreamsInv
<1>5. \A q : RowsOf(o, q)' = RowsOf(o, q)
  <2>1. \/ UNCHANGED row
        \/ row' = [r \in Rows |-> IF r \in Matching(o, s) THEN [row[r] EXCEPT !.status = "error"] ELSE row[r]]
    BY <1>0, <1>1 DEF OpenStream
  <2>2. UNCHANGED row => \A q : RowsOf(o, q)' = RowsOf(o, q)
    BY DEF RowsOf
  <2>3. ConstantsAssumption /\ row \in [Rows -> Sub \cup {None}]
    BY DEF FeedsInv, TypeOK, OneClient
  <2> QED
    BY <2>1, <2>2, <2>3, StatusWritten
<1>6. (\A k : Here(k)' <=> Here(k)) /\ call'[c].pc = "mark" /\ call'[c].sym = s /\ call'[c].row = call[c].row
  BY <1>0, <1>1, <1>2 DEF Goes, FeedsInv, TypeOK, Call, Here
<1>7. Carried(o)' \subseteq {s} /\ OpenIsCarried(o)'
  <2>1. CASE UNCHANGED <<streams, conn, handle>>
    BY <1>3, <2>1 DEF Carried, OpenIsCarried
  <2>2. CASE /\ FreeConns # {} /\ FreeHandles # {}
             /\ LET x == Fresh(FreeConns)  h == Fresh(FreeHandles) IN
                  /\ handle' = [handle EXCEPT ![h] = [owner |-> o, syms |-> {s}]]
                  /\ conn' = [conn EXCEPT ![x] = [syms |-> {s}, handle |-> h]]
                  /\ streams' = [streams EXCEPT ![o] = x]
    <3>1. PICK x \in FreeConns, h \in FreeHandles :
               /\ handle' = [handle EXCEPT ![h] = [owner |-> o, syms |-> {s}]]
               /\ conn' = [conn EXCEPT ![x] = [syms |-> {s}, handle |-> h]]
               /\ streams' = [streams EXCEPT ![o] = x]
      BY <2>2, FreshIsFree
    <3>2. x \in Conns /\ h \in Handles /\ x # None
      BY NoneIsNew DEF FreeConns, FreeHandles, OneClient
    <3>3. streams'[o] = x /\ conn'[x] = [syms |-> {s}, handle |-> h] /\ handle'[h] = [owner |-> o, syms |-> {s}]
      BY <1>0, <1>1, <3>1, <3>2 DEF FeedsInv, TypeOK
    <3>4. \A g \in Handles : g # h => handle'[g] = None
      BY <1>3, <3>1, <3>2 DEF FeedsInv, TypeOK
    <3> QED
      BY <3>2, <3>3, <3>4 DEF Carried, OpenIsCarried
  <2> QED
    BY <1>0, <1>1, <2>1, <2>2 DEF OpenStream
<1>8. phase # "down"
  BY <1>0, <1>1, IdleType DEF FeedsInv, BootInv
<1>9. OnlyStates(o)' /\ CarriedIsFlushed(o, c)' /\ CarriedIsSubscribed(o, c)'
  BY <1>2, <1>3, <1>4, <1>5, <1>6, <1>7, <1>8
     DEF StreamsInv, OnlyStates, CarriedIsFlushed, CarriedIsSubscribed
<1>10. CallKnows(o, c)'
  BY <1>0, <1>1, <1>3, <1>5, <1>6 DEF StreamsInv, CallKnows
<1> QED
  BY <1>4, <1>7, <1>9, <1>10 DEF StreamsInv

LEMMA MarkFollows ==
  ASSUME NEW o, NEW c, OneClient(o, c), FeedsInv, StreamsInv(o, c), MarkRunning(c)
  PROVE  StreamsInv(o, c)'
<1>1. call[c].pc = "mark" /\ c \in Calls /\ Ends(c) /\ UNCHANGED agg /\ phase' \in {phase, "failed"}
  BY DEF MarkRunning, Raises, OneClient
<1>2. call'[c] = Idle
  BY <1>1 DEF Ends, FeedsInv, TypeOK
<1>3. /\ OnlyStates(o)' /\ TracksItsOwn' /\ CarriedIsFlushed(o, c)' /\ OpenIsCarried(o)'
      /\ Carried(o)' = Carried(o)
  BY <1>1, AllStays
<1>4. \A q : RowsOf(o, q)' = RowsOf(o, q)
  <2>1. \/ UNCHANGED row
        \/ row' = [r \in Rows |-> IF r \in Matching(call[c].owner, call[c].sym)
                                  THEN [row[r] EXCEPT !.status = "running"] ELSE row[r]]
    BY DEF MarkRunning
  <2>2. UNCHANGED row => \A q : RowsOf(o, q)' = RowsOf(o, q)
    BY DEF RowsOf
  <2>3. ConstantsAssumption /\ row \in [Rows -> Sub \cup {None}]
    BY DEF FeedsInv, TypeOK, OneClient
  <2> QED
    BY <2>1, <2>2, <2>3, StatusWritten
<1>5. CarriedIsSubscribed(o, c)' /\ CallKnows(o, c)'
  BY <1>1, <1>2, <1>3, <1>4 DEF StreamsInv, CarriedIsSubscribed, CallKnows, Idle
<1> QED
  BY <1>3, <1>5 DEF StreamsInv

-----------------------------------------------------------------------------
(* The streams stop. *)
LEMMA FinishFollows ==
  ASSUME NEW o, NEW c, OneClient(o, c), FeedsInv, CallKnows(o, c), NEW s, s = call[c].sym, FinishRequest(c)
  PROVE  CallKnows(o, c)' /\ call'[c] = Idle /\ \A q : q # s => RowsOf(o, q)' = RowsOf(o, q)
<1>1. call'[c] = Idle
  BY DEF FinishRequest, Ends, FeedsInv, TypeOK, OneClient
<1>2. row \in [Rows -> Sub \cup {None}] /\ (call[c].row # None => call[c].row \in RowsOf(o, s))
  BY DEF FeedsInv, TypeOK, CallKnows
<1>3. \A q : q # s => RowsOf(o, q)' = RowsOf(o, q)
  BY <1>2 DEF FinishRequest, RowsOf
<1>4. CallKnows(o, c)'
  BY <1>1 DEF CallKnows, Idle
<1> QED
  BY <1>1, <1>3, <1>4

LEMMA StopFollows ==
  ASSUME NEW o, NEW c, OneClient(o, c), FeedsInv, StreamsInv(o, c), StopSubscription(c)
  PROVE  StreamsInv(o, c)'
<1>0. PICK s : s = call[c].sym
  OBVIOUS
<1>1. /\ call[c].pc = "stop" /\ call[c] \in Call /\ s \in Symbols /\ c \in Calls
      /\ UNCHANGED <<running, phase, todo, states, streams, conn, handle>>
  BY <1>0, IdleType DEF StopSubscription, FeedsInv, TypeOK, CallInv, OneClient
<1>2. Carried(o)' = Carried(o) /\ (\A k : Here(k)' <=> Here(k)) /\ OnlyStates(o)' /\ OpenIsCarried(o)'
  BY <1>1 DEF Carried, Here, StreamsInv, OnlyStates, OpenIsCarried
<1>3. CASE FirstOf(s) = {} /\ FinishRequest(c) /\ UNCHANGED <<task, tracked>>
  <2>1. CallKnows(o, c)' /\ call'[c] = Idle /\ \A q : q # s => RowsOf(o, q)' = RowsOf(o, q)
    BY <1>0, <1>3, FinishFollows DEF StreamsInv
  <2>2. s \notin Carried(o)
    BY <1>1, <1>3, OnlyOne DEF StreamsInv, OnlyStates, FeedsInv
  <2>3. \A q : Flushes(o, q)' <=> Flushes(o, q)
    BY <1>3 DEF Flushes
  <2>4. CarriedIsSubscribed(o, c)' /\ CarriedIsFlushed(o, c)' /\ TracksItsOwn'
    BY <1>0, <1>1, <1>2, <1>3, <2>1, <2>2, <2>3
       DEF StreamsInv, CarriedIsSubscribed, CarriedIsFlushed, TracksItsOwn
  <2> QED
    BY <1>2, <2>1, <2>4 DEF StreamsInv
<1>4. ASSUME NEW i \in FirstOf(s),
             call' = [call EXCEPT ![c].pc = "stopping", ![c].key = states[i]],
             tracked' = [tracked EXCEPT ![states[i]] = None],
             task' = IF tracked[states[i]] = None THEN task ELSE [task EXCEPT ![tracked[states[i]]] = None],
             UNCHANGED <<row, lock>>
      PROVE  StreamsInv(o, c)'
  <2>1. states[i] = Key(o, s) /\ Key(o, s) \in Keys
    BY <1>1, OnlyOne, KeyType DEF StreamsInv, FeedsInv, OneClient
  <2>2. PICK k : k = Key(o, s)
    OBVIOUS
  <2>3. /\ call'[c].pc = "stopping" /\ call'[c].key = k /\ call'[c].sym = s /\ call'[c].row = call[c].row
    BY <1>0, <1>1, <1>4, <2>1, <2>2 DEF FeedsInv, TypeOK, Call
  <2>4. /\ \A t \in Tasks : task'[t] \in {task[t], None} /\ (task'[t] # task[t] => task[t] # None /\ task[t].key = k)
        /\ \A q \in Keys : tracked'[q] = IF q = k THEN None ELSE tracked[q]
    BY <1>4, <2>1, <2>2 DEF StreamsInv, TracksItsOwn, FeedsInv, TypeOK
  <2>5. TracksItsOwn'
    BY <2>4 DEF StreamsInv, TracksItsOwn, FeedsInv, TypeOK
  <2>6. \A q : q # s /\ Flushes(o, q) => Flushes(o, q)'
    BY <2>2, <2>4, KeyOfSymbol DEF Flushes
  <2>7. CarriedIsFlushed(o, c)' /\ CarriedIsSubscribed(o, c)'
    <3>1. \A q : RowsOf(o, q)' = RowsOf(o, q)
      BY <1>4 DEF RowsOf
    <3> QED
      BY <1>0, <1>1, <1>2, <2>3, <2>6, <3>1 DEF StreamsInv, CarriedIsFlushed, CarriedIsSubscribed
  <2>8. CallKnows(o, c)'
    <3>1. call[c].row # None => call[c].row \in RowsOf(o, s)
      BY <1>0 DEF StreamsInv, CallKnows
    <3> QED
      BY <1>4, <2>2, <2>3, <3>1 DEF CallKnows, RowsOf
  <2> QED
    BY <1>2, <2>5, <2>7, <2>8 DEF StreamsInv
<1> QED
  BY <1>0, <1>3, <1>4 DEF StopSubscription

LEMMA FinishStopFollows ==
  ASSUME NEW o, NEW c, OneClient(o, c), FeedsInv, StreamsInv(o, c), FinishStop(c)
  PROVE  StreamsInv(o, c)'
<1>0. PICK s : s = call[c].sym
  OBVIOUS
<1>1. /\ call[c].pc = "stopping" /\ s \in Symbols /\ c \in Calls /\ call[c].owner = o
      /\ call[c].key = Key(o, s) /\ FinishRequest(c) /\ UNCHANGED <<running, phase, todo, tracked>>
  BY <1>0, IdleType DEF FinishStop, FeedsInv, TypeOK, CallInv, OneClient, StreamsInv, CallKnows
<1>2. PICK k : k = Key(o, s) /\ k = call[c].key
  BY <1>1
<1>3. CallKnows(o, c)' /\ call'[c] = Idle /\ \A q : q # s => RowsOf(o, q)' = RowsOf(o, q)
  BY <1>0, <1>1, FinishFollows DEF StreamsInv
<1>4. /\ \A q : q # k => (Here(q)' <=> Here(q))
      /\ \A i \in DOMAIN states' : \E q \in Symbols : states'[i] = Key(o, q)
  <2>1. states' = IF Here(k) THEN RemoveAt(states, CHOOSE i \in DOMAIN states : states[i] = k) ELSE states
    BY <1>2 DEF FinishStop
  <2>2. \A i \in DOMAIN states : \E q \in Symbols : states[i] = Key(o, q)
    BY DEF StreamsInv, OnlyStates
  <2>3. CASE Here(k)
    <3>1. PICK i \in DOMAIN states : i = CHOOSE j \in DOMAIN states : states[j] = k
      BY <2>3 DEF Here
    <3>2. states[i] = k
      BY <2>3, <3>1 DEF Here
    <3>3. states' = RemoveAt(states, i) /\ states \in Seq(Keys) /\ IsInjective(states)
      BY <2>1, <2>3, <3>1 DEF FeedsInv, TypeOK
    <3>4. \A q : (\E j \in DOMAIN states' : states'[j] = q) <=> ((\E j \in DOMAIN states : states[j] = q) /\ q # k)
      <4>1. i \in DOMAIN states
        BY <3>1
      <4>2. \A q : Occurs(RemoveAt(states, i), q) <=> Occurs(states, q) /\ q # states[i]
        BY <3>3, <4>1, StateRemoved
      <4>3. \A q : Occurs(states', q) <=> Occurs(states, q) /\ q # k
        BY <3>2, <3>3, <4>2
      <4> QED
        BY <4>3 DEF Occurs
    <3>5. \A m \in DOMAIN states' : \E j \in DOMAIN states : states[j] = states'[m]
      BY <3>4
    <3>6. \A m \in DOMAIN states' : \E q \in Symbols : states'[m] = Key(o, q)
      BY <2>2, <3>5
    <3>7. \A q : q # k => (Here(q)' <=> Here(q))
      BY <3>4 DEF Here
    <3> QED
      BY <3>6, <3>7
  <2>4. CASE ~Here(k)
    BY <2>1, <2>2, <2>4 DEF Here
  <2> QED
    BY <2>3, <2>4
<1>5. /\ \A t \in Tasks : /\ task'[t] = None <=> task[t] = None
                          /\ task[t] # None => task'[t].key = task[t].key /\ task'[t].pc = task[t].pc
                          /\ task[t] # None /\ task[t].key # k => task'[t] = task[t]
  <2>1. task' = Disown(k) /\ task \in [Tasks -> Task \cup {None}]
    BY <1>2 DEF FinishStop, FeedsInv, TypeOK
  <2>2. ASSUME NEW t \in Tasks, task[t] # None
        PROVE  LET v == [task[t] EXCEPT !.own = FALSE] IN v # None /\ v.key = task[t].key /\ v.pc = task[t].pc
    <3>1. task[t] \in Task
      BY <2>1, <2>2
    <3>2. [task[t] EXCEPT !.own = FALSE] \in Task
      BY <3>1 DEF Task
    <3> QED
      BY <3>1, <3>2, NoneIsNew DEF OneClient, Task
  <2> QED
    BY <2>1, <2>2 DEF Disown
<1>6. TracksItsOwn' /\ \A q : q # s /\ Flushes(o, q) => Flushes(o, q)'
  <2>1. TracksItsOwn'
    <3>1. \A q \in Keys : tracked[q] # None => tracked[q] \in Tasks
      BY DEF FeedsInv, TypeOK
    <3> QED
      BY <1>1, <1>5, <3>1 DEF StreamsInv, TracksItsOwn
  <2>2. \A q : q # s /\ Flushes(o, q) => Flushes(o, q)'
    <3> SUFFICES ASSUME NEW q, q # s, Flushes(o, q) PROVE Flushes(o, q)'
      OBVIOUS
    <3>1. Key(o, q) # k
      BY <1>2 DEF Key
    <3> QED
      BY <1>5, <3>1 DEF Flushes
  <2> QED
    BY <2>1, <2>2
<1>7. /\ Carried(o)' \subseteq Carried(o) \ {s} /\ OpenIsCarried(o)'
      /\ streams[o] = None => streams'[o] = None
  <2>1. CASE Carrying(o, s) = {} /\ UNCHANGED <<streams, conn, handle>>
    <3>1. s \notin Carried(o)
      BY <2>1 DEF Carrying, OneClient
    <3> QED
      BY <2>1, <3>1 DEF Carried, StreamsInv, OpenIsCarried
  <2>2. ASSUME NEW p \in Carrying(o, s), LeaveStream(p, s)
        PROVE  /\ Carried(o)' \subseteq Carried(o) \ {s} /\ OpenIsCarried(o)'
               /\ streams[o] = None => streams'[o] = None
    <3>1. p = o /\ o \in Owners /\ streams[o] # None /\ o \in Surgical
      BY NoneIsNew DEF Carrying, Carried, OneClient
    <3>2. PICK x, g : x = streams[o] /\ g = conn[x].handle
      OBVIOUS
    <3>3. /\ streams'[o] \in {None, x}
          /\ conn'[x].handle = g /\ conn'[x].syms = conn[x].syms \ {s}
          /\ \A f \in Handles : f # g => handle'[f] = handle[f]
          /\ \/ streams'[o] = None /\ handle'[g] = None
             \/ streams'[o] = x /\ handle'[g].syms = handle[g].syms \ {s}
      BY <2>2, <3>1, <3>2, LeavesStream DEF FeedsInv, OneClient
    <3>4. g \in Handles /\ handle[g] # None /\ handle[g].syms \subseteq conn[x].syms
      BY <3>1, <3>2, StreamOf, NoneIsNew DEF FeedsInv, OneClient, StreamsInv, OpenIsCarried
    <3>5. \A f \in Handles : handle[f] # None => f = g
      BY <3>2 DEF StreamsInv, OpenIsCarried
    <3>6. Carried(o)' \subseteq Carried(o) \ {s}
      BY <3>1, <3>2, <3>3 DEF Carried
    <3>7. OpenIsCarried(o)'
      BY <3>1, <3>2, <3>3, <3>4, <3>5 DEF OpenIsCarried
    <3> QED
      BY <3>1, <3>6, <3>7
  <2> QED
    BY <1>0, <1>1, <2>1, <2>2 DEF FinishStop
<1>8. OnlyStates(o)'
  BY <1>1, <1>2, <1>4, <1>7, KeyOfSymbol DEF StreamsInv, OnlyStates
<1>9. CarriedIsFlushed(o, c)' /\ CarriedIsSubscribed(o, c)'
  BY <1>0, <1>1, <1>3, <1>6, <1>7 DEF StreamsInv, CarriedIsFlushed, CarriedIsSubscribed
<1> QED
  BY <1>3, <1>6, <1>7, <1>8, <1>9 DEF StreamsInv

-----------------------------------------------------------------------------
(* The flush tasks and the process. *)
LEMMA FlushFollows ==
  ASSUME NEW o, NEW c, OneClient(o, c), FeedsInv, StreamsInv(o, c), NEW t \in Tasks, FlushTask(t)
  PROVE  StreamsInv(o, c)'
<1>1. task[t] \in Task /\ task[t] # None /\ task \in [Tasks -> Task \cup {None}]
  BY DEF FlushTask, FeedsInv, TypeOK
<1>2. UNCHANGED <<row, lock, call, running, phase, todo, states, tracked, streams, conn, handle>>
  BY DEF FlushTask
<1>3. /\ \A u \in Tasks : u # t => task'[u] = task[u]
      /\ \/ /\ task'[t] # None /\ task'[t].key = task[t].key
            /\ (task[t].own \/ task[t].pc = "new" => task'[t].own)
         \/ task'[t] = None /\ phase = "stopping"
         \/ task'[t] = None /\ ~Here(task[t].key)
  <2>1. CASE task[t].pc = "new" /\ task' = [task EXCEPT ![t] = IF Here(@.key) THEN [@ EXCEPT !.pc = "wait", !.own = TRUE] ELSE None]
    <3> DEFINE v == [task[t] EXCEPT !.pc = "wait", !.own = TRUE]
    <3>1. v \in Task /\ v.key = task[t].key /\ v.own
      BY <1>1 DEF Task
    <3>2. task' = [task EXCEPT ![t] = IF Here(task[t].key) THEN v ELSE None]
      BY <2>1
    <3>3. v # None
      BY <3>1, NoneIsNew DEF OneClient
    <3> HIDE DEF v
    <3> QED
      BY <1>1, <3>1, <3>2, <3>3
  <2>2. CASE task[t].pc = "wait" /\ task' = [task EXCEPT ![t].pc = "db"]
    <3> DEFINE v == [task[t] EXCEPT !.pc = "db"]
    <3>1. v \in Task /\ v.key = task[t].key /\ v.own = task[t].own
      BY <1>1 DEF Task
    <3>2. task' = [task EXCEPT ![t] = v]
      BY <2>2
    <3>3. v # None
      BY <3>1, NoneIsNew DEF OneClient
    <3> HIDE DEF v
    <3> QED
      BY <1>1, <2>2, <3>1, <3>2, <3>3
  <2>3. CASE phase = "stopping" /\ task' = [task EXCEPT ![t] = None]
    BY <1>1, <2>3
  <2>4. CASE task[t].pc = "db" /\ task' = [task EXCEPT ![t].pc = "wait"]
    <3> DEFINE v == [task[t] EXCEPT !.pc = "wait"]
    <3>1. v \in Task /\ v.key = task[t].key /\ v.own = task[t].own
      BY <1>1 DEF Task
    <3>2. task' = [task EXCEPT ![t] = v]
      BY <2>4
    <3>3. v # None
      BY <3>1, NoneIsNew DEF OneClient
    <3> HIDE DEF v
    <3> QED
      BY <1>1, <2>4, <3>1, <3>2, <3>3
  <2> QED
    BY <2>1, <2>2, <2>3, <2>4 DEF FlushTask
<1>4. ASSUME NEW q, Here(Key(o, q)), Flushes(o, q), phase # "stopping" PROVE Flushes(o, q)'
  BY <1>3, <1>4 DEF Flushes
<1>5. TracksItsOwn'
  <2>1. \A q \in Keys : tracked[q] # None => tracked[q] \in Tasks
    BY DEF FeedsInv, TypeOK
  <2> QED
    BY <1>1, <1>2, <1>3, <2>1 DEF StreamsInv, TracksItsOwn
<1>6. CarriedIsFlushed(o, c)'
  <2>1. Carried(o)' = Carried(o)
    BY <1>2 DEF Carried
  <2> QED
    BY <1>2, <1>4, <2>1 DEF StreamsInv, OnlyStates, CarriedIsFlushed
<1>7. OnlyStates(o)' /\ CallKnows(o, c)' /\ OpenIsCarried(o)' /\ CarriedIsSubscribed(o, c)'
  BY <1>2 DEF StreamsInv, OnlyStates, CallKnows, OpenIsCarried, CarriedIsSubscribed, Carried, Here, RowsOf
<1> QED
  BY <1>5, <1>6, <1>7 DEF StreamsInv

LEMMA ResumeFollows ==
  ASSUME NEW o, NEW c, OneClient(o, c), FeedsInv, StreamsInv(o, c), ResumeNext
  PROVE  StreamsInv(o, c)'
<1>1. /\ phase = "booting" /\ call[c] = Idle /\ phase' \in {"booting", "up"} /\ UNCHANGED row /\ UNCHANGED agg
      /\ call[c].pc = "idle" /\ c \in Calls
  BY IdleType DEF ResumeNext, OneClient, db
<1>2. /\ OnlyStates(o)' /\ TracksItsOwn' /\ CarriedIsFlushed(o, c)' /\ OpenIsCarried(o)'
      /\ Carried(o)' = Carried(o) /\ \A q : RowsOf(o, q)' = RowsOf(o, q)
  BY <1>1, AllStays DEF RowsOf
<1>3. CarriedIsSubscribed(o, c)'
  BY <1>1, <1>2 DEF StreamsInv, CarriedIsSubscribed
<1>4. ASSUME UNCHANGED call PROVE CallKnows(o, c)'
  <2>1. call'[c] = Idle
    BY <1>1, <1>4
  <2> QED
    BY <2>1 DEF CallKnows, Idle
<1>5. ASSUME NEW r \in todo, call' = [call EXCEPT ![c] = [Idle EXCEPT !.op = "boot", !.pc = "start",
                                                     !.owner = row[r].owner, !.sym = row[r].sym]]
      PROVE  CallKnows(o, c)'
  <2>1. r \in Rows /\ row[r] # None /\ row[r].owner = o
    BY <1>1 DEF FeedsInv, TypeOK, BootInv, Sub, OneClient
  <2>2. call'[c].pc = "start" /\ call'[c].sym = row[r].sym /\ call'[c].row = None
    BY <1>1, <1>5 DEF FeedsInv, TypeOK, Idle
  <2>3. PICK s : s = row[r].sym
    OBVIOUS
  <2>4. RowsOf(o, s)' # {}
    BY <1>1, <2>1, <2>3 DEF RowsOf
  <2> QED
    BY <2>2, <2>3, <2>4 DEF CallKnows, RowsOf
<1>6. CallKnows(o, c)'
  BY <1>4, <1>5 DEF ResumeNext, OneClient
<1> QED
  BY <1>2, <1>3, <1>6 DEF StreamsInv

LEMMA PhaseFollows ==
  ASSUME NEW o, NEW c, OneClient(o, c), FeedsInv, StreamsInv(o, c), Boot \/ BeginStop
  PROVE  StreamsInv(o, c)'
<1>1. /\ phase' \in {"booting", "stopping"} /\ (phase' = "booting" => phase = "down")
      /\ UNCHANGED <<row, call>> /\ UNCHANGED agg /\ call[c] = Idle
  BY DEF Boot, BeginStop, db, FeedsInv, BootInv, OneClient
<1>2. call[c].pc = "idle"
  BY <1>1, IdleType
<1>3. /\ OnlyStates(o)' /\ TracksItsOwn' /\ CarriedIsFlushed(o, c)' /\ OpenIsCarried(o)'
      /\ Carried(o)' = Carried(o) /\ \A q : RowsOf(o, q)' = RowsOf(o, q)
  BY <1>1, <1>2, AllStays DEF RowsOf
<1>4. CarriedIsSubscribed(o, c)' /\ CallKnows(o, c)'
  BY <1>1, <1>3 DEF StreamsInv, CarriedIsSubscribed, CallKnows, Idle
<1> QED
  BY <1>3, <1>4 DEF StreamsInv

LEMMA ForgetFollows ==
  ASSUME NEW o, NEW c, OneClient(o, c), FeedsInv, StreamsInv(o, c), EndStop \/ Exit
  PROVE  StreamsInv(o, c)'
<1>1. Forget /\ o \in Owners
  BY DEF EndStop, Exit, OneClient
<1>2. \A h \in Handles : handle'[h] = None
  BY DEF EndStop, Exit, StreamsInv, OpenIsCarried, OneClient
<1>3. streams'[o] = None /\ states' = <<>> /\ \A k \in Keys : tracked'[k] = None
  BY <1>1 DEF Forget
<1>4. Carried(o)' = {}
  BY <1>3 DEF Carried
<1>5. OnlyStates(o)' /\ TracksItsOwn' /\ CarriedIsFlushed(o, c)' /\ OpenIsCarried(o)' /\ CarriedIsSubscribed(o, c)'
  BY <1>2, <1>3, <1>4 DEF OnlyStates, TracksItsOwn, CarriedIsFlushed, OpenIsCarried, CarriedIsSubscribed
<1>6. CASE Exit
  <2>1. call'[c] = Idle
    BY <1>6 DEF Exit, OneClient
  <2> QED
    BY <1>5, <2>1 DEF StreamsInv, CallKnows, Idle
<1>7. CASE EndStop
  <2>1. call'[c] = Idle
    BY <1>7 DEF EndStop, FeedsInv, BootInv, OneClient
  <2> QED
    BY <1>5, <2>1 DEF StreamsInv, CallKnows, Idle
<1> QED
  BY <1>6, <1>7

-----------------------------------------------------------------------------
LEMMA StreamsInit ==
  ASSUME NEW o, NEW c, OneClient(o, c), Init
  PROVE  StreamsInv(o, c)
<1>1. /\ call[c] = Idle /\ states = <<>> /\ streams[o] = None /\ (\A k \in Keys : tracked[k] = None)
      /\ \A h \in Handles : handle[h] = None
  BY DEF Init, OneClient
<1>2. Carried(o) = {}
  BY <1>1 DEF Carried
<1> QED
  BY <1>1, <1>2 DEF StreamsInv, OnlyStates, CallKnows, TracksItsOwn, CarriedIsFlushed, OpenIsCarried,
                    CarriedIsSubscribed, Idle

LEMMA StreamsStep ==
  ASSUME NEW o, NEW c, OneClient(o, c), FeedsInv, StreamsInv(o, c), [Next]_vars
  PROVE  StreamsInv(o, c)'
<1>1. CASE UNCHANGED vars
  BY <1>1 DEF vars, StreamsInv, OnlyStates, CallKnows, TracksItsOwn, CarriedIsFlushed, OpenIsCarried,
              CarriedIsSubscribed, Carried, Here, RowsOf, Flushes
<1>2. ASSUME NEW d \in Calls,
             \/ CreateSub(d) \/ PreStartChecks(d) \/ InsertConsumer(d) \/ PostStopActions(d) \/ Unsubscribe(d)
             \/ StartSubscription(d) \/ OpenStream(d) \/ RestartStream(d) \/ MarkRunning(d)
             \/ StopSubscription(d) \/ FinishStop(d)
      PROVE  StreamsInv(o, c)'
  <2>1. d = c
    BY DEF OneClient
  <2>2. ~RestartStream(c)
    BY DEF RestartStream, StreamsInv, CallKnows
  <2> QED
    BY <1>2, <2>1, <2>2, CreateFollows, PreStartFollows, InsertFollows, PostStopFollows, UnsubscribeFollows,
       StartFollows, OpenFollows, MarkFollows, StopFollows, FinishStopFollows
<1>3. ASSUME NEW t \in Tasks, FlushTask(t) PROVE StreamsInv(o, c)'
  BY <1>3, FlushFollows
<1> QED
  BY <1>1, <1>2, <1>3, ResumeFollows, PhaseFollows, ForgetFollows DEF Next

LEMMA StreamsAreRight ==
  ASSUME NEW o, NEW c, OneClient(o, c), FeedsInv, StreamsInv(o, c)
  PROVE  StreamedIsFlushed /\ StreamsFollowSubscriptions
<1>1. StreamedIsFlushed
  BY CarriedType DEF StreamedIsFlushed, StreamsInv, CarriedIsFlushed, Flushes, OneClient, FeedsInv
<1>2. StreamsFollowSubscriptions
  <2> SUFFICES ASSUME phase = "up", call[c] = Idle, NEW h \in Handles, handle[h] # None, NEW s \in handle[h].syms
               PROVE  RowsOf(handle[h].owner, s) # {}
    BY DEF StreamsFollowSubscriptions, OneClient
  <2>1. handle[h].owner = o
    BY DEF FeedsInv, TypeOK, Handle, OneClient
  <2>2. s \in Carried(o)
    BY DEF StreamsInv, OpenIsCarried, Carried
  <2> QED
    BY <2>1, <2>2, IdleType DEF StreamsInv, CarriedIsSubscribed
<1> QED
  BY <1>1, <1>2

(* Between the requests of one owner, that are served one at a time, every *)
(* open stream carries only symbols that have a subscription, and what it  *)
(* carries and the aggregator holds a state for has a flush task - through *)
(* stops, replaced tasks, restarts of the coordinator and kills.           *)
THEOREM StreamsFollowOneOwner ==
  ASSUME NEW o, NEW c, OneClient(o, c)
  PROVE  Spec => [](StreamedIsFlushed /\ StreamsFollowSubscriptions)
<1>1. Init => FeedsInv /\ StreamsInv(o, c)
  BY FeedsInit, StreamsInit DEF OneClient
<1>2. FeedsInv /\ StreamsInv(o, c) /\ [Next]_vars => FeedsInv' /\ StreamsInv(o, c)'
  BY FeedsStep, StreamsStep DEF OneClient
<1>3. FeedsInv /\ StreamsInv(o, c) => StreamedIsFlushed /\ StreamsFollowSubscriptions
  BY StreamsAreRight
<1> QED
  BY <1>1, <1>2, <1>3, PTL DEF Spec

=============================================================================
