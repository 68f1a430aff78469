----------------------------- MODULE StreamHandles -----------------------------
(***************************************************************************)
(* The handle of one market-data stream and the thread behind it.          *)
(*                                                                         *)
(* Tradier's thread asks for a list of symbols in one long HTTP request,   *)
(* and a change of the list closes the response so that it asks again.     *)
(* Alpaca's runs the library's stream once and changes what it subscribes  *)
(* to in place.  Polygon's and Coinbase's subscribe once per connection    *)
(* and refuse changes.  ThetaData's polls for today's bars.                *)
(*                                                                         *)
(* Nobody calls set_on_disconnect, so a handle that fires only fires:      *)
(* LiveFeeds has streams that die unnoticed.                               *)
(***************************************************************************)
EXTENDS Integers, Sequences

CONSTANTS
  Symbols,
  MaxChanges,     \* calls of add_symbols and remove_symbols
  MaxBars         \* bars of ThetaData's symbol

VARIABLES
  kind,       \* "tradier", "alpaca", "polygon", "coinbase" or "theta"
  wanted,     \* the symbols that the handle was told
  carried,    \* those that the connection, or the request under way, asks for
  thread,     \* "loop", "session", "ask", "reading", "backoff" or "over"
  response,   \* the stored response: "none", "open" or "closed"
  stop,       \* has close() been called?
  fired,      \* history: did the handle fire on_disconnect?
  refused,    \* history: was the key refused?
  raced,      \* history: did the list change while a request was under way?
  broken,     \* history: did the library raise in a change?
  changes,
  bars,       \* the day of each bar that ThetaData has
  emitted     \* the bars that the thread passed on

threadVars == <<thread, carried, response, fired, refused, raced>>
pollVars   == <<bars, emitted>>
vars == <<kind, wanted, stop, broken, changes, threadVars, pollVars>>

Init ==
  /\ kind \in {"tradier", "alpaca", "polygon", "coinbase", "theta"}
  /\ \E s \in Symbols : wanted = {s}
  /\ carried = (IF kind = "alpaca" THEN wanted ELSE {})
  /\ thread = (IF kind = "alpaca" THEN "reading" ELSE "loop")
  /\ response = "none" /\ changes = 0 /\ bars = <<>> /\ emitted = <<>>
  /\ stop = FALSE /\ fired = FALSE /\ refused = FALSE /\ raced = FALSE /\ broken = FALSE

-----------------------------------------------------------------------------
(* The loop of Tradier, Polygon and Coinbase *)

Loops       == kind \in {"tradier", "polygon", "coinbase"}
Shut        == response' = IF response = "open" THEN "closed" ELSE response
ThreadOnly  == UNCHANGED <<kind, wanted, stop, broken, changes, pollVars>>

Loop ==
  /\ Loops /\ thread = "loop" /\ thread' = (IF stop THEN "over" ELSE "session")
  /\ ThreadOnly /\ UNCHANGED <<carried, response, fired, refused, raced>>

(* Tradier: a session, and the list as it is when the request is built. *)
ObtainSession ==
  /\ kind = "tradier" /\ thread = "session" /\ thread' = "ask"
  /\ carried' = wanted /\ raced' = FALSE
  /\ ThreadOnly /\ UNCHANGED <<response, fired, refused>>

GetStream ==
  /\ thread = "ask" /\ thread' = "reading" /\ response' = "open"
  /\ ThreadOnly /\ UNCHANGED <<carried, fired, refused, raced>>

(* Polygon and Coinbase: connect, authenticate, subscribe. *)
Subscribe ==
  /\ kind \in {"polygon", "coinbase"} /\ thread = "session" /\ thread' = "reading"
  /\ carried' = wanted
  /\ ThreadOnly /\ UNCHANGED <<response, fired, refused, raced>>

AuthFailed ==
  /\ kind = "polygon" /\ thread = "session" /\ thread' = "over" /\ refused' = TRUE
  /\ ThreadOnly /\ UNCHANGED <<carried, response, fired, raced>>

(* The server ends the response, a change closed it, or a line comes and    *)
(* stop is set.  The websockets look at stop every 5 s.                     *)
ReadingEnds ==
  /\ Loops /\ thread = "reading" /\ (kind = "tradier" \/ stop)
  /\ thread' = "loop" /\ Shut
  /\ fired' = (fired \/ ~stop)
  /\ ThreadOnly /\ UNCHANGED <<carried, refused, raced>>

(* Only Tradier's handle reports. *)
Fails ==
  /\ Loops /\ thread \in {"session", "ask", "reading"}
  /\ thread' = (IF stop THEN "over" ELSE "backoff") /\ Shut
  /\ fired' = (fired \/ (kind = "tradier" /\ ~stop))
  /\ ThreadOnly /\ UNCHANGED <<carried, refused, raced>>

BackoffEnds ==
  /\ thread = "backoff" /\ thread' = (IF stop THEN "over" ELSE "loop")
  /\ ThreadOnly /\ UNCHANGED <<carried, response, fired, refused, raced>>

(* Alpaca: run() returns or raises. *)
(* Mutant: only a run that raises is reported. *)
FiresIfRaised == \E raised \in BOOLEAN : fired' = (fired \/ (raised /\ ~stop))
Fires         == fired' = (fired \/ ~stop)

RunEnds ==
  /\ kind = "alpaca" /\ thread = "reading" /\ thread' = "over" /\ Fires
  /\ ThreadOnly /\ UNCHANGED <<carried, response, refused, raced>>

-----------------------------------------------------------------------------
(* The calls of other threads *)

(* Closes the response that is stored; one that is being asked for is not. *)
ForceReconnect ==
  /\ Shut /\ raced' = (raced \/ thread = "ask")
  /\ UNCHANGED <<carried, broken>>

(* Alpaca's subscriptions are changed in place; the library may raise       *)
(* after the handle's map was changed.                                      *)
InPlace ==
  /\ \/ carried' = wanted' /\ UNCHANGED broken
     \/ broken' = TRUE /\ UNCHANGED carried
  /\ UNCHANGED <<response, raced>>

Change(symbols) ==
  /\ kind \in {"tradier", "alpaca"} /\ changes < MaxChanges /\ symbols # wanted
  /\ changes' = changes + 1 /\ wanted' = symbols
  /\ IF kind = "tradier" THEN ForceReconnect ELSE InPlace
  /\ UNCHANGED <<kind, stop, thread, fired, refused, pollVars>>

AddSymbols(S)    == Change(wanted \cup S)
RemoveSymbols(S) == Change(wanted \ S)

(* The thread may outlive the join, which waits 2 or 3 s. *)
Close ==
  /\ ~stop /\ stop' = TRUE /\ Shut
  /\ UNCHANGED <<kind, wanted, broken, changes, thread, carried, fired, refused, raced, pollVars>>

-----------------------------------------------------------------------------
(* ThetaData *)

Today     == IF bars = <<>> THEN 1 ELSE bars[Len(bars)]
LastBar   == IF emitted = <<>> THEN 0 ELSE emitted[Len(emitted)]

BarAppears ==
  /\ kind = "theta" /\ Len(bars) < MaxBars
  /\ \E d \in {Today, Today + 1} : bars' = Append(bars, d)
  /\ UNCHANGED <<kind, wanted, stop, broken, changes, threadVars, emitted>>

(* Today's bars that are newer than the last one; an error means none. *)
PollSymbol ==
  /\ kind = "theta" /\ thread = "loop" /\ ~stop
  /\ emitted' = emitted \o SelectSeq([i \in DOMAIN bars |-> i],
                                     LAMBDA i : bars[i] = Today /\ i > LastBar)
  /\ UNCHANGED <<kind, wanted, stop, broken, changes, threadVars, bars>>

PollStops ==
  /\ kind = "theta" /\ thread = "loop" /\ stop /\ thread' = "over"
  /\ ThreadOnly /\ UNCHANGED <<carried, response, fired, refused, raced>>

Next ==
  \/ Loop \/ ObtainSession \/ GetStream \/ Subscribe \/ AuthFailed \/ ReadingEnds \/ Fails
  \/ BackoffEnds \/ RunEnds \/ Close \/ BarAppears \/ PollSymbol \/ PollStops
  \/ \E s \in Symbols : AddSymbols({s}) \/ RemoveSymbols({s})

Spec == Init /\ [][Next]_vars

-----------------------------------------------------------------------------
TypeOK ==
  /\ wanted \cup carried \subseteq Symbols /\ response \in {"none", "open", "closed"}
  /\ thread \in {"loop", "session", "ask", "reading", "backoff", "over"}
  /\ {stop, fired, refused, raced, broken} \subseteq BOOLEAN

(* An open stream carries what its handle was told, unless the list changed *)
(* while the request was under way.  The comment of add_symbols has no      *)
(* such exception.                                                          *)
CarriesWanted ==
  thread = "reading" /\ response # "closed" /\ ~raced /\ ~broken => carried = wanted

(* A thread does not end unless it was closed, has reported, or the key was *)
(* refused.                                                                 *)
EndIsKnown == thread = "over" => stop \/ fired \/ refused

(* Each bar is passed on at most once and in order, and bars are skipped    *)
(* only at midnight.                                                        *)
BarsOnce ==
  \A i \in 1..Len(emitted) - 1 :
    /\ emitted[i] < emitted[i + 1]
    /\ \A b \in emitted[i] + 1..emitted[i + 1] - 1 : bars[b] < bars[emitted[i + 1]]
=============================================================================
