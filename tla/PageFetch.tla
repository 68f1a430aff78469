------------------------------ MODULE PageFetch ------------------------------
(***************************************************************************)
(* A provider that several tasks use at once: PolygonProvider paces its    *)
(* requests, tries each of them again, and follows the pages of a range;   *)
(* the download saves every page with DataService.save_market_data, which  *)
(* reads the file, adds the bars and writes it, in a thread.  The tasks    *)
(* ask for different ranges of one symbol, and so write one file.          *)
(***************************************************************************)
EXTENDS Naturals

CONSTANTS
  Callers,
  NumPages,    \* pages of every range
  Interval,    \* least time between two requests
  RetryAfter,  \* what a 429 asks for
  MaxRetries,  \* tries of one request
  MaxNow       \* a bound: the clock

ConstantsAssumption == {NumPages, Interval, RetryAfter, MaxRetries} \subseteq Nat \ {0}

VARIABLES
  now,
  last,        \* _last_request_ts; 0 before the first request, which is long ago
  pc,          \* "idle", "ask", "pace", "sent", "sleep", "read", "write", "orphan" or an end
  page,        \* pages that were followed
  attempt,
  wake,        \* when a sleep is over
  view,        \* the file as a save has read it
  file,        \* pages <<caller, page>> in the file
  saved,       \* history: pages that a caller has saved
  partial,     \* history: callers whose pagination stopped at an error
  crowded,     \* history: a request was sent too soon after the one before
  abreast,     \* history: a caller asked while another one was about to send
  torn         \* history: a save read the file while another one was at it

vars == <<now, last, pc, page, attempt, wake, view, file, saved, partial, crowded, abreast, torn>>

Ends == {"ended", "raised", "failed", "cancelled"}

Init ==
  /\ now = Interval /\ last = 0
  /\ pc = [c \in Callers |-> "idle"] /\ page = [c \in Callers |-> 0]
  /\ attempt = [c \in Callers |-> 0] /\ wake = [c \in Callers |-> 0]
  /\ view = [c \in Callers |-> {}] /\ file = {} /\ saved = [c \in Callers |-> 0]
  /\ partial = {} /\ crowded = FALSE /\ abreast = FALSE /\ torn = FALSE

Goto(c, to) == pc' = [pc EXCEPT ![c] = to]

Tick ==
  /\ now < MaxNow /\ now' = now + 1
  /\ UNCHANGED <<last, pc, page, attempt, wake, view, file, saved, partial, crowded, abreast, torn>>

FetchBars(c) ==
  /\ pc[c] = "idle" /\ Goto(c, "ask")
  /\ UNCHANGED <<now, last, page, attempt, wake, view, file, saved, partial, crowded, abreast, torn>>

-----------------------------------------------------------------------------
(* _request_with_retry.  The time of the last request is read before the    *)
(* sleep and is not read again after it.                                    *)

Send(c) ==
  /\ Goto(c, "sent") /\ last' = now
  /\ crowded' = (crowded \/ now < last + Interval)
  /\ UNCHANGED <<now, page, attempt, wake, view, file, saved, partial, torn>>

(* Mutant: the pause is counted from now on. *)
WrongPause == now + 1
PauseEnds  == last + Interval

Pace(c) ==
  /\ pc[c] = "ask"
  /\ IF PauseEnds > now
     THEN /\ Goto(c, "pace") /\ wake' = [wake EXCEPT ![c] = PauseEnds]
          /\ abreast' = (abreast \/ \E d \in Callers \ {c} : pc[d] = "pace")
          /\ UNCHANGED <<now, last, page, attempt, view, file, saved, partial, crowded, torn>>
     ELSE Send(c) /\ abreast' = (abreast \/ \E d \in Callers \ {c} : pc[d] = "pace")

Awake(c, at) == pc[c] = at /\ now >= wake[c]

PaceEnds(c) == Awake(c, "pace") /\ Send(c) /\ UNCHANGED abreast

Answered(c) ==
  /\ pc[c] = "sent" /\ Goto(c, "read")
  /\ UNCHANGED <<now, last, page, attempt, wake, view, file, saved, partial, crowded, abreast, torn>>

(* 429 or 5xx, which back off by 2 ** attempt. *)
Later(c) ==
  /\ pc[c] = "sent" /\ Goto(c, "sleep")
  /\ \E pause \in {RetryAfter, 2 ^ attempt[c]} : wake' = [wake EXCEPT ![c] = now + pause]
  /\ attempt' = [attempt EXCEPT ![c] = @ + 1]
  /\ UNCHANGED <<now, last, page, view, file, saved, partial, crowded, abreast, torn>>

(* An error of the first page is raised; one of a later page ends the range. *)
Fails(c) ==
  /\ Goto(c, IF page[c] = 0 THEN "raised" ELSE "ended")
  /\ partial' = partial \cup {d \in {c} : page[d] > 0}
  /\ UNCHANGED <<now, last, page, attempt, wake, view, file, saved, crowded, abreast, torn>>

Refused(c) == pc[c] = "sent" /\ Fails(c)

SleepEnds(c) ==
  /\ Awake(c, "sleep")
  /\ \/ attempt[c] = MaxRetries /\ Fails(c)
     \/ /\ attempt[c] < MaxRetries /\ Goto(c, "ask")
        /\ UNCHANGED <<now, last, page, attempt, wake, view, file, saved, partial, crowded,
                       abreast, torn>>

-----------------------------------------------------------------------------
(* on_bars, save_market_data *)

Saving(c) == pc[c] \in {"write", "orphan"}

ReadFile(c) ==
  /\ pc[c] = "read" /\ Goto(c, "write") /\ view' = [view EXCEPT ![c] = file]
  /\ torn' = (torn \/ \E d \in Callers \ {c} : Saving(d))
  /\ UNCHANGED <<now, last, page, attempt, wake, file, saved, partial, crowded, abreast>>

WriteFile(c) ==
  /\ file' = view[c] \cup {<<c, page[c]>>}
  /\ saved' = [saved EXCEPT ![c] = page[c] + 1]
  /\ UNCHANGED <<now, last, wake, view, partial, crowded, abreast, torn>>

(* Mutant: the page before the last one has no next_url. *)
OneEarly(c) == page[c] + 2 >= NumPages
LastPage(c) == page[c] + 1 = NumPages

PageSaved(c) ==
  /\ pc[c] = "write" /\ WriteFile(c)
  /\ Goto(c, IF LastPage(c) THEN "ended" ELSE "ask")
  /\ page' = [page EXCEPT ![c] = IF LastPage(c) THEN @ ELSE @ + 1]
  /\ attempt' = [attempt EXCEPT ![c] = 0]

(* The save raises. *)
SaveFails(c) ==
  /\ pc[c] = "write" /\ Goto(c, "failed")
  /\ UNCHANGED <<now, last, page, attempt, wake, view, file, saved, partial, crowded, abreast, torn>>

(* A cancelled task does not wait for the thread, which writes all the same. *)
OrphanSaves(c) ==
  /\ pc[c] = "orphan" /\ WriteFile(c) /\ Goto(c, "cancelled") /\ UNCHANGED <<page, attempt>>

Cancel(c) ==
  /\ pc[c] \notin Ends \cup {"idle", "orphan"}
  /\ Goto(c, IF pc[c] = "write" THEN "orphan" ELSE "cancelled")
  /\ UNCHANGED <<now, last, page, attempt, wake, view, file, saved, partial, crowded, abreast, torn>>

Next ==
  \/ Tick
  \/ \E c \in Callers :
       \/ FetchBars(c) \/ Pace(c) \/ PaceEnds(c) \/ Answered(c) \/ Later(c) \/ Refused(c)
       \/ SleepEnds(c) \/ ReadFile(c) \/ PageSaved(c) \/ SaveFails(c) \/ OrphanSaves(c)
       \/ Cancel(c)

-----------------------------------------------------------------------------
TypeOK ==
  /\ now \in 0..MaxNow /\ last \in 0..now
  /\ page \in [Callers -> 0..NumPages - 1] /\ attempt \in [Callers -> 0..MaxRetries]
  /\ file \subseteq Callers \X (0..NumPages - 1) /\ saved \in [Callers -> 0..NumPages]

(* Requests are an interval apart, unless two callers asked at once.          *)
Paced == crowded => abreast

(* A page that was saved stays in the file, however its task ended, unless    *)
(* two saves overlapped ("a cancel or crash mid-pagination still leaves       *)
(* earlier pages on disk", download_manager.py:383).                          *)
PagesStay ==
  torn \/ \A c \in Callers : \A n \in 0..saved[c] - 1 : <<c, n>> \in file

(* A fetch that raises for a request has saved nothing, and one that ends has *)
(* saved every page up to the last or up to an error.                         *)
EndIsTrue ==
  \A c \in Callers :
    /\ pc[c] = "raised" => saved[c] = 0
    /\ pc[c] = "ended" => saved[c] = IF c \in partial THEN page[c] ELSE NumPages

(* Not so: a range that ended without an exception is whole; requests are     *)
(* always an interval apart; a page that was saved is always in the file.     *)
EndedIsWhole   == \A c \in Callers : pc[c] = "ended" => saved[c] = NumPages
AlwaysPaced    == ~crowded
PagesAreInFile == \A c \in Callers : \A n \in 0..saved[c] - 1 : <<c, n>> \in file
=============================================================================
