------------------------------ MODULE RunView -------------------------------
(***************************************************************************)
(* The run page of the dashboard beside the reporter: it polls the run and *)
(* its events until the run it is given is terminal, and shows the last    *)
(* answer.  The route reads the row first, the events after it.            *)
(***************************************************************************)
EXTENDS Reporter, FiniteSets

CONSTANT MaxShown  \* events of one answer, 1000 in the code

ASSUME MaxShownAssumption == MaxShown \in Nat

VARIABLES
  poll,    \* the poll in progress, by what its read of the row found
  ended,   \* the page has been given a terminal run: its timer stops
  shown,   \* the events it shows
  settled  \* what was stored when the run became terminal (ghost)

viewVars == <<reporterVars, poll, ended, shown, settled>>

ViewTypeOK ==
  /\ ReporterTypeOK
  /\ poll \in {"none", "live", "over"}
  /\ ended \in BOOLEAN
  /\ shown \subseteq 0..(MaxEvents - 1)
  /\ settled \subseteq 0..(MaxEvents - 1)

ViewInit ==
  /\ ReporterInit
  /\ poll = "none" /\ ended = FALSE /\ shown = {}
  /\ settled = {}

\* The answer of the query: the lowest numbers first, and MaxShown of them.
FirstOf(events) ==
  {s \in events : Cardinality({e \in events : e < s}) < MaxShown}

\* A poll of the timer, or one asked for: the page is opened again, or its user has
\* cancelled the run.  One is in flight at a time.
GetRun ==
  /\ poll = "none"
  /\ poll' = IF over THEN "over" ELSE "live"
  /\ UNCHANGED <<reporterVars, ended, shown, settled>>

GetRunEvents ==
  /\ poll # "none"
  /\ shown' = FirstOf(stored)
  /\ ended' = (poll = "over")
  /\ poll' = "none"
  /\ UNCHANGED <<reporterVars, settled>>

\* Mutant: events that could not be read are shown as none.
EventsErrorIgnored ==
  /\ poll # "none"
  /\ shown' = {}
  /\ ended' = (poll = "over")
  /\ poll' = "none"
  /\ UNCHANGED <<reporterVars, settled>>

\* Either read fails, or the answer is lost: what the page has stays.
PollFails ==
  /\ poll # "none"
  /\ poll' = "none"
  /\ UNCHANGED <<reporterVars, ended, shown, settled>>

\* A step of the reporter or of its routes.
Beside(step) ==
  /\ step
  /\ settled' = IF over' /\ ~over THEN stored ELSE settled
  /\ UNCHANGED <<poll, ended, shown>>

ViewNext == Beside(ReporterNext) \/ GetRun \/ GetRunEvents \/ PollFails

ViewSpec == ViewInit /\ [][ViewNext]_viewVars

-----------------------------------------------------------------------------
(* Properties                                                              *)

\* workers/runs route: "polls this ... until terminal".  A page that has stopped polling
\* shows every event the run had when it became terminal, as far as one answer goes.
LastPollShowsAll == ended => FirstOf(settled) \subseteq shown
=============================================================================
