---------------------------- MODULE ApiLifecycle ----------------------------
(***************************************************************************)
(* One life of the API process (api/main.ts over index.ts and the bindings *)
(* of composition-factory.ts): it acquires its bindings, starts a NestJS   *)
(* application on them, serves, and is stopped by a signal, which may come *)
(* at any time, as may a deadline or a failure of any part.                *)
(*                                                                         *)
(* A step is what runs between two awaits.  A second signal shares the     *)
(* first one's shutdown and changes nothing.  NestJS is external: its      *)
(* close ends the HTTP server and then calls the shutdown hook.            *)
(***************************************************************************)
EXTENDS Naturals, FiniteSets

VARIABLES
  main,         \* where runApiMain is
  acquisition,  \* what aborted the acquisition: "none", "deadline", "signal"
  open,         \* resources of the bindings that are open
  init,         \* the initialize promise of start
  nest,         \* the NestJS application
  hook,         \* bindings.close, memoised by stopAttempt
  cancelled,    \* the start is cancelled or has failed
  apiReady,     \* state.ready
  stop,         \* application.stop, memoised by shutdown
  terminal,     \* state of start and stop: no other start is accepted
  exit,         \* process.exitCode
  late          \* ghost: the cleanup of a start ran out of time

apiVars == <<main, acquisition, open, init, nest, hook, cancelled, apiReady,
             stop, terminal, exit, late>>

Resources == {"database", "sessions"}

ApiInit ==
  /\ main = "loading"
  /\ acquisition = "none"
  /\ open = {}
  /\ init = "none"
  /\ nest = "none"
  /\ hook = "none"
  /\ cancelled = FALSE
  /\ apiReady = FALSE
  /\ stop = "none"
  /\ terminal = FALSE
  /\ exit = "none"
  /\ late = FALSE

Settled == {"closed", "failed"}
Aborted == acquisition # "none"

-----------------------------------------------------------------------------
(* Acquiring the bindings.                                                 *)

\* SIGTERM or SIGINT, or the startup deadline, aborts the acquisition.
AbortAcquisition(cause) ==
  /\ main \in {"loading", "sessions", "oidc", "releasing"}
  /\ \/ acquisition = "none"
     \/ acquisition = "deadline" /\ cause = "signal"
  /\ acquisition' = cause
  /\ UNCHANGED <<main, open, init, nest, hook, cancelled, apiReady, stop, terminal, exit, late>>

\* process.exitCode ??= 1, unless the interruption was honoured.
AcquisitionOver(code) ==
  /\ main' = "over"
  /\ exit' = code

Loaded ==
  /\ main = "loading"
  /\ IF Aborted
     THEN AcquisitionOver(IF acquisition = "signal" THEN "success" ELSE "failure") /\ UNCHANGED open
     ELSE \/ main' = "sessions" /\ open' = {"database"} /\ UNCHANGED exit
          \/ AcquisitionOver("failure") /\ UNCHANGED open
  /\ UNCHANGED <<acquisition, init, nest, hook, cancelled, apiReady, stop, terminal, late>>

\* connectSessions, then createOidc: a failure, or an abort found after it,
\* releases what is there.
Connected ==
  /\ main = "sessions"
  /\ open' \in {open, Resources}
  /\ main' = IF open' = Resources /\ ~Aborted THEN "oidc" ELSE "releasing"
  /\ UNCHANGED <<acquisition, init, nest, hook, cancelled, apiReady, stop, terminal, exit, late>>

\* The bindings are complete and start follows in the same step; their
\* construction awaits nothing and is taken not to fail.
Discovered ==
  /\ main = "oidc"
  /\ \/ main' = "starting" /\ init' = "compatibility" /\ ~Aborted
     \/ main' = "releasing" /\ UNCHANGED init
  /\ UNCHANGED <<acquisition, open, nest, hook, cancelled, apiReady, stop, terminal, exit, late>>

\* closeResources: both closed, or a failure or the timeout leaves some; its
\* error is not the cancellation that an interruption expects.
Released ==
  /\ main = "releasing"
  /\ open' \in SUBSET open
  /\ AcquisitionOver(IF open' = {} /\ acquisition = "signal" THEN "success" ELSE "failure")
  /\ UNCHANGED <<acquisition, init, nest, hook, cancelled, apiReady, stop, terminal, late>>

-----------------------------------------------------------------------------
(* The close of the bindings and of the application.                       *)

HookCloses ==
  /\ hook = "closing"
  /\ open' \in SUBSET open
  /\ hook' = IF open' = {} THEN "closed" ELSE "failed"
  /\ UNCHANGED <<main, acquisition, init, nest, cancelled, apiReady, stop, terminal, exit, late>>

StartHook == hook' = IF hook = "none" THEN "closing" ELSE hook
CloseNest == nest' = IF nest \in {"created", "listening"} THEN "closing" ELSE nest

\* The server has ended; onApplicationShutdown calls the hook.
NestCloses ==
  /\ nest = "closing"
  /\ nest' = "closed"
  /\ StartHook
  /\ UNCHANGED <<main, acquisition, open, init, cancelled, apiReady, stop, terminal, exit, late>>

NestIsClosed == nest \in {"none", "closed"}

-----------------------------------------------------------------------------
(* start, and its initialize.                                              *)

Compatible ==
  /\ init = "compatibility"
  /\ \/ init' = IF cancelled THEN "failed" ELSE "creating"
     \/ init' = "failed"
  /\ UNCHANGED <<main, acquisition, open, nest, hook, cancelled, apiReady, stop, terminal, exit, late>>

Created ==
  /\ init = "creating"
  /\ \/ /\ nest' = IF cancelled THEN "closing" ELSE "created"
        /\ init' = IF cancelled THEN "closing" ELSE "listening"
     \/ init' = "failed" /\ UNCHANGED nest
  /\ UNCHANGED <<main, acquisition, open, hook, cancelled, apiReady, stop, terminal, exit, late>>

\* The server listens: the start succeeds in the same step, unless it was
\* cancelled, which also a start that ran out of time is.
Listening ==
  /\ init = "listening"
  /\ \/ /\ nest = "created" /\ ~cancelled
        /\ nest' = "listening" /\ init' = "ok" /\ main' = "running"
        /\ apiReady' = TRUE
     \/ /\ nest = "created" /\ cancelled
        /\ nest' = "closing" /\ init' = "closing"
        /\ UNCHANGED <<main, apiReady>>
     \/ init' = "failed" /\ UNCHANGED <<main, nest, apiReady>>
  /\ UNCHANGED <<acquisition, open, hook, cancelled, stop, terminal, exit, late>>

InitCloses ==
  /\ init = "closing"
  /\ NestIsClosed /\ hook \in Settled
  /\ init' = "failed"
  /\ UNCHANGED <<main, acquisition, open, nest, hook, cancelled, apiReady, stop, terminal, exit, late>>

\* initialize failed or was cancelled, or the deadline came first: everything
\* is closed, side by side.
StartFails ==
  /\ main = "starting"
  /\ main' = "cleaning"
  /\ cancelled' = TRUE
  /\ apiReady' = FALSE
  /\ StartHook
  /\ CloseNest
  /\ UNCHANGED <<acquisition, open, init, stop, terminal, exit, late>>

\* All three have settled, or the cleanup's deadline is over.  The rejection of
\* initialize is among the three: a start that failed is always terminal.
CleanupEnds ==
  /\ main = "cleaning"
  /\ \/ init = "failed" /\ NestIsClosed /\ hook \in Settled /\ UNCHANGED late
     \/ late' = TRUE
  /\ terminal' = TRUE
  /\ main' = "over"
  /\ exit' = IF exit = "none" THEN "failure" ELSE exit
  /\ UNCHANGED <<acquisition, open, init, nest, hook, cancelled, apiReady, stop>>

-----------------------------------------------------------------------------
(* stop.                                                                   *)

\* A defect: a start under way is waited for but not cancelled.
SignalWaits ==
  /\ main \in {"starting", "cleaning", "running"}
  /\ stop = "none"
  /\ apiReady' = FALSE
  /\ IF main = "running"
     THEN stop' = "closing" /\ CloseNest
     ELSE stop' = "waiting" /\ UNCHANGED nest
  /\ UNCHANGED <<main, acquisition, open, init, hook, cancelled, terminal, exit, late>>

Signal ==
  /\ main \in {"starting", "cleaning", "running"}
  /\ stop = "none"
  /\ apiReady' = FALSE
  /\ IF main = "running"
     THEN stop' = "closing" /\ CloseNest /\ UNCHANGED cancelled
     ELSE stop' = "waiting" /\ cancelled' = TRUE /\ UNCHANGED nest
  /\ UNCHANGED <<main, acquisition, open, init, hook, terminal, exit, late>>

StopEnds(how, code) ==
  /\ stop' = how
  /\ exit' = code
  /\ terminal' = (terminal \/ how = "failed")
  /\ main' = IF main = "running" THEN "over" ELSE main
  /\ UNCHANGED <<acquisition, open, init, nest, hook, cancelled, apiReady, late>>

\* The start it waited for has failed: there is no application to close.
StopFindsNothing ==
  /\ stop = "waiting"
  /\ main = "over"
  /\ StopEnds("ok", "success")

StopCloses ==
  /\ stop = "closing"
  /\ NestIsClosed /\ hook \in Settled
  /\ IF hook = "closed" THEN StopEnds("ok", "success") ELSE StopEnds("failed", "failure")

StopTimesOut ==
  /\ stop \in {"waiting", "closing"}
  /\ stop = "waiting" => main # "over"
  /\ StopEnds("failed", "failure")

ApiNext ==
  \/ \E cause \in {"signal", "deadline"} : AbortAcquisition(cause)
  \/ Loaded \/ Connected \/ Discovered \/ Released
  \/ HookCloses \/ NestCloses
  \/ Compatible \/ Created \/ Listening \/ InitCloses
  \/ StartFails \/ CleanupEnds
  \/ Signal \/ StopFindsNothing \/ StopCloses \/ StopTimesOut

ApiSpec == ApiInit /\ [][ApiNext]_apiVars

-----------------------------------------------------------------------------
(* Properties.                                                             *)

\* The API says it is ready only while its application listens on open
\* resources and nobody has asked it to stop (index.ts:445-446, 470-490).
ReadyIsHonest ==
  apiReady => /\ nest = "listening" /\ open = Resources
              /\ stop = "none" /\ ~cancelled

\* README: production "closes acquired resources on failed initialization or
\* shutdown".  Exit code 0 answers a signal, and then nothing is open any more,
\* neither a resource nor the application, unless the signal met a start whose
\* close of the bindings failed or whose cleanup ran out of time; a shutdown of
\* the running application has no such excuse (index.ts:454-500, main.ts:55-63).
ExitIsHonest ==
  /\ exit = "success" =>
       /\ acquisition = "signal" \/ stop = "ok"
       /\ late \/ hook = "failed" \/ (open = {} /\ NestIsClosed)
  /\ exit = "success" /\ nest # "none" /\ ~cancelled => open = {} /\ NestIsClosed

\* The two together: what the process tells its supervisor.
ApiIsHonest == ReadyIsHonest /\ ExitIsHonest

=============================================================================
