----------------------------- MODULE GateProcess -----------------------------
(* The life of the gate's process: main.py loads the configuration and runs   *)
(* the app, whose lifespan (app.py) starts one poller task per backend and,   *)
(* at shutdown, cancels and awaits them one by one before it closes the       *)
(* shared upstream client.  A poller that ends by an exception takes the      *)
(* process down through its done-callback.                                    *)
EXTENDS Poller

VARIABLES
  phase,      \* of the lifespan
  stops,      \* how many pollers the shutdown has told to stop, in config order
  exit_code   \* of the process, None while it runs

processVars == <<phase, stops, exit_code>>
allVars == <<vars, processVars>>

Phases == {"loading", "serving", "stopping", "closed", "failed", "exited"}

ProcessTypeOK ==
  /\ TypeOK
  /\ phase \in Phases
  /\ stops \in 0..Len(BackendOrder)
  /\ exit_code \in {None, 0, 1}

ProcessInit ==
  /\ Init
  /\ phase = "loading"
  /\ stops = 0
  /\ exit_code = None

Told == {BackendOrder[i] : i \in 1..stops}

Exits(code) == phase' = "exited" /\ exit_code' = code

-----------------------------------------------------------------------------
(* main and the lifespan.                                                     *)

\* A ConfigError exits before anything is started.
Refuses == phase = "loading" /\ Exits(1) /\ UNCHANGED <<vars, stops>>

Serves == phase = "loading" /\ phase' = "serving" /\ UNCHANGED <<vars, stops, exit_code>>

\* uvicorn has drained its requests (external); the first task is cancelled.
Shuts ==
  /\ phase = "serving"
  /\ phase' = "stopping"
  /\ stops' = 1
  /\ UNCHANGED <<vars, exit_code>>

\* Mutant of Awaited: the tasks are cancelled but not awaited.
AwaitedNot ==
  /\ phase = "stopping"
  /\ IF stops < Len(BackendOrder)
     THEN stops' = stops + 1 /\ UNCHANGED phase
     ELSE phase' = "closed" /\ UNCHANGED stops
  /\ UNCHANGED <<vars, exit_code>>

\* The awaited task has ended by its cancellation: the next one is cancelled,
\* and after the last one the client is closed.
Awaited ==
  /\ phase = "stopping"
  /\ task[BackendOrder[stops]] = "cancelled"
  /\ IF stops < Len(BackendOrder)
     THEN stops' = stops + 1 /\ UNCHANGED phase
     ELSE phase' = "closed" /\ UNCHANGED stops
  /\ UNCHANGED <<vars, exit_code>>

\* Awaiting a task that died raises its exception in the lifespan.
AwaitedRaises ==
  /\ phase = "stopping"
  /\ task[BackendOrder[stops]] = "raised"
  /\ phase' = "failed"
  /\ UNCHANGED <<vars, stops, exit_code>>

Returns == phase = "closed" /\ Exits(0) /\ UNCHANGED <<vars, stops>>

\* Mutant of Fatal: a task that was cancelled is taken for one that died.
FatalAnyEnd(b) ==
  /\ phase # "exited"
  /\ task[b] \in Ends
  /\ Exits(1)
  /\ UNCHANGED <<vars, stops>>

\* Mutant of Fatal: the callback of a task leaves a gate that still serves alone.
FatalStopping(b) ==
  /\ phase \in {"stopping", "failed", "closed"}
  /\ task[b] = "raised"
  /\ Exits(1)
  /\ UNCHANGED <<vars, stops>>

\* _poller_fatal runs after the task has ended, in the same loop.
Fatal(b) ==
  /\ phase # "exited"
  /\ task[b] = "raised"
  /\ Exits(1)
  /\ UNCHANGED <<vars, stops>>

-----------------------------------------------------------------------------
(* The pollers inside the process: they run from the start of the lifespan    *)
(* on, and one that was told to stop resumes only to be cancelled.            *)

Running == phase \in {"serving", "stopping", "closed", "failed"}

PollerStep(b) ==
  /\ Running
  /\ b \notin Told
  /\ Step(b)
  /\ UNCHANGED processVars

\* Mutant of Stops: a task that is in a call swallows the cancellation.
StopsIfAsleep(b) ==
  /\ Running
  /\ b \in Told
  /\ task[b] = "sleep"
  /\ Cancelled(b)
  /\ UNCHANGED processVars

Stops(b) ==
  /\ Running
  /\ b \in Told
  /\ Cancelled(b)
  /\ UNCHANGED processVars

TimePasses(b) == Running /\ Passes(b) /\ UNCHANGED processVars

BackendChanges(b) == Running /\ Redeploys(b) /\ UNCHANGED processVars

ProcessNext ==
  \/ Refuses \/ Serves \/ Shuts \/ Awaited \/ AwaitedRaises \/ Returns
  \/ \E b \in Backends :
       Fatal(b) \/ PollerStep(b) \/ Stops(b) \/ TimePasses(b) \/ BackendChanges(b)

ProcessSpec == ProcessInit /\ [][ProcessNext]_allVars

\* The loop runs what is ready: a task that was cancelled, the lifespan when
\* what it awaits has ended, a done-callback.  No poll has to end.
ProcessFairSpec ==
  /\ ProcessSpec
  /\ WF_allVars(Awaited) /\ WF_allVars(AwaitedRaises) /\ WF_allVars(Returns)
  /\ \A b \in Backends : WF_allVars(Stops(b)) /\ WF_allVars(Fatal(b))

-----------------------------------------------------------------------------
(* Properties.                                                                *)

\* The shared client is closed only when no poller can use it any more, whatever
\* the pollers were doing when the shutdown came (app.py:552-558).
ClientOutlivesPollers ==
  phase = "closed" \/ exit_code = 0 => \A b \in Backends : task[b] \in Ends

\* No poller has run since the process started.
Unstarted == \A b \in Backends : task[b] = "metrics" /\ elapsed[b] = 0 /\ since[b] = None

\* A process whose pollers have run fails only for a poller that died, never for
\* those a shutdown cancels, and a poller that died is never reported as a clean
\* exit (app.py:399-414, 549-558).
ExitCodeTruthful ==
  /\ exit_code = 1 => Unstarted \/ \E b \in Backends : task[b] = "raised"
  /\ exit_code = 0 => \A b \in Backends : task[b] = "cancelled"

\* The gate does not keep serving with a feed that nothing updates any more: the
\* death of a poller ends the process (app.py:399-414).
DeathEndsTheProcess == \A b \in Backends : task[b] = "raised" ~> exit_code = 1

\* A shutdown that reached the lifespan ends, although no poll has to
\* (app.py:549-558, poller.py:458-460).
ShutdownEnds == phase = "stopping" ~> phase = "exited"
=============================================================================
