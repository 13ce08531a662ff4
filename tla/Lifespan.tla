------------------------------- MODULE Lifespan -------------------------------
(***************************************************************************)
(* The life of one backend process (lifespan() in main.py): its parts are  *)
(* started in order, what was started is undone if a start raises, and all *)
(* is stopped at the end; modules go through core/module_registry.py.      *)
(*                                                                         *)
(* What runs: the database's engine, InfluxDB's client, the tasks of the   *)
(* delivery, schema and field workers and of the MQTT adapter, and the     *)
(* modules between a start() that returned and a stop() that returned.     *)
(***************************************************************************)
EXTENDS Naturals, Sequences, FiniteSets

CONSTANTS
    Modules,
    ModuleOrder,        \* the modules in the order they are registered
    Unregistered        \* those that something may unregister while the app serves

ASSUME LifespanAssumption ==
    /\ ModuleOrder \in Seq(Modules)
    /\ \A m \in Modules : \E i \in DOMAIN ModuleOrder : ModuleOrder[i] = m
    /\ \A i, j \in DOMAIN ModuleOrder : ModuleOrder[i] = ModuleOrder[j] => i = j
    /\ Unregistered \subseteq Modules
    /\ Modules \cap {"database", "influx", "delivery", "schema", "field", "mqtt"} = {}

VARIABLES
    phase,      \* where lifespan() is
    step,       \* the step of StartSteps or StopSteps it is at
    settings,   \* the parts that are configured
    running,
    started,    \* _started_module_ids
    registered, \* the keys of _modules
    raised,     \* the parts whose stopping raised
    failed,     \* a start raised
    cancelled   \* lifespan() was cancelled while it stopped something

vars == <<phase, step, settings, running, started, registered, raised, failed, cancelled>>

Parts == {"database", "influx", "delivery", "schema", "field", "mqtt"}

\* Faulty variant: the delivery worker is started before InfluxDB's client.
StartStepsWorkerFirst ==
    <<"database">> \o ModuleOrder \o <<"delivery", "influx", "schema", "field", "mqtt">>

StartSteps ==
    <<"database">> \o ModuleOrder \o <<"influx", "delivery", "schema", "field", "mqtt">>

\* Faulty variant: InfluxDB's client is closed under the delivery worker.
StopStepsClientFirst ==
    <<"mqtt", "schema", "field", "influx", "delivery", "modules", "database">>

StopSteps == <<"mqtt", "schema", "field", "delivery", "influx", "modules", "database">>

\* The validators of Settings: delivery goes with InfluxDB, all need a database.
ValidSettings ==
    {s \in SUBSET Parts : /\ s # {} => "database" \in s
                          /\ "delivery" \in s <=> "influx" \in s}

TypeOK ==
    /\ phase \in {"starting", "serving", "undoing", "stopping", "ended"}
    /\ step \in 1..Len(IF phase = "starting" THEN StartSteps ELSE StopSteps)
    /\ settings \in ValidSettings
    /\ running \subseteq settings \cup Modules
    /\ started \in Seq(Modules)
    /\ registered \subseteq Modules
    /\ raised \subseteq Parts \cup Modules
    /\ failed \in BOOLEAN /\ cancelled \in BOOLEAN

Init ==
    /\ phase = "starting" /\ step = 1
    /\ settings \in ValidSettings
    /\ running = {}
    /\ started = <<>>
    /\ registered = Modules
    /\ raised = {}
    /\ failed = FALSE /\ cancelled = FALSE

-----------------------------------------------------------------------------
(* Starting. *)

Starting(p) == phase = "starting" /\ StartSteps[step] = p

NextStart ==
    IF step = Len(StartSteps)
    THEN phase' = "serving" /\ step' = 1
    ELSE phase' = phase /\ step' = step + 1

\* A part that is not configured is started too, and does nothing.
Start(p) ==
    /\ Starting(p)
    /\ running' = running \cup ({p} \cap settings)
    /\ NextStart
    /\ UNCHANGED <<settings, started, registered, raised, failed, cancelled>>

\* Faulty variant: the modules are noted when all of them have started.
StartModuleNotedLate(m) ==
    /\ Starting(m)
    /\ running' = running \cup {m}
    /\ started' = IF m = ModuleOrder[Len(ModuleOrder)] THEN ModuleOrder ELSE started
    /\ NextStart
    /\ UNCHANGED <<settings, registered, raised, failed, cancelled>>

\* start_all(): one module, noted once its start() has returned.
StartModule(m) ==
    /\ Starting(m)
    /\ running' = running \cup {m}
    /\ started' = Append(started, m)
    /\ NextStart
    /\ UNCHANGED <<settings, registered, raised, failed, cancelled>>

\* The engine or the client cannot be created, a module's start() raises, or
\* lifespan() is cancelled in it.  The workers' start() only creates a task.
StartRaises(p) ==
    /\ Starting(p)
    /\ p \in ({"database", "influx"} \cap settings) \cup Modules
    /\ phase' = "undoing" /\ step' = 1
    /\ failed' = TRUE
    /\ UNCHANGED <<settings, running, started, registered, raised, cancelled>>

-----------------------------------------------------------------------------
(* Serving. *)

\* The adapter gives up after its second failure.
AdapterEnds ==
    /\ phase = "serving" /\ "mqtt" \in running
    /\ running' = running \ {"mqtt"}
    /\ UNCHANGED <<phase, step, settings, started, registered, raised, failed, cancelled>>

\* unregister(): a started module stays in the list of started ones.
Unregister(m) ==
    /\ phase = "serving" /\ m \in registered \cap Unregistered
    /\ registered' = registered \ {m}
    /\ UNCHANGED <<phase, step, settings, running, started, raised, failed, cancelled>>

Shutdown ==
    /\ phase = "serving"
    /\ phase' = "stopping" /\ step' = 1
    /\ UNCHANGED <<settings, running, started, registered, raised, failed, cancelled>>

-----------------------------------------------------------------------------
(* Stopping, at the end or after a failed start. *)

Stopping(p) == phase \in {"undoing", "stopping"} /\ StopSteps[step] = p

\* Step "next", or the end after the last one.
GoOn(next) ==
    IF next > Len(StopSteps)
    THEN phase' = "ended" /\ step' = 1
    ELSE phase' = phase /\ step' = next

\* Faulty variant: the undoing of a failed start ends at its first exception too.
UndoEnds == phase' = "ended" /\ step' = 1

\* An exception ends only its try block of the undoing.  In the block of the workers
\* and the client only close() raises any, the last call; the modules and the
\* database have blocks of their own.
UndoGoesOn == GoOn(step + 1)

\* Stopping p raises: the shutdown ends, the undoing goes on with the next block.
Raise(p) ==
    /\ raised' = raised \cup {p}
    /\ \/ phase = "stopping" /\ phase' = "ended" /\ step' = 1
       \/ phase = "undoing" /\ UndoGoesOn
    /\ UNCHANGED cancelled

\* lifespan() is cancelled while it waits for p to stop: no block catches that.
Cancelled(p) ==
    /\ raised' = raised \cup {p}
    /\ phase' = "ended" /\ step' = 1
    /\ cancelled' = TRUE

\* Faulty variant: the task is waited for, but not cancelled.
StopTaskByWaiting(p) ==
    /\ Stopping(p) /\ p \in {"mqtt", "schema", "field"}
    /\ p \notin running
    /\ GoOn(step + 1)
    /\ UNCHANGED <<settings, running, started, registered, raised, failed, cancelled>>

\* stop() of the adapter and the two task workers: it cancels the task, awaits its
\* end, and lets no exception out.
StopTask(p) ==
    /\ Stopping(p) /\ p \in {"mqtt", "schema", "field"}
    /\ running' = running \ {p}
    /\ GoOn(step + 1)
    /\ UNCHANGED <<settings, started, registered, raised, failed, cancelled>>

\* stop() of the delivery worker awaits the end of its cycle; cancelling the wait
\* cancels the task as well.
StopDelivery ==
    /\ Stopping("delivery")
    /\ running' = running \ {"delivery"}
    /\ \/ GoOn(step + 1) /\ UNCHANGED <<raised, cancelled>>
       \/ "delivery" \in running /\ Cancelled("delivery")
    /\ UNCHANGED <<settings, started, registered, failed>>

\* close() of InfluxDB's client, dispose() of the engine: both stay if it raises.
Close(p) ==
    /\ Stopping(p) /\ p \in {"influx", "database"}
    /\ \/ /\ running' = running \ {p}
          /\ GoOn(step + 1)
          /\ UNCHANGED <<raised, cancelled>>
       \/ /\ p \in running
          /\ Raise(p) \/ Cancelled(p)
          /\ UNCHANGED running
    /\ UNCHANGED <<settings, started, registered, failed>>

\* stop_all(): one module, popped before its stop(); KeyError if it is unregistered.
StopModule ==
    LET m == started[Len(started)] IN
    /\ Stopping("modules") /\ started # <<>>
    /\ started' = SubSeq(started, 1, Len(started) - 1)
    /\ \/ /\ m \in registered
          /\ running' = running \ {m}
          /\ UNCHANGED <<phase, step, raised, cancelled>>
       \/ /\ Raise(m) \/ (m \in registered /\ Cancelled(m))
          /\ UNCHANGED running
    /\ UNCHANGED <<settings, registered, failed>>

StopModulesDone ==
    /\ Stopping("modules") /\ started = <<>>
    /\ GoOn(step + 1)
    /\ UNCHANGED <<settings, running, started, registered, raised, failed, cancelled>>

-----------------------------------------------------------------------------

StopStep ==
    \/ \E p \in Parts : StopTask(p) \/ Close(p)
    \/ StopDelivery \/ StopModule \/ StopModulesDone

StartStep ==
    \/ \E p \in Parts : Start(p) \/ StartRaises(p)
    \/ \E m \in Modules : StartModule(m) \/ StartRaises(m)

Next ==
    \/ StartStep \/ StopStep
    \/ AdapterEnds \/ Shutdown
    \/ \E m \in Modules : Unregister(m)

Spec == Init /\ [][Next]_vars

\* The event loop goes on with lifespan(), and what it awaits returns or raises.
FairSpec == Spec /\ WF_vars(StartStep) /\ WF_vars(StopStep)

-----------------------------------------------------------------------------
(* Properties. *)

\* No worker or adapter runs without the engine its transactions need, and the
\* delivery worker not without InfluxDB's client, however far a start, its
\* undoing or a shutdown has come and whatever raised in it.
DependenciesRun ==
    /\ running \cap {"delivery", "schema", "field", "mqtt"} # {} => "database" \in running
    /\ "delivery" \in running => "influx" \in running

Position(p) == CHOOSE i \in DOMAIN StopSteps :
    StopSteps[i] = IF p \in Modules THEN "modules" ELSE p

\* What is left running at the end comes, in the order of stopping, at or after
\* something whose stopping raised: nothing is left if nothing raised, also after
\* a start that failed half way.
LeftAfterFailureOnly ==
    phase = "ended" => \A p \in running : \E q \in raised : Position(q) <= Position(p)

\* Undoing a failed start: one stop that raises does not keep the others from
\* being stopped, except the modules started before a module that raised.
UndoIsIsolated ==
    phase = "ended" /\ failed /\ ~cancelled =>
        \A p \in running : p \in raised \/ (p \in Modules /\ raised \cap Modules # {})

\* A start ends with the app serving or with everything undone, a shutdown ends.
LifespanGoesOn ==
    /\ phase = "starting" ~> phase \in {"serving", "ended"}
    /\ phase \in {"undoing", "stopping"} ~> phase = "ended"

-----------------------------------------------------------------------------
(* Why they hold: an inductive invariant. *)

\* The start is in order: the engine comes first, InfluxDB's client before the workers.
StartsInOrder ==
    phase = "starting" =>
        /\ step > 1 /\ "database" \in settings => "database" \in running
        /\ step > Len(ModuleOrder) + 2 /\ "influx" \in settings => "influx" \in running

\* The registry has noted every module that runs, until it gives its stopping up.
ModulesAreNoted ==
    phase # "ended" /\ raised \cap Modules = {} =>
        \A m \in running \cap Modules : \E i \in DOMAIN started : started[i] = m

\* What the stopping has passed is stopped, unless its stop raised or, for a module,
\* that of a module which goes before it.
PassedIsStopped ==
    phase \in {"undoing", "stopping"} =>
        \A p \in running : Position(p) < step =>
            p \in raised \/ (p \in Modules /\ raised \cap Modules # {})

\* No exception of a task leaves its stop() but a cancellation, which ends everything.
RaisersAreKnown ==
    /\ phase # "ended" => raised \subseteq {"influx", "database"} \cup Modules
    /\ failed => phase \in {"undoing", "ended"}
    /\ cancelled => phase = "ended"

LifeInv ==
    /\ TypeOK /\ StartsInOrder /\ ModulesAreNoted /\ PassedIsStopped /\ RaisersAreKnown
    /\ DependenciesRun /\ LeftAfterFailureOnly /\ UndoIsIsolated
=============================================================================
