---------------------------- MODULE LifespanProofs ----------------------------
(***************************************************************************)
(* Theorems about Lifespan, for any number of modules: what a worker needs *)
(* runs as long as the worker, and whatever raises, and wherever, a start, *)
(* its undoing and a shutdown leave only what they may leave.              *)
(***************************************************************************)
EXTENDS Lifespan, SequenceTheorems, TLAPS

USE LifespanAssumption

-----------------------------------------------------------------------------
(* The two orders. *)

LEMMA StopStepsAre ==
  /\ Len(StopSteps) = 7 /\ DOMAIN StopSteps = 1..7
  /\ StopSteps[1] = "mqtt" /\ StopSteps[2] = "schema" /\ StopSteps[3] = "field"
  /\ StopSteps[4] = "delivery" /\ StopSteps[5] = "influx" /\ StopSteps[6] = "modules"
  /\ StopSteps[7] = "database"
  BY DEF StopSteps

LEMMA StopRange ==
  ASSUME NEW p, p # "starting"
  PROVE  1..Len(IF p = "starting" THEN StartSteps ELSE StopSteps) = 1..7
  <1>1. (IF p = "starting" THEN StartSteps ELSE StopSteps) = StopSteps
    BY Zenon
  <1> QED BY <1>1, StopStepsAre, Zenon

LEMMA PartsAreNoModules == \A p \in Parts : p \notin Modules
  BY DEF Parts

\* Where each part is stopped; the modules have one step for all of them.
LEMMA Positions ==
  /\ Position("mqtt") = 1 /\ Position("schema") = 2 /\ Position("field") = 3
  /\ Position("delivery") = 4 /\ Position("influx") = 5 /\ Position("database") = 7
  /\ \A m \in Modules : Position(m) = 6
  <1>1. ASSUME NEW p \in Parts
        PROVE  Position(p) = CHOOSE i \in 1..7 : StopSteps[i] = p
    BY StopStepsAre, PartsAreNoModules DEF Position
  <1>2. \A i \in 1..7 :
            /\ StopSteps[i] = "mqtt" <=> i = 1
            /\ StopSteps[i] = "schema" <=> i = 2
            /\ StopSteps[i] = "field" <=> i = 3
            /\ StopSteps[i] = "delivery" <=> i = 4
            /\ StopSteps[i] = "influx" <=> i = 5
            /\ StopSteps[i] = "modules" <=> i = 6
            /\ StopSteps[i] = "database" <=> i = 7
    BY StopStepsAre
  <1>3. Position("mqtt") = 1 /\ Position("schema") = 2 /\ Position("field") = 3
    BY <1>1, <1>2 DEF Parts
  <1>4. Position("delivery") = 4 /\ Position("influx") = 5 /\ Position("database") = 7
    BY SMTT(30), <1>1, <1>2 DEF Parts
  <1>5. ASSUME NEW m \in Modules
        PROVE  Position(m) = 6
    <2>1. Position(m) = CHOOSE i \in 1..7 : StopSteps[i] = "modules"
      BY StopStepsAre DEF Position
    <2> QED BY <1>2, <2>1
  <1> QED BY <1>3, <1>4, <1>5

LEMMA PositionsInRange ==
  ASSUME NEW p \in Parts \cup Modules
  PROVE  Position(p) \in 1..7
  BY Positions DEF Parts

\* Only the modules share a step.
LEMMA PositionsDiffer ==
  ASSUME NEW p \in Parts, NEW q \in Parts \cup Modules, Position(q) = Position(p)
  PROVE  q = p
  BY Positions, PartsAreNoModules DEF Parts

\* The engine is created first, then come the modules, the client, and what needs it.
LEMMA StartOrder ==
  /\ Len(StartSteps) = Len(ModuleOrder) + 6 /\ Len(ModuleOrder) \in Nat
  /\ StartSteps[1] = "database"
  /\ \A i \in 2..(Len(ModuleOrder) + 1) : StartSteps[i] \in Modules
  /\ StartSteps[Len(ModuleOrder) + 2] = "influx"
  <1> DEFINE first == <<"database">>
             last == <<"influx", "delivery", "schema", "field", "mqtt">>
             All == Modules \cup Parts
             both == first \o ModuleOrder
             n == Len(ModuleOrder)
  <1>1. first \in Seq(All) /\ ModuleOrder \in Seq(All) /\ last \in Seq(All)
        /\ Len(first) = 1 /\ Len(last) = 5 /\ n \in Nat
        /\ first[1] = "database" /\ last[1] = "influx"
        /\ \A i \in 1..n : ModuleOrder[i] \in Modules
    <2>1. first \in Seq(All) /\ last \in Seq(All)
      BY DEF Parts
    <2>2. ModuleOrder \in Seq(All) /\ n \in Nat /\ \A i \in 1..n : ModuleOrder[i] \in Modules
      BY LenProperties
    <2> QED BY <2>1, <2>2
  <1> HIDE DEF first, last
  <1>2. both \in Seq(All) /\ Len(both) = n + 1
        /\ \A i \in 1..(n + 1) : both[i] = IF i <= 1 THEN first[i] ELSE ModuleOrder[i - 1]
    <2>1. /\ both \in Seq(All) /\ Len(both) = Len(first) + n
          /\ \A i \in 1..(Len(first) + n) :
                both[i] = IF i <= Len(first) THEN first[i] ELSE ModuleOrder[i - Len(first)]
      <3>1. first \in Seq(All) /\ ModuleOrder \in Seq(All)
        BY <1>1
      <3> HIDE DEF All
      <3> QED BY ONLY <3>1, ConcatProperties, Zenon DEF both
    <2>2. Len(first) + n = n + 1
      BY <1>1
    <2> QED BY <1>1, <2>1, <2>2
  <1> HIDE DEF both
  <1>3. Len(both \o last) = n + 6
        /\ \A i \in 1..(n + 6) :
              (both \o last)[i] = IF i <= n + 1 THEN both[i] ELSE last[i - (n + 1)]
    <2>1. /\ Len(both \o last) = Len(both) + Len(last)
          /\ \A i \in 1..(Len(both) + Len(last)) :
                (both \o last)[i] = IF i <= Len(both) THEN both[i] ELSE last[i - Len(both)]
      <3>1. both \in Seq(All) /\ last \in Seq(All)
        BY <1>1, <1>2
      <3> HIDE DEF All
      <3> QED BY ONLY <3>1, ConcatProperties, Zenon
    <2>2. Len(both) + Len(last) = n + 6
      BY <1>1, <1>2
    <2> QED BY <1>2, <2>1, <2>2
  <1>4. StartSteps = both \o last
    BY <1>1, <1>2, ConcatAssociative DEF StartSteps, both, first, last
  <1>5. (both \o last)[1] = "database" /\ (both \o last)[n + 2] = "influx"
    BY <1>1, <1>2, <1>3
  <1>6. ASSUME NEW i \in 2..(n + 1)
        PROVE  (both \o last)[i] \in Modules
    <2>1. (both \o last)[i] = ModuleOrder[i - 1] /\ i - 1 \in 1..n
      BY <1>1, <1>2, <1>3
    <2> QED BY <1>1, <2>1
  <1> QED BY <1>1, <1>3, <1>4, <1>5, <1>6

-----------------------------------------------------------------------------
(* Starting and serving. *)

\* A step of the start is at its place in the order.
LEMMA StartPlaces ==
  ASSUME TypeOK, phase = "starting"
  PROVE  /\ step \in 1..(Len(ModuleOrder) + 6)
         /\ step = 1 => StartSteps[step] = "database"
         /\ step \in 2..(Len(ModuleOrder) + 1) => StartSteps[step] \in Modules
         /\ step = Len(ModuleOrder) + 2 => StartSteps[step] = "influx"
  BY StartOrder DEF TypeOK

LEMMA NextStartTyped ==
  ASSUME TypeOK, phase = "starting", NextStart
  PROVE  /\ phase' \in {"starting", "serving"}
         /\ phase' = "starting" => step' = step + 1
         /\ step' \in 1..Len(IF phase' = "starting" THEN StartSteps ELSE StopSteps)
  <1>1. CASE step = Len(StartSteps)
    <2>1. phase' = "serving" /\ step' = 1
      BY <1>1 DEF NextStart
    <2> QED BY <2>1, StopRange
  <1>2. CASE step # Len(StartSteps)
    <2>1. phase' = "starting" /\ step' = step + 1
      BY <1>2 DEF NextStart
    <2>2. step + 1 \in 1..Len(StartSteps)
      BY <1>2, StartOrder, StartPlaces
    <2> QED BY <2>1, <2>2
  <1> QED BY <1>1, <1>2

LEMMA ClosedTyped ==
  ASSUME TypeOK
  PROVE  /\ settings \subseteq Parts
         /\ settings # {} => "database" \in settings
         /\ "delivery" \in settings => "influx" \in settings
         /\ running \subseteq Parts \cup Modules
  BY DEF TypeOK, ValidSettings

LEMMA StartPartKeeps ==
  ASSUME LifeInv, NEW p \in Parts, Start(p)
  PROVE  LifeInv'
  <1> USE DEF LifeInv
  <1>a. phase = "starting" /\ StartSteps[step] = p /\ NextStart
        /\ running' = running \cup ({p} \cap settings)
        /\ settings' = settings /\ started' = started /\ registered' = registered
        /\ raised' = raised /\ failed' = failed /\ cancelled' = cancelled
    BY DEF Start, Starting
  <1>b. phase' \in {"starting", "serving"} /\ (phase' = "starting" => step' = step + 1)
    BY <1>a, NextStartTyped
  <1>c. p \notin Modules
    BY PartsAreNoModules
  <1>1. TypeOK'
    BY <1>a, NextStartTyped DEF TypeOK
  <1>2. StartsInOrder'
    <2> SUFFICES ASSUME phase' = "starting"
                 PROVE  /\ step' > 1 /\ "database" \in settings => "database" \in running'
                        /\ step' > Len(ModuleOrder) + 2 /\ "influx" \in settings
                              => "influx" \in running'
      BY <1>a DEF StartsInOrder
    <2>1. step' = step + 1 /\ step \in Nat /\ Len(ModuleOrder) \in Nat
      BY <1>a, <1>b, StartPlaces, StartOrder
    <2>2. step = 1 => p = "database"
      BY <1>a, StartPlaces
    <2>3. step = Len(ModuleOrder) + 2 => p = "influx"
      BY <1>a, StartPlaces
    <2> QED BY <1>a, <2>1, <2>2, <2>3, StartPlaces DEF StartsInOrder
  <1>3. DependenciesRun'
    <2>1. ASSUME p \in {"delivery", "schema", "field", "mqtt"}, p \in settings
          PROVE  "database" \in running /\ (p = "delivery" => "influx" \in running)
      <3>1. step > Len(ModuleOrder) + 2
        BY <1>a, <1>c, <2>1, StartPlaces, StartOrder
      <3>2. step > 1
        BY <1>a, <3>1, StartPlaces, StartOrder
      <3>3. "database" \in settings /\ (p = "delivery" => "influx" \in settings)
        BY <2>1, ClosedTyped
      <3> QED BY <1>a, <3>1, <3>2, <3>3 DEF StartsInOrder
    <2> QED BY <1>a, <2>1 DEF DependenciesRun
  <1>4. ModulesAreNoted'
    BY <1>a, <1>c DEF ModulesAreNoted
  <1>5. RaisersAreKnown'
    BY <1>a, <1>b DEF RaisersAreKnown
  <1>6. PassedIsStopped' /\ LeftAfterFailureOnly' /\ UndoIsIsolated'
    BY <1>b DEF PassedIsStopped, LeftAfterFailureOnly, UndoIsIsolated
  <1> QED BY <1>1, <1>2, <1>3, <1>4, <1>5, <1>6

LEMMA StartModuleKeeps ==
  ASSUME LifeInv, NEW m \in Modules, StartModule(m)
  PROVE  LifeInv'
  <1> USE DEF LifeInv
  <1>a. phase = "starting" /\ StartSteps[step] = m /\ NextStart
        /\ running' = running \cup {m} /\ started' = Append(started, m)
        /\ settings' = settings /\ registered' = registered
        /\ raised' = raised /\ failed' = failed /\ cancelled' = cancelled
    BY DEF StartModule, Starting
  <1>b. phase' \in {"starting", "serving"} /\ (phase' = "starting" => step' = step + 1)
    BY <1>a, NextStartTyped
  <1>c. m \notin Parts
    BY PartsAreNoModules
  <1>d. /\ started \in Seq(Modules) /\ started' \in Seq(Modules)
        /\ Len(started) \in Nat /\ Len(started') = Len(started) + 1
        /\ \A i \in 1..Len(started) : started'[i] = started[i]
        /\ started'[Len(started) + 1] = m
        /\ DOMAIN started = 1..Len(started) /\ DOMAIN started' = 1..(Len(started) + 1)
    BY <1>a DEF TypeOK
  <1>1. TypeOK'
    BY <1>a, <1>d, NextStartTyped DEF TypeOK
  <1>2. StartsInOrder'
    <2> SUFFICES ASSUME phase' = "starting"
                 PROVE  /\ step' > 1 /\ "database" \in settings => "database" \in running'
                        /\ step' > Len(ModuleOrder) + 2 /\ "influx" \in settings
                              => "influx" \in running'
      BY <1>a DEF StartsInOrder
    <2>1. step' = step + 1 /\ step \in Nat /\ Len(ModuleOrder) \in Nat
      BY <1>a, <1>b, StartPlaces, StartOrder
    <2>2. step # 1 /\ step # Len(ModuleOrder) + 2
      BY <1>a, <1>c, StartPlaces DEF Parts
    <2> QED BY <1>a, <2>1, <2>2, StartPlaces DEF StartsInOrder
  <1>3. DependenciesRun'
    BY <1>a, <1>c DEF DependenciesRun, Parts
  <1>4. ModulesAreNoted'
    <2> SUFFICES ASSUME raised \cap Modules = {}, NEW k \in running' \cap Modules
                 PROVE  \E i \in DOMAIN started' : started'[i] = k
      BY <1>a DEF ModulesAreNoted
    <2>1. CASE k = m
      <3>1. Len(started) + 1 \in DOMAIN started'
        BY <1>d
      <3>2. started'[Len(started) + 1] = k
        BY <1>d, <2>1
      <3> QED BY <3>1, <3>2
    <2>2. CASE k \in running
      <3>1. PICK i \in DOMAIN started : started[i] = k
        BY <1>a, <2>2 DEF ModulesAreNoted
      <3>2. i \in 1..Len(started)
        BY <1>d, <3>1
      <3>3. i \in DOMAIN started' /\ started'[i] = started[i]
        BY <1>d, <3>2
      <3>4. started'[i] = k
        BY <3>1, <3>3
      <3> QED BY <3>3, <3>4
    <2> QED BY <1>a, <2>1, <2>2
  <1>5. RaisersAreKnown'
    BY <1>a, <1>b DEF RaisersAreKnown
  <1>6. PassedIsStopped' /\ LeftAfterFailureOnly' /\ UndoIsIsolated'
    BY <1>b DEF PassedIsStopped, LeftAfterFailureOnly, UndoIsIsolated
  <1> QED BY <1>1, <1>2, <1>3, <1>4, <1>5, <1>6

\* The undoing of a failed start and a shutdown begin at the first step.
LEMMA StopBegins ==
  ASSUME LifeInv, phase \notin {"undoing", "stopping", "ended"},
         phase' \in {"undoing", "stopping"}, step' = 1,
         failed' \in BOOLEAN, failed' => phase' = "undoing",
         settings' = settings, running' = running, started' = started,
         registered' = registered, raised' = raised, cancelled' = cancelled
  PROVE  LifeInv'
  <1> USE DEF LifeInv
  <1>1. TypeOK'
    <2>1. step' \in 1..Len(IF phase' = "starting" THEN StartSteps ELSE StopSteps)
      BY StopRange
    <2> QED BY <2>1 DEF TypeOK
  <1>2. StartsInOrder' /\ LeftAfterFailureOnly' /\ UndoIsIsolated'
    BY DEF StartsInOrder, LeftAfterFailureOnly, UndoIsIsolated
  <1>3. DependenciesRun' /\ ModulesAreNoted' /\ RaisersAreKnown'
    BY DEF DependenciesRun, ModulesAreNoted, RaisersAreKnown
  <1>4. PassedIsStopped'
    <2>1. \A p \in running' : Position(p) \in 1..7
      BY ClosedTyped, PositionsInRange
    <2>2. \A p \in running' : ~(Position(p) < step')
      BY <2>1
    <2> QED BY <2>2 DEF PassedIsStopped
  <1> QED BY <1>1, <1>2, <1>3, <1>4

LEMMA StartsKeep ==
  ASSUME LifeInv, StartStep
  PROVE  LifeInv'
  <1>1. ASSUME NEW p, StartRaises(p)
        PROVE  LifeInv'
    BY <1>1, StopBegins DEF StartRaises, Starting
  <1> QED BY <1>1, StartPartKeeps, StartModuleKeeps DEF StartStep

LEMMA ServingKeeps ==
  ASSUME LifeInv, AdapterEnds \/ Shutdown \/ \E m \in Modules : Unregister(m)
  PROVE  LifeInv'
  <1>1. CASE Shutdown
    <2>1. ~failed /\ failed \in BOOLEAN
      BY <1>1 DEF LifeInv, RaisersAreKnown, TypeOK, Shutdown
    <2> QED BY <1>1, <2>1, StopBegins DEF Shutdown
  <1>2. CASE AdapterEnds \/ \E m \in Modules : Unregister(m)
    <2>1. /\ phase = "serving" /\ phase' = "serving" /\ step' = step
          /\ running' \subseteq running /\ running \subseteq running' \cup {"mqtt"}
          /\ registered' \subseteq registered
          /\ settings' = settings /\ started' = started
          /\ raised' = raised /\ failed' = failed /\ cancelled' = cancelled
      BY <1>2 DEF AdapterEnds, Unregister
    <2>2. TypeOK'
      BY <2>1 DEF LifeInv, TypeOK
    <2>3. StartsInOrder' /\ PassedIsStopped' /\ LeftAfterFailureOnly' /\ UndoIsIsolated'
      BY <2>1 DEF StartsInOrder, PassedIsStopped, LeftAfterFailureOnly, UndoIsIsolated
    <2>4. ModulesAreNoted' /\ RaisersAreKnown' /\ DependenciesRun'
      BY <2>1 DEF LifeInv, ModulesAreNoted, RaisersAreKnown, DependenciesRun
    <2> QED BY <2>2, <2>3, <2>4 DEF LifeInv
  <1> QED BY <1>1, <1>2

-----------------------------------------------------------------------------
(* Stopping: what every step of it does. *)

\* p may be left running: its stop raised, or that of a module before it.
Excused(p) == p \in raised \/ (p \in Modules /\ raised \cap Modules # {})

\* The step is done with: what it stops does not run any longer, or is excused.
PassesOn ==
    /\ GoOn(step + 1) /\ cancelled' = cancelled
    /\ raised' \subseteq raised \cup {"influx", "database"} \cup Modules
    /\ \A p \in running' : Position(p) = step => Excused(p)'

\* One module has been stopped, and there may be more.
StaysAt == phase' = phase /\ step' = step /\ raised' = raised /\ cancelled' = cancelled

\* An exception ends lifespan(): in the shutdown any, in the undoing a cancellation.
GivesUp ==
    /\ phase' = "ended" /\ step' = 1
    /\ \E q \in raised' : Position(q) = step
    /\ cancelled' \in BOOLEAN /\ (cancelled' \/ phase = "stopping")

StopMoves ==
    /\ phase \in {"undoing", "stopping"}
    /\ settings' = settings /\ registered' = registered /\ failed' = failed
    /\ started' \in Seq(Modules)
    /\ running' \subseteq running
    /\ "database" \in running \ running' => step = 7
    /\ "influx" \in running \ running' => step = 5
    /\ raised \subseteq raised' /\ raised' \subseteq Parts \cup Modules
    /\ ModulesAreNoted'
    /\ PassesOn \/ StaysAt \/ GivesUp

LEMMA StopPlaces ==
  ASSUME TypeOK, phase \in {"undoing", "stopping"}
  PROVE  step \in 1..7
  BY StopRange DEF TypeOK

LEMMA GoOnCases ==
  ASSUME TypeOK, phase \in {"undoing", "stopping"}, GoOn(step + 1)
  PROVE  \/ step = 7 /\ phase' = "ended" /\ step' = 1
         \/ step < 7 /\ phase' = phase /\ step' = step + 1
  BY StopPlaces, StopStepsAre DEF GoOn

\* Until the end, none of the tasks' stops has raised: a task that runs is ahead.
LEMMA TasksAhead ==
  ASSUME LifeInv, phase \in {"undoing", "stopping"},
         NEW p \in {"delivery", "schema", "field", "mqtt"} \cap running
  PROVE  Position(p) >= step
  <1>1. p \notin Modules /\ p \notin raised
    BY PartsAreNoModules DEF LifeInv, RaisersAreKnown, Parts
  <1>2. ~(Position(p) < step)
    BY <1>1 DEF LifeInv, PassedIsStopped
  <1> QED BY <1>2, Positions, StopPlaces DEF LifeInv

\* A stop finds what its part needs running: that comes later in the order.
LEMMA StopMovesDependencies ==
  ASSUME LifeInv, StopMoves
  PROVE  DependenciesRun'
  <1>1. ASSUME running' \cap {"delivery", "schema", "field", "mqtt"} # {}
        PROVE  "database" \in running'
    <2>1. PICK p \in {"delivery", "schema", "field", "mqtt"} : p \in running'
      BY <1>1
    <2>2. p \in running /\ "database" \in running
      BY <2>1 DEF StopMoves, LifeInv, DependenciesRun
    <2>3. step <= 4
      BY <2>2, TasksAhead, Positions, StopPlaces DEF StopMoves, LifeInv
    <2>4. step # 7
      BY <2>3, StopPlaces DEF StopMoves, LifeInv
    <2> QED BY <2>2, <2>4 DEF StopMoves
  <1>2. ASSUME "delivery" \in running'
        PROVE  "influx" \in running'
    <2>1. "delivery" \in running /\ "influx" \in running
      BY <1>2 DEF StopMoves, LifeInv, DependenciesRun
    <2>2. step <= 4
      BY <2>1, TasksAhead, Positions, StopPlaces DEF StopMoves, LifeInv
    <2>3. step # 5
      BY <2>2, StopPlaces DEF StopMoves, LifeInv
    <2> QED BY <2>1, <2>3 DEF StopMoves
  <1> QED BY <1>1, <1>2 DEF DependenciesRun

\* What has been passed, and what is passed in this step.
LEMMA PassedStaysExcused ==
  ASSUME LifeInv, StopMoves, NEW p \in running'
  PROVE  /\ Position(p) < step => Excused(p)'
         /\ PassesOn /\ Position(p) <= step => Excused(p)'
  <1>1. p \in Parts \cup Modules /\ Position(p) \in 1..7 /\ step \in 1..7
    BY ClosedTyped, PositionsInRange, StopPlaces DEF StopMoves, LifeInv
  <1>2. ASSUME Position(p) < step
        PROVE  Excused(p)'
    <2>1. p \in raised \/ (p \in Modules /\ raised \cap Modules # {})
      BY <1>2 DEF LifeInv, PassedIsStopped, StopMoves
    <2> QED BY <2>1 DEF Excused, StopMoves
  <1>3. ASSUME PassesOn, Position(p) = step
        PROVE  Excused(p)'
    BY <1>3 DEF PassesOn
  <1> QED BY <1>1, <1>2, <1>3

LEMMA ExcusedIsPreceded ==
  ASSUME NEW p \in Parts \cup Modules, NEW raisers, raisers \subseteq Parts \cup Modules,
         p \in raisers \/ (p \in Modules /\ raisers \cap Modules # {})
  PROVE  \E q \in raisers : Position(q) <= Position(p)
  <1>1. CASE p \in raisers
    BY <1>1, PositionsInRange
  <1>2. CASE p \in Modules /\ raisers \cap Modules # {}
    <2>1. PICK q \in raisers : q \in Modules
      BY <1>2
    <2>2. Position(q) <= Position(p)
      BY <1>2, <2>1, Positions
    <2> QED BY <2>2
  <1> QED BY <1>1, <1>2

LEMMA StopMovesEnd ==
  ASSUME LifeInv, StopMoves
  PROVE  PassedIsStopped' /\ LeftAfterFailureOnly' /\ UndoIsIsolated'
  <1>a. TypeOK /\ phase \in {"undoing", "stopping"} /\ running' \subseteq running
        /\ raised' \subseteq Parts \cup Modules /\ failed' = failed /\ step \in 1..7
        /\ \A p \in running' : p \in Parts \cup Modules /\ Position(p) \in 1..7
    BY ClosedTyped, PositionsInRange, StopPlaces DEF LifeInv, StopMoves
  <1>1. CASE StaysAt
    <2>1. phase' = phase /\ step' = step
      BY <1>1 DEF StaysAt
    <2>2. PassedIsStopped'
      BY <2>1, PassedStaysExcused DEF PassedIsStopped, Excused
    <2> QED BY <1>a, <2>1, <2>2 DEF LeftAfterFailureOnly, UndoIsIsolated
  <1>2. CASE PassesOn /\ phase' # "ended"
    <2>1. phase' = phase /\ step' = step + 1
      BY <1>2, <1>a, GoOnCases DEF PassesOn
    <2>2. \A p \in running' : Position(p) < step' => Excused(p)'
      BY <1>2, <1>a, <2>1, PassedStaysExcused
    <2>3. PassedIsStopped'
      BY <2>2 DEF PassedIsStopped, Excused
    <2> QED BY <1>2, <2>3 DEF LeftAfterFailureOnly, UndoIsIsolated
  <1>3. CASE PassesOn /\ phase' = "ended"
    <2>1. step = 7
      BY <1>3, <1>a, GoOnCases DEF PassesOn
    <2>2. \A p \in running' : Excused(p)'
      BY <1>3, <1>a, <2>1, PassedStaysExcused
    <2>3. UndoIsIsolated'
      BY <2>2 DEF UndoIsIsolated, Excused
    <2>4. \A p \in running' : \E q \in raised' : Position(q) <= Position(p)
      BY <1>a, <2>2, ExcusedIsPreceded DEF Excused
    <2>5. LeftAfterFailureOnly'
      BY <2>4 DEF LeftAfterFailureOnly
    <2> QED BY <1>3, <2>3, <2>5 DEF PassedIsStopped
  <1>4. CASE GivesUp
    <2>1. phase' = "ended" /\ (cancelled' \/ phase = "stopping")
      BY <1>4 DEF GivesUp
    <2>2. UndoIsIsolated'
      BY <1>a, <2>1 DEF UndoIsIsolated, LifeInv, RaisersAreKnown
    <2>3. PICK r \in raised' : Position(r) = step
      BY <1>4 DEF GivesUp
    <2>4. ASSUME NEW p \in running'
          PROVE  \E q \in raised' : Position(q) <= Position(p)
      <3>1. CASE Position(p) < step
        <4>1. Excused(p)'
          BY <3>1, PassedStaysExcused
        <4> QED BY <1>a, <4>1, ExcusedIsPreceded DEF Excused
      <3>2. CASE ~(Position(p) < step)
        BY <1>a, <2>3, <3>2
      <3> QED BY <3>1, <3>2
    <2> QED BY <2>1, <2>2, <2>4 DEF LeftAfterFailureOnly, PassedIsStopped
  <1> QED BY <1>1, <1>2, <1>3, <1>4 DEF StopMoves

LEMMA StopMovesKeep ==
  ASSUME LifeInv, StopMoves
  PROVE  LifeInv'
  <1>a. TypeOK /\ phase \in {"undoing", "stopping"} /\ step \in 1..7
    BY StopPlaces DEF LifeInv, StopMoves
  <1>b. /\ phase' \in {"undoing", "stopping", "ended"} /\ step' \in 1..7
        /\ phase' = "ended" \/ phase' = phase
        /\ cancelled' \in BOOLEAN
    BY SMTT(30), <1>a, GoOnCases DEF StopMoves, PassesOn, StaysAt, GivesUp, TypeOK
  <1>1. TypeOK'
    <2>1. step' \in 1..Len(IF phase' = "starting" THEN StartSteps ELSE StopSteps)
      BY <1>b, StopRange
    <2>2. running' \subseteq settings' \cup Modules
      BY <1>a DEF StopMoves, TypeOK
    <2> QED BY <1>a, <1>b, <2>1, <2>2 DEF StopMoves, TypeOK
  <1>2. StartsInOrder'
    BY <1>b DEF StartsInOrder
  <1>3. RaisersAreKnown'
    <2>1. phase' # "ended" => raised' \subseteq {"influx", "database"} \cup Modules
      BY <1>a DEF LifeInv, RaisersAreKnown, StopMoves, PassesOn, StaysAt, GivesUp
    <2>2. failed' => phase' \in {"undoing", "ended"}
      BY <1>a, <1>b DEF LifeInv, RaisersAreKnown, StopMoves
    <2>3. cancelled' => phase' = "ended"
      BY <1>a DEF LifeInv, RaisersAreKnown, StopMoves, PassesOn, StaysAt, GivesUp
    <2> QED BY <2>1, <2>2, <2>3 DEF RaisersAreKnown
  <1> QED BY <1>1, <1>2, <1>3, StopMovesDependencies, StopMovesEnd DEF LifeInv, StopMoves

-----------------------------------------------------------------------------
(* Every step of the stopping is one of these. *)

\* What a step that stops a part that is no module leaves of the modules.
LEMMA NotedStill ==
  ASSUME LifeInv, phase # "ended", started' = started, running' \subseteq running,
         raised \subseteq raised'
  PROVE  ModulesAreNoted'
  BY DEF LifeInv, ModulesAreNoted

LEMMA StopTaskMoves ==
  ASSUME LifeInv, NEW p \in Parts, StopTask(p)
  PROVE  StopMoves
  <1>a. /\ phase \in {"undoing", "stopping"} /\ StopSteps[step] = p
        /\ p \in {"mqtt", "schema", "field"} /\ running' = running \ {p}
        /\ GoOn(step + 1) /\ settings' = settings /\ started' = started
        /\ registered' = registered /\ raised' = raised /\ failed' = failed
        /\ cancelled' = cancelled
    BY DEF StopTask, Stopping
  <1>b. /\ TypeOK /\ step \in 1..7 /\ started \in Seq(Modules)
        /\ raised \subseteq {"influx", "database"} \cup Modules
    BY <1>a, StopPlaces DEF LifeInv, RaisersAreKnown, TypeOK
  <1>1. PassesOn
    <2>1. Position(p) = step
      BY <1>a, <1>b, StopStepsAre, Positions
    <2>2. \A q \in running' : Position(q) # step
      BY <1>a, <1>b, <2>1, PositionsDiffer, ClosedTyped
    <2> QED BY <1>a, <2>2 DEF PassesOn
  <1>2. ModulesAreNoted'
    BY <1>a, NotedStill
  <1> QED BY <1>a, <1>b, <1>1, <1>2 DEF StopMoves, Parts

LEMMA StopDeliveryMoves ==
  ASSUME LifeInv, StopDelivery
  PROVE  StopMoves
  <1>a. /\ phase \in {"undoing", "stopping"} /\ StopSteps[step] = "delivery"
        /\ running' = running \ {"delivery"}
        /\ settings' = settings /\ started' = started
        /\ registered' = registered /\ failed' = failed
    BY DEF StopDelivery, Stopping
  <1>b. /\ TypeOK /\ step \in 1..7 /\ started \in Seq(Modules)
        /\ raised \subseteq {"influx", "database"} \cup Modules
    BY <1>a, StopPlaces DEF LifeInv, RaisersAreKnown, TypeOK
  <1>c. step = 4
    BY <1>a, <1>b, StopStepsAre
  <1>1. CASE GoOn(step + 1) /\ UNCHANGED <<raised, cancelled>>
    <2>1. \A q \in running' : Position(q) # step
      BY <1>a, <1>b, <1>c, Positions, PositionsDiffer, ClosedTyped DEF Parts
    <2>2. PassesOn
      BY <1>1, <2>1 DEF PassesOn
    <2>3. ModulesAreNoted'
      BY <1>a, <1>1, NotedStill
    <2> QED BY <1>a, <1>b, <1>1, <2>2, <2>3 DEF StopMoves, Parts
  <1>2. CASE Cancelled("delivery")
    <2>1. GivesUp
      BY <1>2, <1>c, Positions DEF Cancelled, GivesUp
    <2>2. raised' = raised \cup {"delivery"} /\ phase' = "ended"
      BY <1>2 DEF Cancelled
    <2>3. ModulesAreNoted'
      BY <2>2 DEF ModulesAreNoted
    <2> QED BY <1>a, <1>b, <2>1, <2>2, <2>3 DEF StopMoves, Parts
  <1> QED BY <1>1, <1>2 DEF StopDelivery

\* Stopping p, at its step, raises: the undoing goes on, the shutdown ends.
LEMMA RaisingMoves ==
  ASSUME LifeInv, phase \in {"undoing", "stopping"},
         NEW p \in {"influx", "database"} \cup Modules, Position(p) = step,
         Raise(p) \/ Cancelled(p),
         running' = running, settings' = settings, registered' = registered,
         failed' = failed, started' \in Seq(Modules),
         started' = started \/ p \in Modules
  PROVE  StopMoves
  <1>a. /\ raised' = raised \cup {p} /\ TypeOK
        /\ raised \subseteq {"influx", "database"} \cup Modules
        /\ cancelled \in BOOLEAN
    BY DEF LifeInv, RaisersAreKnown, Raise, Cancelled, TypeOK
  <1>1. ModulesAreNoted'
    <2>1. CASE p \in Modules
      BY <1>a, <2>1 DEF ModulesAreNoted
    <2>2. CASE started' = started
      BY <1>a, <2>2, NotedStill
    <2> QED BY <2>1, <2>2
  <1>2. PassesOn \/ GivesUp
    <2>1. CASE Raise(p) /\ phase = "undoing" /\ UndoGoesOn
      <3>1. GoOn(step + 1) /\ cancelled' = cancelled
        BY <2>1 DEF Raise, UndoGoesOn
      <3>2. ASSUME NEW q \in running', Position(q) = step
            PROVE  Excused(q)'
        <4>1. q \in Parts \cup Modules
          BY <1>a, ClosedTyped
        <4>2. q = p \/ (q \in Modules /\ p \in Modules)
          BY <3>2, <4>1, Positions, PartsAreNoModules DEF Parts
        <4> QED BY <1>a, <4>2 DEF Excused
      <3> QED BY <1>a, <3>1, <3>2 DEF PassesOn
    <2>2. CASE Cancelled(p)
      BY <2>2 DEF GivesUp, Cancelled
    <2>3. CASE Raise(p) /\ phase = "stopping" /\ phase' = "ended" /\ step' = 1
      BY <1>a, <2>3 DEF GivesUp, Raise
    <2> QED BY <2>1, <2>2, <2>3 DEF Raise
  <1> QED BY <1>a, <1>1, <1>2 DEF StopMoves, Parts

LEMMA CloseMoves ==
  ASSUME LifeInv, NEW p \in Parts, Close(p)
  PROVE  StopMoves
  <1>a. /\ phase \in {"undoing", "stopping"} /\ StopSteps[step] = p
        /\ p \in {"influx", "database"}
        /\ settings' = settings /\ started' = started
        /\ registered' = registered /\ failed' = failed
    BY DEF Close, Stopping
  <1>b. /\ TypeOK /\ step \in 1..7 /\ started \in Seq(Modules)
        /\ raised \subseteq {"influx", "database"} \cup Modules
    BY <1>a, StopPlaces DEF LifeInv, RaisersAreKnown, TypeOK
  <1>c. Position(p) = step /\ step = IF p = "influx" THEN 5 ELSE 7
    BY <1>a, <1>b, StopStepsAre, Positions
  <1>1. CASE /\ running' = running \ {p}
             /\ GoOn(step + 1)
             /\ UNCHANGED <<raised, cancelled>>
    <2>1. \A q \in running' : Position(q) # step
      BY <1>1, <1>b, <1>c, PositionsDiffer, ClosedTyped
    <2>2. PassesOn
      BY <1>1, <2>1 DEF PassesOn
    <2>3. ModulesAreNoted'
      BY <1>a, <1>1, NotedStill
    <2>4. /\ "database" \in running \ running' => step = 7
          /\ "influx" \in running \ running' => step = 5
      BY <1>1, <1>a, <1>c
    <2> QED BY <1>a, <1>b, <1>1, <2>2, <2>3, <2>4 DEF StopMoves, Parts
  <1>2. CASE (Raise(p) \/ Cancelled(p)) /\ running' = running
    BY <1>2, <1>a, <1>b, <1>c, RaisingMoves
  <1> QED BY <1>1, <1>2 DEF Close

\* The modules that stop_all() has not come to are noted when it pops the last one.
LEMMA PoppedStillNoted ==
  ASSUME LifeInv, phase # "ended", started # <<>>,
         started' = SubSeq(started, 1, Len(started) - 1)
  PROVE  /\ started' \in Seq(Modules)
         /\ \A i \in DOMAIN started :
                i = Len(started) \/ (i \in DOMAIN started' /\ started'[i] = started[i])
  <1>1. started \in Seq(Modules)
    BY DEF LifeInv, TypeOK
  <1>2. Len(started) \in Nat /\ Len(started) >= 1 /\ DOMAIN started = 1..Len(started)
    BY <1>1
  <1> DEFINE k == Len(started) - 1
  <1>3. k \in Int /\ \A i \in 1..k : started[i] \in Modules
    BY <1>1, <1>2
  <1>4. /\ started' \in Seq(Modules) /\ Len(started') = k
        /\ \A i \in 1..k : started'[i] = started[i]
    BY <1>1, <1>2, <1>3
  <1> QED BY <1>2, <1>4

LEMMA StopModuleMoves ==
  ASSUME LifeInv, StopModule
  PROVE  StopMoves
  <1> DEFINE m == started[Len(started)]
  <1>a. /\ phase \in {"undoing", "stopping"} /\ StopSteps[step] = "modules"
        /\ started # <<>> /\ started' = SubSeq(started, 1, Len(started) - 1)
        /\ settings' = settings /\ registered' = registered /\ failed' = failed
    BY DEF StopModule, Stopping
  <1>b. /\ TypeOK /\ step \in 1..7 /\ started \in Seq(Modules)
        /\ raised \subseteq {"influx", "database"} \cup Modules
    BY <1>a, StopPlaces DEF LifeInv, RaisersAreKnown, TypeOK
  <1>c. step = 6
    BY <1>a, <1>b, StopStepsAre
  <1>d. m \in Modules
    BY <1>a, <1>b
  <1>e. /\ started' \in Seq(Modules)
        /\ \A i \in DOMAIN started :
                i = Len(started) \/ (i \in DOMAIN started' /\ started'[i] = started[i])
    BY <1>a, PoppedStillNoted
  <1>1. CASE running' = running \ {m} /\ UNCHANGED <<phase, step, raised, cancelled>>
    <2>1. ModulesAreNoted'
      <3> SUFFICES ASSUME raised \cap Modules = {}, NEW k \in running' \cap Modules
                   PROVE  \E i \in DOMAIN started' : started'[i] = k
        BY <1>1 DEF ModulesAreNoted
      <3>1. PICK j \in DOMAIN started : started[j] = k
        BY <1>1, <1>a DEF LifeInv, ModulesAreNoted
      <3>2. j # Len(started)
        BY <1>1, <3>1
      <3>3. j \in DOMAIN started' /\ started'[j] = k
        BY <1>e, <3>1, <3>2
      <3> QED BY <3>3
    <2>2. StaysAt
      BY <1>1 DEF StaysAt
    <2>3. "database" \in running' \/ "database" \notin running
      BY <1>1, <1>d, PartsAreNoModules DEF Parts
    <2>4. "influx" \in running' \/ "influx" \notin running
      BY <1>1, <1>d, PartsAreNoModules DEF Parts
    <2> QED BY <1>1, <1>a, <1>b, <1>e, <2>1, <2>2, <2>3, <2>4 DEF StopMoves, Parts
  <1>2. CASE (Raise(m) \/ Cancelled(m)) /\ running' = running
    <2>1. Position(m) = step
      BY <1>c, <1>d, Positions
    <2> QED BY <1>2, <1>a, <1>d, <1>e, <2>1, RaisingMoves
  <1> QED BY <1>1, <1>2 DEF StopModule

LEMMA StopModulesDoneMoves ==
  ASSUME LifeInv, StopModulesDone
  PROVE  StopMoves
  <1>a. /\ phase \in {"undoing", "stopping"} /\ StopSteps[step] = "modules"
        /\ started = <<>> /\ running' = running
        /\ GoOn(step + 1) /\ settings' = settings /\ started' = started
        /\ registered' = registered /\ raised' = raised /\ failed' = failed
        /\ cancelled' = cancelled
    BY DEF StopModulesDone, Stopping
  <1>b. /\ TypeOK /\ step \in 1..7 /\ started \in Seq(Modules)
        /\ raised \subseteq {"influx", "database"} \cup Modules
    BY <1>a, StopPlaces DEF LifeInv, RaisersAreKnown, TypeOK
  <1>1. PassesOn
    <2>1. ASSUME NEW q \in running', Position(q) = step
          PROVE  Excused(q)'
      <3>1. q \in Modules
        BY <1>a, <1>b, <2>1, StopStepsAre, Positions, ClosedTyped DEF Parts
      <3>2. raised \cap Modules # {}
        BY <1>a, <3>1 DEF LifeInv, ModulesAreNoted
      <3> QED BY <1>a, <3>1, <3>2 DEF Excused
    <2> QED BY <1>a, <2>1 DEF PassesOn
  <1>2. ModulesAreNoted'
    BY <1>a, NotedStill
  <1> QED BY <1>a, <1>b, <1>1, <1>2 DEF StopMoves, Parts

-----------------------------------------------------------------------------
(* The theorems. *)

LEMMA LifeInitially == Init => LifeInv
  <1> SUFFICES ASSUME Init
               PROVE  LifeInv
    OBVIOUS
  <1>a. /\ phase = "starting" /\ step = 1 /\ settings \in ValidSettings
        /\ running = {} /\ started = <<>> /\ registered = Modules /\ raised = {}
        /\ failed = FALSE /\ cancelled = FALSE
    BY DEF Init
  <1>1. TypeOK
    <2>1. (IF phase = "starting" THEN StartSteps ELSE StopSteps) = StartSteps
      BY <1>a, Zenon
    <2>2. step \in 1..Len(StartSteps)
      BY <1>a, StartOrder
    <2>3. step \in 1..Len(IF phase = "starting" THEN StartSteps ELSE StopSteps)
      BY <2>1, <2>2, Zenon
    <2>4. running \subseteq settings \cup Modules /\ started \in Seq(Modules)
      BY <1>a
    <2> QED BY <1>a, <2>3, <2>4 DEF TypeOK
  <1>2. StartsInOrder
    BY <1>a, StartOrder DEF StartsInOrder
  <1> QED BY <1>a, <1>1, <1>2 DEF LifeInv, ModulesAreNoted, PassedIsStopped,
          RaisersAreKnown, DependenciesRun, LeftAfterFailureOnly, UndoIsIsolated

\* Every step of the start, of its undoing, of serving and of the shutdown keeps
\* what the parts rely on.
THEOREM LifeInductive == LifeInv /\ [Next]_vars => LifeInv'
  <1> SUFFICES ASSUME LifeInv, [Next]_vars
               PROVE  LifeInv'
    OBVIOUS
  <1>1. CASE StartStep
    BY <1>1, StartsKeep
  <1>2. CASE StopStep
    <2>1. StopMoves
      BY <1>2, StopTaskMoves, CloseMoves, StopDeliveryMoves, StopModuleMoves,
         StopModulesDoneMoves DEF StopStep
    <2> QED BY <2>1, StopMovesKeep
  <1>3. CASE AdapterEnds \/ Shutdown \/ \E m \in Modules : Unregister(m)
    BY <1>3, ServingKeeps
  <1>4. CASE UNCHANGED vars
    BY <1>4 DEF vars, LifeInv, TypeOK, StartsInOrder, ModulesAreNoted, PassedIsStopped,
       RaisersAreKnown, DependenciesRun, LeftAfterFailureOnly, UndoIsIsolated
  <1> QED BY <1>1, <1>2, <1>3, <1>4 DEF Next

\* lifespan(), started, undone and shut down in any way, never leaves the invariant.
THEOREM LifeInvariance == Spec => []LifeInv
  BY LifeInitially, LifeInductive, PTL DEF Spec

\* The variables have their types.
THEOREM TypeCorrect == Spec => []TypeOK
  <1>1. LifeInv => TypeOK
    BY DEF LifeInv
  <1> QED BY <1>1, LifeInvariance, PTL

\* No worker outlives the engine or the client it uses.
THEOREM WorkersHaveWhatTheyNeed == Spec => []DependenciesRun
  <1>1. LifeInv => DependenciesRun
    BY DEF LifeInv
  <1> QED BY <1>1, LifeInvariance, PTL

\* Only a stop that raised leaves something running, and only what comes after it.
THEOREM OnlyFailuresLeaveParts == Spec => []LeftAfterFailureOnly
  <1>1. LifeInv => LeftAfterFailureOnly
    BY DEF LifeInv
  <1> QED BY <1>1, LifeInvariance, PTL

\* A stop that raises while a failed start is undone keeps only itself, or modules.
THEOREM UndoingIsIsolated == Spec => []UndoIsIsolated
  <1>1. LifeInv => UndoIsIsolated
    BY DEF LifeInv
  <1> QED BY <1>1, LifeInvariance, PTL

=============================================================================
