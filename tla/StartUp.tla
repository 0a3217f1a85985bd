------------------------------ MODULE StartUp ------------------------------
(***************************************************************************)
(* What main does before the simulator runs (scratch/livetrace-sim.cc):    *)
(* it reads the configuration, opens the logs, builds the mesh with what   *)
(* was configured and opens the rest.  Reading the file, and opening each  *)
(* log, may fail; a constructor that cannot open its log does not throw.   *)
(* The NetAnim trace is opened by ns-3 and not among the logs.             *)
(***************************************************************************)
EXTENDS LiveTraceConfig, RandomMeshTopology

CONSTANTS
  Lines,                \* the lines a configuration may have
  MaxLines,             \* bound: lines of a configuration
  DefaultRegenAttempts, \* 50: used when none is configured
  UintRange             \* 2^32: how many values a uint32_t has

ASSUME LinesAssumption ==
  /\ MaxLines \in Nat
  /\ UintRange \in Nat \ {0}
  /\ \A line \in Lines :
       line = Skipped \/ line = Line(line.indented, line.key, line.value)
  /\ \A line \in Lines \ {Skipped} :
       line.indented \in BOOLEAN /\ line.value \in Values \cup {Empty}

VARIABLES
  phase,    \* how far main has got
  file,     \* the configuration; forgotten once it has been read
  opened    \* the logs that are open

startVars == <<phase, file, opened, vars>>

Phases == {"load", "probe", "open", "build", "map", "observer", "reid", "running", "exited"}
Logs == {"oracle", "observed", "topology", "traceback", "reid"}

StartInit ==
  /\ Init
  /\ phase = "load"
  /\ file \in BoundedSeq(Lines, MaxLines)
  /\ opened = {}

RegenKey == <<"topology", "max_regen_attempts">>

\* main returns 1.
Exit(at) ==
  /\ phase = at
  /\ phase' = "exited"
  /\ file' = <<>>

Advance(from, to) == phase = from /\ phase' = to

LoadFails == Exit("load") /\ UNCHANGED <<opened, vars>>

\* The limit is cast to an unsigned integer: a negative one wraps around.
LoadConfig ==
  /\ Advance("load", "probe")
  /\ maxRegenAttempts' = GetInt(Load(file), RegenKey, DefaultRegenAttempts) % UintRange
  /\ file' = <<>>
  /\ UNCHANGED <<opened, buildVars>>

ProbeFails == Exit("probe") /\ UNCHANGED <<opened, vars>>

ProbeWritable == Advance("probe", "open") /\ UNCHANGED <<file, opened, vars>>

\* Each of the logs that main opens next is open afterwards or is not.
Opens(logs) == \E ok \in SUBSET logs : opened' = opened \cup ok

\* Mutant: one of the first two logs is enough.
FirstLogsOpen_Either == opened' \cap {"oracle", "observed"} # {}
FirstLogsOpen == {"oracle", "observed"} \subseteq opened'

OpenLogs ==
  /\ Opens({"oracle", "observed"})
  /\ \/ FirstLogsOpen /\ Advance("open", "build") /\ UNCHANGED file
     \/ ~FirstLogsOpen /\ Exit("open")
  /\ UNCHANGED vars

BuildMesh == phase = "build" /\ Next /\ UNCHANGED <<phase, file, opened>>

MeshBuilt ==
  /\ mesh # Unbuilt
  /\ Advance("build", "map")
  /\ UNCHANGED <<file, opened, vars>>

\* A log that is opened, and checked, on its own.
OpenLog(at, log, to) ==
  /\ Opens({log})
  /\ \/ log \in opened' /\ Advance(at, to) /\ UNCHANGED file
     \/ log \notin opened' /\ Exit(at)
  /\ UNCHANGED vars

StartNext ==
  \/ LoadFails
  \/ LoadConfig
  \/ ProbeFails
  \/ ProbeWritable
  \/ OpenLogs
  \/ BuildMesh
  \/ MeshBuilt
  \/ OpenLog("map", "topology", "observer")
  \/ OpenLog("observer", "traceback", "reid")
  \/ OpenLog("reid", "reid", "running")

StartSpec == StartInit /\ [][StartNext]_startVars

-----------------------------------------------------------------------------
(***************************************************************************)
(* Properties.                                                             *)
(***************************************************************************)

\* Whatever the sections, repetitions and stray lines of a configuration, a
\* key has the value of the last line that assigns it, and the section that
\* counts is that of the nearest line above that is not indented.
ConfigIsLastAssignment == phase = "load" => Load(file) = LastAssignment(file)

\* The simulator never runs with a log that would silently stay empty,
\* whichever of them could be opened (scratch/livetrace-sim.cc:380-381); and
\* it never runs, on any draw, but on a mesh that was built.
RunsWithEveryLog == phase = "running" => opened = Logs /\ mesh # Unbuilt
=============================================================================
