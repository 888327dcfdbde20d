------------------------------ MODULE Backward ------------------------------
(***************************************************************************)
(* Crash reporting of llvm-normalizer (lib/backward/backward.cpp defines   *)
(* the one SignalHandling object): the implementation is chosen by the     *)
(* platform, signals on Linux and a reporter thread on Windows.            *)
(***************************************************************************)
EXTENDS StackReport, CrashReporter

CONSTANT Platforms

VARIABLE platform

vars == <<rvars, cvars, platform>>

\* Only Linux looks at the world.
Init ==
  /\ ReportInit /\ ReporterInit /\ platform \in Platforms
  /\ platform = "windows" => world = CHOOSE w \in Worlds : TRUE

LinuxStep == platform = "linux" /\ ReportStep /\ UNCHANGED <<cvars, platform>>
WindowsStep == platform = "windows" /\ ReporterStep /\ UNCHANGED <<rvars, platform>>
Stop ==
  /\ phase = "ended" \/ ~ Running \/ platform = "windows"
  /\ UNCHANGED vars

Next == LinuxStep \/ WindowsStep \/ Stop

\* The handler is never blocked, and every thread of Windows keeps running;
\* crashes, signals and the end of the program need not happen.
Fairness ==
  /\ WF_vars(platform = "linux" /\ HandlerStep /\ UNCHANGED <<cvars, platform>>)
  /\ \A p \in Everyone :
       WF_vars(platform = "windows" /\ Running /\ ThreadStep(p) /\ UNCHANGED <<rvars, platform>>)

Spec == Init /\ [][Next]_vars /\ Fairness
=============================================================================
