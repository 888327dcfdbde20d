SPECIFICATION Spec
CONSTANTS
  Depth = 3
  Extra = 2
  Wrap = 64
  SignalList <- SomeSignals
  InlinerContext = 5
  TraceContext = 7
  Worlds <- AllWorlds
  Threads = {"main", "worker"}
  Main = "main"
  Platforms = {"linux", "windows"}
INVARIANTS
  ReportedWhenLoaded
  TraceStartsAtFault
  SourceResolved
  SnippetShowsLine
  CrashReportedFirst
PROPERTIES
  EndsBySignal
  ProcessEnds
