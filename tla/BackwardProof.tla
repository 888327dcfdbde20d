---------------------------- MODULE BackwardProof ----------------------------
(***************************************************************************)
(* Proofs about the crash reports of llvm-normalizer: on Windows, that no  *)
(* thread leaves the crash handler before the report; on Linux, that every *)
(* fatal signal is reported once if all handlers could be installed.       *)
(***************************************************************************)
EXTENDS Backward, NatRecursion, SequenceTheorems, TLAPS
-----------------------------------------------------------------------------
(* Windows: the reporter thread *)

Places == {"run", "mark", "notify", "wait", "go", "print", "finish", "done", "join", "after"}

ReporterTypeOK ==
  /\ crashed \in {"running", "crashed", "normal_exit", "ending"}
  /\ at \in [Everyone -> Places]
  /\ how \in [Everyone -> Causes \cup {"none"}]
  /\ report \in Seq(Everyone)
  /\ exitBegun \in BOOLEAN

\* Where the reporter is, and how much of the report it has made.
Progress ==
  /\ how[Reporter] = "none" => at[Reporter] \in {"wait", "go", "print", "finish", "notify", "done"}
  /\ how[Reporter] # "none" => at[Reporter] \in {"mark", "notify", "wait", "go"}
  /\ how[Reporter] = "none" /\ at[Reporter] \in {"wait", "go"} => Len(report) = 0
  /\ at[Reporter] = "print" => Len(report) = 1
  /\ how[Reporter] = "none" /\ at[Reporter] \in {"finish", "notify", "done"} =>
       exitBegun \/ Len(report) = 2

\* What crashed threads have stored.
Stored ==
  /\ crashed = "crashed" => thread_handle \in Crashers /\ skip_recs \in Crashers
  /\ \A p \in Everyone : at[p] = "mark" => thread_handle \in Crashers /\ how[p] # "none"
  /\ at[Reporter] = "print" => thread_handle \in Crashers
  /\ \A k \in DOMAIN report : report[k] \in Crashers

\* The status answers a waiting thread only after the report.
Answered ==
  /\ crashed = "normal_exit" => exitBegun
  /\ crashed = "ending" => exitBegun \/ Len(report) = 2
  /\ \A p \in Everyone :
       at[p] = "go" \/ (~ Reports(p) /\ at[p] \in {"notify", "wait"}) => crashed # "running"
  /\ \A p \in Everyone : ~ Reports(p) /\ at[p] = "go" => exitBegun \/ Len(report) = 2
  /\ ended = "abort" => exitBegun \/ Len(report) = 2

ReporterInv == ReporterTypeOK /\ Progress /\ Stored /\ Answered

LEMMA ReporterInitInv == ReporterInit => ReporterInv
<1> SUFFICES ASSUME ReporterInit PROVE ReporterInv
  OBVIOUS
<1> USE DEF ReporterInit, Everyone, Causes, Places, Reporter
<1>1. ReporterTypeOK
  <2>1. report \in Seq(Everyone)
    OBVIOUS
  <2>2. exitBegun \in BOOLEAN
    BY Zenon
  <2>3. at \in [Everyone -> Places] /\ how \in [Everyone -> Causes \cup {"none"}]
    OBVIOUS
  <2> QED
    BY <2>1, <2>2, <2>3 DEF ReporterTypeOK
<1>2. Progress
  BY DEF Progress
<1>3. Stored /\ Answered
  BY ThreadsAssumption DEF Stored, Answered, Reports
<1> QED
  BY <1>1, <1>2, <1>3 DEF ReporterInv

\* What a step does to one thread and to the report.
LEMMA Moves ==
  ASSUME ReporterTypeOK, NEW p \in Everyone, NEW where \in Places, Goto(p, where)
  PROVE  /\ at' \in [Everyone -> Places]
         /\ at'[p] = where
         /\ \A q \in Everyone : q # p => at'[q] = at[q]
BY DEF ReporterTypeOK, Goto

LEMMA Grows ==
  ASSUME ReporterTypeOK, NEW x \in Everyone, report' = Append(report, x)
  PROVE  /\ report' \in Seq(Everyone)
         /\ Len(report') = Len(report) + 1
         /\ \A k \in DOMAIN report' : report'[k] = x \/ (k \in DOMAIN report /\ report'[k] = report[k])
BY DEF ReporterTypeOK

LEMMA ReporterStepInv == ReporterInv /\ [ReporterStep]_cvars => ReporterInv'
<1> SUFFICES ASSUME ReporterInv, [ReporterStep]_cvars PROVE ReporterInv'
  OBVIOUS
<1> USE DEF ReporterInv
<1>a. Reporter \in Everyone /\ Main \in Everyone /\ Main # Reporter
  BY ThreadsAssumption DEF Everyone
<1>b. Crashers \subseteq Everyone
  BY DEF Crashers
<1>1. ASSUME NEW p \in Everyone, Wait(p) PROVE ReporterInv'
  <2>1. UNCHANGED <<crashed, how, thread_handle, skip_recs, report, exitBegun, ended>> /\ at[p] = "wait"
    BY <1>1 DEF Wait
  <2>2. CASE MayGoOn(p) /\ Goto(p, "go")
    <3>1. /\ at' \in [Everyone -> Places] /\ at'[p] = "go"
          /\ \A q \in Everyone : q # p => at'[q] = at[q]
      BY <2>2, Moves DEF Places
    <3>2. ReporterTypeOK'
      BY <2>1, <3>1 DEF ReporterTypeOK
    <3>3. Progress'
      BY <1>a, <2>1, <3>1 DEF Progress
    <3>4. Stored'
      BY <1>a, <2>1, <3>1 DEF Stored, Crashers
    <3>5. ~ Reports(p) => exitBegun \/ Len(report) = 2
      BY <2>1, <2>2 DEF MayGoOn, Answered, ReporterTypeOK
    <3>6. crashed # "running"
      BY <2>1, <2>2 DEF MayGoOn, Answered
    <3>7. Answered'
      BY <2>1, <3>1, <3>5, <3>6 DEF Answered, Reports
    <3> QED
      BY <3>2, <3>3, <3>4, <3>7
  <2>3. CASE UNCHANGED at
    BY <2>1, <2>3 DEF ReporterTypeOK, Progress, Stored, Answered, Crashers, Reports
  <2> QED
    BY <1>1, <2>2, <2>3 DEF Wait
<1>2. ASSUME NEW p \in Everyone, Notify(p) PROVE ReporterInv'
  <2>1. UNCHANGED <<crashed, how, thread_handle, skip_recs, report, exitBegun, ended>> /\ at[p] = "notify"
    BY <1>2 DEF Notify
  <2>2. PICK w \in {"done", "join", "wait"} :
          /\ Goto(p, w) /\ (Reports(p) => w = "done")
          /\ (how[p] # "none" => w = "wait") /\ (w = "wait" => ~ Reports(p))
    BY <1>2 DEF Notify, Reports
  <2>3. /\ at' \in [Everyone -> Places] /\ at'[p] = w
        /\ \A q \in Everyone : q # p => at'[q] = at[q]
    BY <2>2, Moves DEF Places
  <2>4. ReporterTypeOK'
    BY <2>1, <2>3 DEF ReporterTypeOK
  <2>5. Progress'
    BY <1>a, <2>1, <2>2, <2>3 DEF Progress, Reports
  <2>6. Stored'
    BY <1>a, <2>1, <2>2, <2>3 DEF Stored, Crashers
  <2>7. Answered'
    BY <2>1, <2>2, <2>3 DEF Answered, Reports
  <2> QED
    BY <2>4, <2>5, <2>6, <2>7
<1>3. CASE ReporterDecides
  <2>1. /\ UNCHANGED <<crashed, how, thread_handle, skip_recs, exitBegun, ended>>
        /\ at[Reporter] = "go" /\ Reports(Reporter)
    BY <1>3 DEF ReporterDecides
  <2>2. Len(report) = 0 /\ how[Reporter] = "none"
    BY <2>1 DEF Progress, Reports
  <2>3. CASE crashed = "crashed" /\ report' = Append(report, skip_recs) /\ Goto(Reporter, "print")
    <3>1. /\ at' \in [Everyone -> Places] /\ at'[Reporter] = "print"
          /\ \A q \in Everyone : q # Reporter => at'[q] = at[q]
      BY <1>a, <2>3, Moves DEF Places
    <3>2. thread_handle \in Crashers /\ skip_recs \in Crashers
      BY <2>3 DEF Stored
    <3>3. /\ report' \in Seq(Everyone) /\ Len(report') = Len(report) + 1
          /\ \A k \in DOMAIN report' :
               report'[k] = skip_recs \/ (k \in DOMAIN report /\ report'[k] = report[k])
      BY <1>b, <2>3, <3>2, Grows
    <3>4. ReporterTypeOK'
      BY <2>1, <3>1, <3>3 DEF ReporterTypeOK
    <3>5. Progress'
      BY <1>a, <2>1, <2>2, <3>1, <3>3 DEF Progress
    <3>6. Stored'
      BY <1>a, <2>1, <3>1, <3>2, <3>3 DEF Stored, Crashers
    <3>7. Answered'
      BY <2>1, <2>2, <2>3, <3>1 DEF Answered, Reports
    <3> QED
      BY <3>4, <3>5, <3>6, <3>7
  <2>4. CASE crashed # "crashed" /\ Goto(Reporter, "finish") /\ UNCHANGED report
    <3>1. /\ at' \in [Everyone -> Places] /\ at'[Reporter] = "finish"
          /\ \A q \in Everyone : q # Reporter => at'[q] = at[q]
      BY <1>a, <2>4, Moves DEF Places
    <3>2. ReporterTypeOK'
      BY <2>1, <2>4, <3>1 DEF ReporterTypeOK
    <3>3. exitBegun
      BY <1>a, <2>1, <2>2, <2>4 DEF Answered, ReporterTypeOK
    <3>5. Progress'
      BY <1>a, <2>1, <2>2, <2>4, <3>1, <3>3 DEF Progress
    <3>6. Stored'
      BY <1>a, <2>1, <2>4, <3>1 DEF Stored, Crashers
    <3>7. Answered'
      BY <2>1, <2>2, <2>4, <3>1 DEF Answered, Reports
    <3> QED
      BY <3>2, <3>5, <3>6, <3>7
  <2> QED
    BY <1>3, <2>3, <2>4 DEF ReporterDecides
<1>4. CASE PrintStacktrace
  <2>1. /\ UNCHANGED <<crashed, how, thread_handle, skip_recs, exitBegun, ended>>
        /\ at[Reporter] = "print" /\ report' = Append(report, thread_handle) /\ Goto(Reporter, "finish")
    BY <1>4 DEF PrintStacktrace
  <2>2. Len(report) = 1 /\ how[Reporter] = "none" /\ thread_handle \in Crashers
    BY <2>1 DEF Progress, Stored
  <2>3. /\ at' \in [Everyone -> Places] /\ at'[Reporter] = "finish"
        /\ \A q \in Everyone : q # Reporter => at'[q] = at[q]
    BY <1>a, <2>1, Moves DEF Places
  <2>4. /\ report' \in Seq(Everyone) /\ Len(report') = 2
        /\ \A k \in DOMAIN report' :
             report'[k] = thread_handle \/ (k \in DOMAIN report /\ report'[k] = report[k])
    BY <1>b, <2>1, <2>2, Grows
  <2>5. ReporterTypeOK'
    BY <2>1, <2>3, <2>4 DEF ReporterTypeOK
  <2>6. Progress'
    BY <1>a, <2>1, <2>2, <2>3, <2>4 DEF Progress
  <2>7. Stored'
    BY <1>a, <2>1, <2>2, <2>3, <2>4 DEF Stored, Crashers
  <2>8. Answered'
    BY <2>1, <2>3, <2>4 DEF Answered, Reports
  <2> QED
    BY <2>5, <2>6, <2>7, <2>8
<1>5. CASE ReporterFinishes
  <2>1. /\ UNCHANGED <<how, thread_handle, skip_recs, report, exitBegun, ended>> /\ crashed' = "ending"
        /\ at[Reporter] = "finish" /\ Goto(Reporter, "notify")
    BY <1>5 DEF ReporterFinishes
  <2>2. (exitBegun \/ Len(report) = 2) /\ how[Reporter] = "none"
    BY <2>1 DEF Progress
  <2>3. /\ at' \in [Everyone -> Places] /\ at'[Reporter] = "notify"
        /\ \A q \in Everyone : q # Reporter => at'[q] = at[q]
    BY <1>a, <2>1, Moves DEF Places
  <2>4. ReporterTypeOK'
    BY <2>1, <2>3 DEF ReporterTypeOK
  <2>5. Progress'
    BY <1>a, <2>1, <2>2, <2>3 DEF Progress
  <2>6. Stored'
    BY <1>a, <2>1, <2>3 DEF Stored, Crashers
  <2>7. Answered'
    BY <2>1, <2>2, <2>3 DEF Answered, Reports
  <2> QED
    BY <2>4, <2>5, <2>6, <2>7
<1>6. ASSUME NEW p \in Everyone, CrashHandler(p) PROVE ReporterInv'
  <2>1. /\ UNCHANGED <<crashed, skip_recs, report, exitBegun, ended>>
        /\ thread_handle' = p /\ Goto(p, "mark") /\ at[p] \in {"run", "after", "print"}
    BY <1>6 DEF CrashHandler, MayCrash
  <2>2. PICK cause \in Causes : how' = [how EXCEPT ![p] = cause]
    BY <1>6 DEF CrashHandler
  <2>3. /\ how' \in [Everyone -> Causes \cup {"none"}] /\ how'[p] = cause /\ cause # "none"
        /\ \A q \in Everyone : q # p => how'[q] = how[q]
    BY <2>2 DEF ReporterTypeOK, Causes
  <2>4. p \in Crashers' /\ Crashers \subseteq Crashers'
    BY <2>3 DEF Crashers
  <2>5. /\ at' \in [Everyone -> Places] /\ at'[p] = "mark"
        /\ \A q \in Everyone : q # p => at'[q] = at[q]
    BY <2>1, Moves DEF Places
  <2>6. ReporterTypeOK'
    BY <2>1, <2>3, <2>5 DEF ReporterTypeOK
  <2>7. Progress'
    BY <1>a, <2>1, <2>3, <2>5 DEF Progress
  <2>8. Stored'
    BY <1>a, <2>1, <2>3, <2>4, <2>5 DEF Stored
  <2>9. Answered'
    BY <2>1, <2>3, <2>5 DEF Answered, Reports
  <2> QED
    BY <2>6, <2>7, <2>8, <2>9
<1>7. ASSUME NEW p \in Everyone, MarkCrashed(p) PROVE ReporterInv'
  <2>1. /\ UNCHANGED <<how, thread_handle, report, exitBegun, ended>>
        /\ skip_recs' = p /\ crashed' = "crashed" /\ at[p] = "mark" /\ Goto(p, "notify")
    BY <1>7 DEF MarkCrashed
  <2>2. /\ at' \in [Everyone -> Places] /\ at'[p] = "notify"
        /\ \A q \in Everyone : q # p => at'[q] = at[q]
    BY <2>1, Moves DEF Places
  <2>3. p \in Crashers /\ thread_handle \in Crashers /\ how[p] # "none"
    BY <2>1 DEF Stored, Crashers
  <2>4. ReporterTypeOK'
    BY <2>1, <2>2 DEF ReporterTypeOK
  <2>5. Progress'
    BY <1>a, <2>1, <2>2, <2>3 DEF Progress
  <2>6. Stored'
    BY <1>a, <2>1, <2>2, <2>3 DEF Stored, Crashers
  <2>7. Answered'
    BY <2>1, <2>2 DEF Answered, Reports
  <2> QED
    BY <2>4, <2>5, <2>6, <2>7
<1>8. ASSUME NEW p \in Everyone, Return(p) PROVE ReporterInv'
  <2>1. /\ UNCHANGED <<crashed, how, skip_recs, report, exitBegun>>
        /\ at[p] = "go" /\ ~ Reports(p) /\ (exitBegun \/ Len(report) = 2)
    BY <1>8 DEF Return, Answered
  <2>2. CASE how[p] = "terminate" /\ thread_handle' = p /\ Goto(p, "mark") /\ UNCHANGED ended
    <3>1. /\ at' \in [Everyone -> Places] /\ at'[p] = "mark"
          /\ \A q \in Everyone : q # p => at'[q] = at[q]
      BY <2>2, Moves DEF Places
    <3>2. p \in Crashers
      BY <2>2 DEF Crashers
    <3>3. ReporterTypeOK'
      BY <2>1, <3>1 DEF ReporterTypeOK
    <3>4. Progress'
      BY <1>a, <2>1, <2>2, <3>1 DEF Progress, Reports
    <3>5. Stored'
      BY <1>a, <2>1, <2>2, <3>1, <3>2 DEF Stored, Crashers
    <3>6. Answered'
      BY <2>1, <2>2, <3>1 DEF Answered, Reports
    <3> QED
      BY <3>3, <3>4, <3>5, <3>6
  <2>3. CASE UNCHANGED <<at, thread_handle>>
    BY <2>1, <2>3 DEF ReporterTypeOK, Progress, Stored, Answered, Crashers, Reports
  <2> QED
    BY <1>8, <2>2, <2>3 DEF Return
<1>9. CASE BeginExit
  <2>1. /\ UNCHANGED <<how, thread_handle, skip_recs, report, ended>> /\ exitBegun' = TRUE
        /\ crashed' = "normal_exit" /\ at[Main] = "run" /\ Goto(Main, "notify")
    BY <1>9 DEF BeginExit
  <2>2. /\ at' \in [Everyone -> Places] /\ at'[Main] = "notify"
        /\ \A q \in Everyone : q # Main => at'[q] = at[q]
    BY <1>a, <2>1, Moves DEF Places
  <2>3. exitBegun' /\ exitBegun' \in BOOLEAN
    BY <2>1, Zenon
  <2>4. ReporterTypeOK'
    BY <2>1, <2>2, <2>3 DEF ReporterTypeOK
  <2>5. Progress'
    BY <1>a, <2>1, <2>2, <2>3 DEF Progress
  <2>6. Stored'
    BY <1>a, <2>1, <2>2 DEF Stored, Crashers
  <2>7. Answered'
    BY <2>1, <2>2, <2>3 DEF Answered, Reports
  <2> QED
    BY <2>4, <2>5, <2>6, <2>7
<1>10. CASE Join
  <2>1. /\ UNCHANGED <<crashed, how, thread_handle, skip_recs, report, exitBegun, ended>>
        /\ at[Main] = "join" /\ Goto(Main, "after")
    BY <1>10 DEF Join
  <2>2. /\ at' \in [Everyone -> Places] /\ at'[Main] = "after"
        /\ \A q \in Everyone : q # Main => at'[q] = at[q]
    BY <1>a, <2>1, Moves DEF Places
  <2>3. ReporterTypeOK'
    BY <2>1, <2>2 DEF ReporterTypeOK
  <2> QED
    BY <1>a, <2>1, <2>2, <2>3 DEF Progress, Stored, Answered, Crashers, Reports
<1>11. ASSUME UNCHANGED <<crashed, at, how, thread_handle, skip_recs, report, exitBegun>>,
              ended' = ended \/ ended' # "abort"
       PROVE  ReporterInv'
  BY <1>11 DEF ReporterTypeOK, Progress, Stored, Answered, Crashers, Reports
<1>12. ASSUME NEW p \in Everyone, AbortUnhandled(p) PROVE ReporterInv'
  BY <1>11, <1>12 DEF AbortUnhandled
<1>13. CASE Exit \/ WakeUp \/ UNCHANGED cvars
  BY <1>11, <1>13 DEF Exit, WakeUp, cvars
<1> QED
  BY <1>1, <1>2, <1>3, <1>4, <1>5, <1>6, <1>7, <1>8, <1>9, <1>10, <1>12, <1>13
     DEF ReporterStep, ThreadStep

\* However many threads crash, none leaves the crash handler and ends the process before
\* the reporter thread has printed what crashed threads stored, unless ~SignalHandling
\* has overwritten the status.
THEOREM CrashReportedCorrect == Spec => []CrashReportedFirst
<1>1. Init => ReporterInv
  BY ReporterInitInv DEF Init
<1>2. ReporterInv /\ [Next]_vars => ReporterInv'
  BY ReporterStepInv DEF Next, vars, LinuxStep, WindowsStep, Stop, cvars
<1>3. ReporterInv => CrashReportedFirst
  BY DEF ReporterInv, Answered, Stored, CrashReportedFirst
<1> QED
  BY <1>1, <1>2, <1>3, PTL DEF Spec
-----------------------------------------------------------------------------
(* Linux: the signal handler *)

IsSeq(s) == \E S : s \in Seq(S)

ReportTypeOK ==
  /\ world \in Worlds
  /\ phase \in {"install", "running", "ended"} \cup HandlerPhases
  /\ step \in Nat /\ seen \in Nat
  /\ trace \in Seq(STRING) /\ skip \in Int /\ left \in Int
  /\ IsSeq(frames)

\* While every call succeeds, what the constructor has passed is installed.
Installed ==
  /\ phase = "install" => step <= Len(SignalList)
  /\ loaded /\ phase = "install" =>
       (step > 0 => altstack) /\ \A i \in DOMAIN SignalList : i < step => SignalList[i] \in installed
  /\ loaded /\ phase = "running" => altstack /\ FatalSignals \subseteq installed

\* How much of the report there is, if the handler did not fail; its signal has no
\* handler any more.
Printed ==
  ~ faulted =>
    /\ phase \in {"install", "running", "unwind", "select"} => headers = 0 /\ Len(frames) = 0
    /\ phase \in HandlerPhases => sig \notin installed
    /\ phase = "print" => headers = 1 /\ Len(frames) + left = Len(trace) - skip
    /\ phase = "raise" => headers = 1 /\ Len(frames) = Len(trace) - skip

ReportInv == ReportTypeOK /\ Installed /\ Printed /\ ReportedWhenLoaded

LEMMA LenAppend ==
  ASSUME NEW s, IsSeq(s), NEW x
  PROVE  IsSeq(Append(s, x)) /\ Len(s) \in Nat /\ Len(Append(s, x)) = Len(s) + 1
<1>1. PICK S : s \in Seq(S)
  BY DEF IsSeq
<1>2. s \in Seq(S \cup {x})
  BY <1>1
<1>3. Append(s, x) \in Seq(S \cup {x}) /\ Len(s) \in Nat /\ Len(Append(s, x)) = Len(s) + 1
  BY <1>2, AppendProperties
<1> QED
  BY <1>3 DEF IsSeq

\* The first frame at the fault, if there is one, is a frame of the trace.
LEMMA SkippedInRange ==
  ASSUME NEW t \in Seq(STRING) PROVE Skipped(t) \in Nat /\ Skipped(t) <= Len(t)
<1> DEFINE found == {i \in DOMAIN t : t[i] = world.pc}
           first == CHOOSE i \in found : \A j \in found : i <= j
<1>1. found \subseteq 1 .. Len(t) /\ Len(t) \in Nat
  OBVIOUS
<1>2. Skipped(t) = IF found = {} THEN 0 ELSE first - 1
  BY DEF Skipped
<1>3. ASSUME found # {} PROVE first \in found
  <2> HIDE DEF found
  <2>1. found \subseteq Nat
    BY <1>1
  <2> QED
    BY <1>3, <2>1, LeastElement
<1> HIDE DEF found, first
<1>4. CASE found = {}
  BY <1>1, <1>2, <1>4
<1>5. CASE found # {}
  <2>1. first \in 1 .. Len(t)
    BY <1>1, <1>3, <1>5
  <2>2. Skipped(t) = first - 1
    BY <1>2, <1>5
  <2> QED
    BY <1>1, <2>1, <2>2
<1> QED
  BY <1>4, <1>5

LEMMA ReportInitInv == ReportInit => ReportInv
<1> SUFFICES ASSUME ReportInit PROVE ReportInv
  OBVIOUS
<1>1. ReportTypeOK
  BY DEF ReportInit, ReportTypeOK, IsSeq
<1>2. Installed /\ Printed /\ ReportedWhenLoaded
  BY SignalsAssumption DEF ReportInit, Installed, Printed, ReportedWhenLoaded, HandlerPhases
<1> QED
  BY <1>1, <1>2 DEF ReportInv

LEMMA ReportStepInv == ReportInv /\ [ReportStep]_rvars => ReportInv'
<1> SUFFICES ASSUME ReportInv, [ReportStep]_rvars PROVE ReportInv'
  OBVIOUS
<1> USE DEF ReportInv, HandlerPhases
<1>s. /\ Len(SignalList) \in Nat /\ DOMAIN SignalList = 1 .. Len(SignalList)
      /\ FatalSignals = {SignalList[i] : i \in DOMAIN SignalList}
  BY SignalsAssumption DEF FatalSignals, ToSet
<1>1. CASE Install
  <2>1. /\ phase = "install" /\ step' = step + 1
        /\ phase' = IF step = Len(SignalList) THEN "running" ELSE phase
        /\ UNCHANGED <<world, seen, trace, skip, left, headers, frames, faulted, status>>
    BY <1>1 DEF Install, handling
  <2>2. ReportTypeOK'
    BY <2>1 DEF ReportTypeOK, IsSeq
  <2>3. Printed' /\ ReportedWhenLoaded'
    BY <2>1 DEF Printed, ReportedWhenLoaded
  <2>4. loaded' => /\ loaded /\ altstack' /\ installed \subseteq installed'
                   /\ step \in DOMAIN SignalList => SignalList[step] \in installed'
    <3>1. PICK done \in BOOLEAN :
            /\ loaded' = (loaded /\ done)
            /\ \/ step = 0 /\ altstack' = done /\ installed' = installed
               \/ /\ step \in DOMAIN SignalList /\ altstack' = altstack
                  /\ installed' = IF done THEN installed \cup {SignalList[step]} ELSE installed
      BY <1>1, Zenon DEF Install, Succeeded
    <3>2. loaded' => loaded /\ done
      BY <3>1, Zenon
    <3>3. CASE step = 0 /\ altstack' = done /\ installed' = installed
      <4>1. step \notin DOMAIN SignalList
        BY <1>s, <3>3
      <4>2. done => altstack'
        BY <3>3, Zenon
      <4> QED
        BY <3>2, <3>3, <4>1, <4>2
    <3>4. CASE /\ step \in DOMAIN SignalList /\ altstack' = altstack
               /\ installed' = IF done THEN installed \cup {SignalList[step]} ELSE installed
      <4>1. step > 0
        BY <1>s, <3>4
      <4>2. loaded => altstack'
        BY <2>1, <3>4, <4>1 DEF Installed
      <4> QED
        BY <3>2, <3>4, <4>2
    <3> QED
      BY <3>1, <3>3, <3>4
  <2>5. step \in Nat /\ step <= Len(SignalList)
    BY <2>1 DEF Installed, ReportTypeOK
  <2>6. ASSUME loaded', NEW i \in DOMAIN SignalList, i < step'
        PROVE  SignalList[i] \in installed'
    <3>1. i < step \/ i = step
      <4>1. i < step + 1
        BY <2>1, <2>6, Zenon
      <4>2. i \in Nat
        BY <1>s
      <4> QED
        BY <2>5, <4>1, <4>2
    <3> QED
      BY <2>1, <2>4, <2>6, <3>1 DEF Installed
  <2>7. ASSUME loaded', step = Len(SignalList) PROVE FatalSignals \subseteq installed'
    BY <1>s, <2>1, <2>5, <2>6, <2>7
  <2>8. phase' = "install" => step' <= Len(SignalList)
    <3>1. phase' = "install" => step # Len(SignalList)
      BY <2>1
    <3>2. \A m, n \in Nat : m <= n /\ m # n => m + 1 <= n
      OBVIOUS
    <3>3. step # Len(SignalList) => step + 1 <= Len(SignalList)
      BY <1>s, <2>5, <3>2, Zenon
    <3> QED
      BY <2>1, <3>1, <3>3, Zenon
  <2>9. phase' = "running" => step = Len(SignalList)
    BY <2>1
  <2>10. Installed'
    BY <2>4, <2>6, <2>7, <2>8, <2>9 DEF Installed
  <2> QED
    BY <2>2, <2>3, <2>10
<1>2. ASSUME NEW s, phase \in {"running"} \cup HandlerPhases, Handle(s), UNCHANGED <<setup>>,
             faulted' \/ (phase = "running" /\ faulted' = faulted)
      PROVE  ReportInv'
  <2>1. /\ phase' = "unwind" /\ sig' \notin installed' /\ seen' = 0 /\ trace' = <<>>
        /\ skip' = 0 /\ left' = 0 /\ UNCHANGED <<world, step, altstack, loaded, headers, frames>>
    BY <1>2 DEF Handle, HandlersDuring, setup
  <2>2. ReportTypeOK'
    BY <2>1 DEF ReportTypeOK, IsSeq
  <2>3. Installed' /\ Printed' /\ ReportedWhenLoaded'
    BY <1>2, <2>1 DEF Installed, Printed, ReportedWhenLoaded
  <2> QED
    BY <2>2, <2>3
<1>3. ASSUME NEW s, EndedBy(s), UNCHANGED <<setup, handling>>,
             \/ faulted' \/ s \notin FatalSignals \/ (~ loaded)
             \/ phase = "raise" /\ faulted' = faulted
      PROVE  ReportInv'
  <2>1. /\ phase' = "ended" /\ status' = s
        /\ UNCHANGED <<world, step, altstack, loaded, seen, trace, skip, left, headers, frames>>
    BY <1>3 DEF EndedBy, setup, handling
  <2>2. ReportTypeOK'
    BY <2>1 DEF ReportTypeOK, IsSeq
  <2>3. Installed' /\ Printed' /\ ReportedWhenLoaded'
    BY <1>3, <2>1 DEF Installed, Printed, ReportedWhenLoaded
  <2> QED
    BY <2>2, <2>3
<1>4. ASSUME NEW s, Deliver(s), phase = "raise" \/ s \in FatalSignals PROVE ReportInv'
  <2>1. phase \in {"running", "raise"} /\ (phase = "raise" => s = sig) /\ UNCHANGED <<setup, faulted>>
    BY <1>4 DEF Deliver
  <2>2. CASE Handle(s) /\ s \in installed
    BY <1>2, <2>1, <2>2 DEF Printed
  <2>3. CASE (s \notin installed \/ (world.overflow /\ ~ altstack)) /\ EndedBy(s) /\ UNCHANGED handling
    BY <1>3, <1>4, <2>1, <2>3 DEF Installed
  <2> QED
    BY <1>4, <2>2, <2>3 DEF Deliver
<1>5. ASSUME NEW s, FaultInHandler(s) PROVE ReportInv'
  BY <1>2, <1>3, <1>5 DEF FaultInHandler
<1>6. CASE ReturnFromMain
  BY <1>3, <1>6, SignalsAssumption DEF ReturnFromMain
<1>7. CASE UnwindFrame
  <2>1. /\ phase = "unwind" /\ seen < Len(world.stack) /\ seen' = seen + 1
        /\ trace' = IF seen = 0 THEN trace ELSE Append(trace, world.stack[seen + 1])
        /\ UNCHANGED <<world, step, altstack, loaded, phase, installed, sig, skip, left, headers,
                       frames, faulted, status>>
    BY <1>7 DEF UnwindFrame, setup
  <2>2. world.stack[seen + 1] \in STRING
    BY <2>1, WorldsAssumption DEF ReportTypeOK
  <2>3. trace' \in Seq(STRING)
    <3>1. Append(trace, world.stack[seen + 1]) \in Seq(STRING)
      BY <2>2, AppendProperties DEF ReportTypeOK
    <3> QED
      BY <2>1, <3>1 DEF ReportTypeOK
  <2>4. ReportTypeOK'
    BY <2>1, <2>3 DEF ReportTypeOK, IsSeq
  <2> QED
    BY <2>1, <2>4 DEF Installed, Printed, ReportedWhenLoaded
<1>8. CASE UnwindEnd
  <2>1. /\ phase = "unwind" /\ phase' = "select" /\ UNCHANGED <<world, step, altstack, loaded,
             installed, sig, seen, trace, skip, left, headers, frames, faulted, status>>
    BY <1>8 DEF UnwindEnd, setup, handling
  <2>2. ReportTypeOK'
    BY <2>1 DEF ReportTypeOK, IsSeq
  <2> QED
    BY <2>1, <2>2 DEF Installed, Printed, ReportedWhenLoaded
<1>9. CASE SelectFrames
  <2>1. /\ phase = "select" /\ phase' = "print" /\ skip' = Skipped(trace)
        /\ trace' = SubSeq(trace, 1, Shorter(Len(trace), skip' + Depth))
        /\ left' = SizeAfter(trace', skip') /\ headers' = headers + 1
        /\ UNCHANGED <<world, step, altstack, loaded, installed, sig, seen, frames, faulted, status>>
    BY <1>9 DEF SelectFrames, setup
  <2>2. skip' \in Nat /\ skip' <= Len(trace) /\ trace \in Seq(STRING)
    BY <2>1, SkippedInRange DEF ReportTypeOK
  <2>3. Shorter(Len(trace), skip' + Depth) \in 0 .. Len(trace)
    <3>1. Len(trace) \in Nat
      BY <2>2
    <3> QED
      <4>1. \A m, n \in Nat : Shorter(m, n) \in 0 .. m
        BY DEF Shorter
      <4>2. \A m \in Nat : m + Depth \in Nat
        BY DepthAssumption
      <4>3. skip' + Depth \in Nat
        BY <2>2, <4>2, Zenon
      <4> QED
        BY <3>1, <4>1, <4>3, Zenon
  <2>4. trace' \in Seq(STRING) /\ Len(trace') \in Nat
    BY <2>1, <2>2, <2>3
  <2>5. left' = Len(trace') - skip'
    <3>1. Len(trace') = Shorter(Len(trace), skip' + Depth)
      BY <2>1, <2>2, <2>3
    <3>2. skip' <= Shorter(Len(trace), skip' + Depth)
      <4>1. \A m, n \in Nat : n <= m => n <= Shorter(m, n + Depth)
        BY DepthAssumption DEF Shorter
      <4>2. Len(trace) \in Nat
        BY <2>2
      <4> QED
        BY <2>2, <4>1, <4>2, Zenon
    <3> QED
      BY <2>1, <2>2, <2>4, <3>1, <3>2 DEF SizeAfter
  <2>6. ReportTypeOK'
    BY <2>1, <2>2, <2>4, <2>5 DEF ReportTypeOK, IsSeq
  <2>7. Installed' /\ ReportedWhenLoaded'
    BY <2>1 DEF Installed, ReportedWhenLoaded
  <2>8. Printed'
    BY <2>1, <2>2, <2>4, <2>5 DEF Printed
  <2> QED
    BY <2>6, <2>7, <2>8
<1>10. CASE PrintFrame
  <2>1. /\ phase = "print" /\ left' = left - 1
        /\ UNCHANGED <<world, step, altstack, loaded, phase, installed, sig, seen, trace, skip,
                       headers, faulted, status>>
    BY <1>10 DEF PrintFrame, setup
  <2>2. \E x : frames' = Append(frames, x)
    BY <1>10 DEF PrintFrame
  <2>3. IsSeq(frames') /\ Len(frames) \in Nat /\ Len(frames') = Len(frames) + 1
    BY <2>2, LenAppend DEF ReportTypeOK
  <2>4. ReportTypeOK'
    BY <2>1, <2>3 DEF ReportTypeOK, IsSeq
  <2>5. Installed' /\ ReportedWhenLoaded'
    BY <2>1 DEF Installed, ReportedWhenLoaded
  <2>6. Len(trace) \in Nat
    BY DEF ReportTypeOK
  <2>7. Printed'
    BY <2>1, <2>3, <2>6 DEF Printed, ReportTypeOK
  <2> QED
    BY <2>4, <2>5, <2>7
<1>11. CASE PrintEnd
  <2>1. /\ phase = "print" /\ left = 0 /\ phase' = "raise"
        /\ UNCHANGED <<world, step, altstack, loaded, installed, sig, seen, trace, skip, left,
                       headers, frames, faulted, status>>
    BY <1>11 DEF PrintEnd, setup, handling
  <2>2. ReportTypeOK'
    BY <2>1 DEF ReportTypeOK, IsSeq
  <2>3. Installed' /\ ReportedWhenLoaded'
    BY <2>1 DEF Installed, ReportedWhenLoaded
  <2>4. Len(frames) \in Nat
    BY LenAppend DEF ReportTypeOK
  <2>5. Printed'
    BY <2>1, <2>4 DEF Printed
  <2> QED
    BY <2>2, <2>3, <2>5
<1>12. CASE UNCHANGED rvars
  BY <1>12 DEF rvars, ReportTypeOK, IsSeq, Installed, Printed, ReportedWhenLoaded
<1> QED
  BY <1>1, <1>4, <1>5, <1>6, <1>7, <1>8, <1>9, <1>10, <1>11, <1>12 DEF ReportStep, HandlerStep

\* When loaded() is true and the handler does not fail itself, a process that a fatal
\* signal ends has reported it first, with one header and every selected frame, for any
\* list of signals, stack and debug information.
THEOREM ReportedCorrect == Spec => []ReportedWhenLoaded
<1>1. Init => ReportInv
  BY ReportInitInv DEF Init
<1>2. ReportInv /\ [Next]_vars => ReportInv'
  BY ReportStepInv DEF Next, vars, LinuxStep, WindowsStep, Stop, rvars
<1>3. ReportInv => ReportedWhenLoaded
  BY DEF ReportInv
<1> QED
  BY <1>1, <1>2, <1>3, PTL DEF Spec
-----------------------------------------------------------------------------
(* Linux: the frames of the report *)

\* The stored frames are those behind the unwinder's own, and no more than asked for.
Unwound ==
  /\ phase = "unwind" =>
       /\ seen \in 0 .. Len(world.stack) /\ seen - 1 <= Limit
       /\ Len(trace) = IF seen = 0 THEN 0 ELSE seen - 1
  /\ phase = "select" => Len(trace) = Shorter(Len(world.stack) - 1, Limit)
  /\ phase \in {"unwind", "select"} =>
       /\ Len(trace) < Len(world.stack)
       /\ \A i \in 1 .. Len(trace) : trace[i] = world.stack[i + 1]

\* The part of a sequence from m on is the same in two sequences that agree there.
LEMMA SameSubSeq ==
  ASSUME NEW s \in Seq(STRING), NEW t \in Seq(STRING), NEW m \in Nat \ {0}, NEW n \in Nat,
         n <= Len(s), n <= Len(t), \A i \in 1 .. n : s[i] = t[i]
  PROVE  SubSeq(s, m, n) = SubSeq(t, m, n)
<1>1. \A i \in m .. n : s[i] \in STRING /\ t[i] \in STRING /\ s[i] = t[i]
  OBVIOUS
<1>2. /\ SubSeq(s, m, n) \in Seq(STRING)
      /\ Len(SubSeq(s, m, n)) = IF m <= n THEN n - m + 1 ELSE 0
      /\ \A i \in 1 .. n - m + 1 : SubSeq(s, m, n)[i] = s[m + i - 1]
  BY <1>1, SubSeqProperties
<1>3. /\ SubSeq(t, m, n) \in Seq(STRING)
      /\ Len(SubSeq(t, m, n)) = IF m <= n THEN n - m + 1 ELSE 0
      /\ \A i \in 1 .. n - m + 1 : SubSeq(t, m, n)[i] = t[m + i - 1]
  BY <1>1, SubSeqProperties
<1> DEFINE u == SubSeq(s, m, n)  v == SubSeq(t, m, n)
<1>4. Len(u) = Len(v) /\ \A i \in 1 .. Len(u) : u[i] = v[i]
  <2>1. Len(u) = Len(v)
    BY <1>2, <1>3
  <2>2. ASSUME NEW i \in 1 .. Len(u) PROVE u[i] = v[i]
    <3>1. m <= n /\ i \in 1 .. n - m + 1 /\ m + i - 1 \in 1 .. n
      BY <1>2, <2>2
    <3> QED
      BY <1>2, <1>3, <3>1
  <2> QED
    BY <2>1, <2>2
<1>5. u \in Seq(STRING) /\ v \in Seq(STRING)
  BY <1>2, <1>3
<1> HIDE DEF u, v
<1>6. u = v
  BY <1>4, <1>5, SeqEqual
<1> QED
  BY <1>6 DEF u, v

\* What the reports of the property are compared with.
LEMMA RealFrames ==
  ASSUME ReportTypeOK
  PROVE  /\ Tail(world.stack) \in Seq(STRING)
         /\ Len(world.stack) \in Nat \ {0}
         /\ Len(Tail(world.stack)) = Len(world.stack) - 1
         /\ \A i \in 1 .. Len(world.stack) - 1 : Tail(world.stack)[i] = world.stack[i + 1]
         /\ Limit \in Nat
<1>1. world.stack \in Seq(STRING) /\ world.stack # <<>>
  BY WorldsAssumption DEF ReportTypeOK
<1>2. Limit \in Nat
  BY DepthAssumption DEF Limit
<1> DEFINE k == world.stack
<1> HIDE DEF k
<1>3. k \in Seq(STRING) /\ k # <<>>
  BY <1>1 DEF k
<1>4. /\ Tail(k) \in Seq(STRING) /\ Len(Tail(k)) = Len(k) - 1
      /\ \A i \in 1 .. Len(Tail(k)) : Tail(k)[i] = k[i + 1]
  BY <1>3, HeadTailProperties
<1>5. Len(k) \in Nat \ {0}
  BY <1>3
<1> QED
  BY <1>2, <1>4, <1>5 DEF k

\* The first frame with the faulting address is where the report begins.
LEMMA SelectedFrames ==
  ASSUME ReportTypeOK, Unwound, phase = "select", NEW n, n = Shorter(Len(world.stack) - 1, Limit)
  PROVE  /\ Len(trace) = n
         /\ FramesFrom(Tail(world.stack), world.pc, n)
              = SubSeq(Tail(world.stack), Skipped(trace) + 1, Shorter(n, Skipped(trace) + 1 + Depth - 1))
<1> DEFINE found == {i \in DOMAIN trace : trace[i] = world.pc}
           least == CHOOSE i \in found : \A j \in found : i <= j
           known == {i \in 1 .. n : Tail(world.stack)[i] = world.pc}
           first == IF known = {} THEN 1 ELSE CHOOSE i \in known : \A j \in known : i <= j
<1>0. FramesFrom(Tail(world.stack), world.pc, n)
        = SubSeq(Tail(world.stack), first, Shorter(n, first + Depth - 1))
  BY DEF FramesFrom
<1>1. Len(trace) = n
  BY RealFrames DEF Unwound
<1>2. trace \in Seq(STRING) /\ DOMAIN trace = 1 .. n /\ n \in Nat
  BY <1>1 DEF ReportTypeOK
<1>3. \A i \in 1 .. n : trace[i] = Tail(world.stack)[i]
  <2>1. /\ Len(world.stack) \in Nat /\ n < Len(world.stack)
        /\ \A i \in 1 .. Len(world.stack) - 1 : Tail(world.stack)[i] = world.stack[i + 1]
    BY <1>1, RealFrames DEF Unwound
  <2>2. \A i \in 1 .. n : i \in 1 .. Len(world.stack) - 1
    BY <1>2, <2>1
  <2>3. \A i \in 1 .. n : trace[i] = world.stack[i + 1]
    BY <1>1 DEF Unwound
  <2> QED
    BY <2>1, <2>2, <2>3
<1>4. known = found
  BY <1>2, <1>3
<1>5. first = IF found = {} THEN 1 ELSE least
  <2> HIDE DEF known, found
  <2> QED
    BY <1>4
<1>6. Skipped(trace) = IF found = {} THEN 0 ELSE least - 1
  BY DEF Skipped
<1>7. found # {} => least \in 1 .. n
  <2>1. found \subseteq 1 .. n /\ found \subseteq Nat
    BY <1>2
  <2> HIDE DEF found
  <2> QED
    BY <2>1, LeastElement
<1> HIDE DEF found, least, first
<1>8. first = Skipped(trace) + 1
  BY <1>2, <1>5, <1>6, <1>7
<1> QED
  BY <1>0, <1>1, <1>8

LEMMA FramesStep == ReportInv /\ Unwound /\ TraceStartsAtFault /\ [ReportStep]_rvars => Unwound' /\ TraceStartsAtFault'
<1> SUFFICES ASSUME ReportInv, Unwound, TraceStartsAtFault, [ReportStep]_rvars
             PROVE  Unwound' /\ TraceStartsAtFault'
  OBVIOUS
<1>t. ReportTypeOK
  BY DEF ReportInv
<1>r. /\ Tail(world.stack) \in Seq(STRING) /\ Len(world.stack) \in Nat \ {0}
      /\ Len(Tail(world.stack)) = Len(world.stack) - 1
      /\ \A i \in 1 .. Len(world.stack) - 1 : Tail(world.stack)[i] = world.stack[i + 1]
      /\ Limit \in Nat
  BY <1>t, RealFrames
<1>1. ASSUME phase' \in {"install", "running", "ended"} PROVE Unwound' /\ TraceStartsAtFault'
  BY <1>1 DEF Unwound, TraceStartsAtFault
<1>2. ASSUME NEW s, Handle(s), world' = world PROVE Unwound' /\ TraceStartsAtFault'
  <2>1. phase' = "unwind" /\ seen' = 0 /\ trace' = <<>> /\ world' = world /\ Limit' = Limit
    BY <1>2 DEF Handle, Limit
  <2>2. Len(trace') = 0
    BY <2>1
  <2> QED
    BY <1>r, <2>1, <2>2 DEF Unwound, TraceStartsAtFault
<1>3. CASE UnwindFrame
  <2>1. /\ phase = "unwind" /\ phase' = phase /\ seen < Len(world.stack) /\ seen - 1 < Limit
        /\ seen' = seen + 1 /\ world' = world /\ Limit' = Limit
        /\ trace' = IF seen = 0 THEN trace ELSE Append(trace, world.stack[seen + 1])
    BY <1>3 DEF UnwindFrame, setup, Limit
  <2>2. /\ seen \in Nat /\ trace \in Seq(STRING) /\ Len(trace) = (IF seen = 0 THEN 0 ELSE seen - 1)
        /\ \A i \in 1 .. Len(trace) : trace[i] = world.stack[i + 1]
    BY <1>t, <2>1 DEF Unwound, ReportTypeOK
  <2>3. CASE seen = 0
    BY <1>r, <2>1, <2>2, <2>3 DEF Unwound, TraceStartsAtFault
  <2>4. CASE seen # 0
    <3> DEFINE x == world.stack[seen + 1]
    <3>1. x \in STRING
      BY <1>t, <2>1, <2>2, WorldsAssumption DEF ReportTypeOK
    <3> HIDE DEF x
    <3>2. trace' = Append(trace, x) /\ Len(trace) = seen - 1
      BY <2>1, <2>2, <2>4 DEF x
    <3>3. /\ Len(trace') = seen
          /\ \A i \in 1 .. seen : trace'[i] = IF i = seen THEN x ELSE trace[i]
      BY <2>2, <2>4, <3>1, <3>2
    <3>4. \A i \in 1 .. seen : trace'[i] = world.stack[i + 1]
      BY <2>2, <3>2, <3>3 DEF x
    <3> QED
      BY <1>r, <2>1, <2>2, <3>3, <3>4 DEF Unwound, TraceStartsAtFault
  <2> QED
    BY <2>3, <2>4
<1>4. CASE UnwindEnd
  <2>1. /\ phase = "unwind" /\ phase' = "select" /\ (seen = Len(world.stack) \/ seen - 1 >= Limit)
        /\ UNCHANGED <<trace, world>> /\ Limit' = Limit
    BY <1>4 DEF UnwindEnd, setup, handling, Limit
  <2>2. seen \in 0 .. Len(world.stack) /\ seen - 1 <= Limit /\ Len(trace) = (IF seen = 0 THEN 0 ELSE seen - 1)
    BY <2>1 DEF Unwound
  <2>3. Len(trace) = Shorter(Len(world.stack) - 1, Limit)
    BY <1>r, <2>1, <2>2 DEF Shorter
  <2> QED
    BY <2>1, <2>3 DEF Unwound, TraceStartsAtFault
<1>5. CASE SelectFrames
  <2> DEFINE real == Tail(world.stack)
             n == Shorter(Len(world.stack) - 1, Limit)
             first == Skipped(trace) + 1
             m == Shorter(n, first + Depth - 1)
  <2>1. /\ phase = "select" /\ phase' = "print" /\ skip' = Skipped(trace)
        /\ trace' = SubSeq(trace, 1, Shorter(Len(trace), skip' + Depth)) /\ world' = world
    BY <1>5 DEF SelectFrames, setup
  <2>2. Len(trace) = n /\ FramesFrom(real, world.pc, n) = SubSeq(real, first, m)
    BY <1>t, <2>1, SelectedFrames
  <2>3. Skipped(trace) \in Nat /\ Skipped(trace) <= n /\ trace \in Seq(STRING) /\ n \in Nat
    BY <1>t, <2>2, SkippedInRange DEF ReportTypeOK
  <2>4. Limit' = Limit
    BY <2>1 DEF Limit
  <2>5. TraceStartsAtFault' <=>
          SubSeq(trace', skip' + 1, Len(trace')) = FramesFrom(real, world.pc, n)
    BY <2>1, <2>4 DEF TraceStartsAtFault
  <2>6. n < Len(world.stack) /\ \A i \in 1 .. n : trace[i] = world.stack[i + 1]
    BY <2>1, <2>2 DEF Unwound
  <2>7. real \in Seq(STRING) /\ n <= Len(real) /\ \A i \in 1 .. n : trace[i] = real[i]
    BY <1>r, <2>3, <2>6
  <2> HIDE DEF real, n, first, m
  <2>8. first \in Nat \ {0} /\ skip' + 1 = first /\ skip' + Depth = first + Depth - 1
    BY <2>1, <2>3, DepthAssumption DEF first
  <2>9. m \in Nat /\ m <= n /\ trace' = SubSeq(trace, 1, m)
    <3>1. Shorter(Len(trace), skip' + Depth) = m
      BY <2>2, <2>8 DEF m
    <3>2. m \in Nat /\ m <= n
      BY <2>3, <2>8, DepthAssumption DEF m, Shorter
    <3> QED
      BY <2>1, <3>1, <3>2
  <2>10. /\ trace' \in Seq(STRING) /\ Len(trace') = m
         /\ \A i \in 1 .. m : trace'[i] = trace[i]
    <3>1. \A i \in 1 .. m : trace[i] \in STRING
      BY <2>2, <2>3, <2>9
    <3>2. /\ SubSeq(trace, 1, m) \in Seq(STRING)
          /\ Len(SubSeq(trace, 1, m)) = IF 1 <= m THEN m - 1 + 1 ELSE 0
          /\ \A i \in 1 .. m - 1 + 1 : SubSeq(trace, 1, m)[i] = trace[1 + i - 1]
      BY <2>9, <3>1, SubSeqProperties
    <3>3. \A i \in 1 .. m : i \in 1 .. m - 1 + 1 /\ 1 + i - 1 = i
      BY <2>9
    <3> QED
      BY <2>9, <3>2, <3>3
  <2>11. m <= Len(real) /\ \A i \in 1 .. m : trace'[i] = real[i]
    BY <2>3, <2>7, <2>9, <2>10
  <2>12. SubSeq(trace', first, m) = SubSeq(real, first, m)
    BY <2>7, <2>8, <2>9, <2>10, <2>11, SameSubSeq
  <2>13. TraceStartsAtFault'
    BY <2>2, <2>5, <2>8, <2>10, <2>12
  <2> QED
    BY <2>1, <2>13 DEF Unwound
<1>6. CASE PrintFrame \/ PrintEnd
  <2>1. phase \in {"print", "raise"} /\ phase' \in {"print", "raise"} /\ UNCHANGED <<world, trace, skip>>
    BY <1>6 DEF PrintFrame, PrintEnd, setup, handling
  <2> QED
    <3>1. Limit' = Limit
      BY <2>1 DEF Limit
    <3> QED
      BY <2>1, <3>1 DEF Unwound, TraceStartsAtFault
<1>7. CASE UNCHANGED rvars
  <2>1. Limit' = Limit
    BY <1>7 DEF rvars, Limit
  <2> QED
    BY <1>7, <2>1 DEF rvars, Unwound, TraceStartsAtFault
<1>8. ASSUME NEW s, Deliver(s) \/ FaultInHandler(s) PROVE Unwound' /\ TraceStartsAtFault'
  BY <1>1, <1>2, <1>8 DEF Deliver, FaultInHandler, EndedBy, setup
<1>9. CASE Install \/ ReturnFromMain
  BY <1>1, <1>9 DEF Install, ReturnFromMain, EndedBy
<1> QED
  BY <1>3, <1>4, <1>5, <1>6, <1>7, <1>8, <1>9 DEF ReportStep, HandlerStep

\* The report of a fatal signal shows consecutive frames of the stack, at most Depth of
\* them, the last one at the faulting address if the unwinder stored that frame, for every
\* stack, depth and number of frames of the handler itself.
THEOREM TraceCorrect == Spec => []TraceStartsAtFault
<1>1. Init => ReportInv /\ Unwound /\ TraceStartsAtFault
  BY ReportInitInv DEF Init, ReportInit, Unwound, TraceStartsAtFault
<1>2. ReportInv /\ Unwound /\ TraceStartsAtFault /\ [Next]_vars =>
        (ReportInv /\ Unwound /\ TraceStartsAtFault)'
  BY ReportStepInv, FramesStep DEF Next, vars, LinuxStep, WindowsStep, Stop, rvars
<1> QED
  BY <1>1, <1>2, PTL DEF Spec
-----------------------------------------------------------------------------
(* Linux: the source lines of the report *)

\* A snippet around any line number that fits in unsigned shows what ShowsLine asks for: the
\* subtraction that wraps around near the top of a file, or the addition that wraps around
\* behind its end, leaves no line to show and never a wrong one.
THEOREM SnippetCorrect ==
  ASSUME world \in Worlds, NEW line \in 0 .. Wrap - 1, NEW context \in {InlinerContext, TraceContext}
  PROVE  ShowsLine(Snippet(line, context))
<1> DEFINE half == context \div 2
           start == (line + Wrap - half) % Wrap
           end == (start + context) % Wrap
           shown == get_snippet(line, context)
<1>1. context \in Nat \ {0} /\ Wrap \in Nat /\ Len(world.lines) + context < Wrap
  BY ContextAssumption
<1>2. FileLines \in Seq(STRING) /\ Len(FileLines) \in Nat /\ DOMAIN FileLines = 1 .. Len(FileLines)
      /\ Len(FileLines) + context < Wrap
  <2>1. world.lines \in Seq(STRING) /\ Len(world.lines) \in Nat
    BY WorldsAssumption
  <2>2. <<>> \in Seq(STRING) /\ Len(<<>>) = 0
    OBVIOUS
  <2>3. FileLines \in {world.lines, <<>>}
    BY DEF FileLines
  <2>4. CASE FileLines = world.lines
    BY <1>1, <2>1, <2>4
  <2>5. CASE FileLines = <<>>
    BY <1>1, <2>1, <2>2, <2>5
  <2> QED
    BY <2>3, <2>4, <2>5
<1>3. half \in Nat /\ 2 * half <= context /\ context <= 2 * half + 1 /\ half < context
  BY <1>1
<1>4. ASSUME NEW n \in shown PROVE n \in 1 .. Len(FileLines) /\ start <= n /\ n < end
  BY <1>2 DEF get_snippet, get_lines
<1>5. ASSUME NEW n \in 1 .. Len(FileLines), start <= n, n < end, HasText(n) PROVE n \in shown
  BY <1>2, <1>5 DEF get_snippet, get_lines
<1> HIDE DEF half, shown
<1>6. line >= half => start = line - half
  BY <1>1, <1>3
<1>7. line < half => start = line + Wrap - half
  BY <1>1, <1>3
<1>8. start \in Nat /\ start < Wrap
  BY <1>1, <1>3, <1>6, <1>7
<1> HIDE DEF start
<1>9. (start + context < Wrap => end = start + context)
      /\ (start + context >= Wrap => end = start + context - Wrap)
  BY <1>1, <1>2, <1>8
<1> HIDE DEF end
<1>10. ASSUME line \in DOMAIN FileLines, HasText(line), line >= half PROVE line \in shown
  BY <1>1, <1>2, <1>3, <1>5, <1>6, <1>9, <1>10
<1>11. ASSUME NEW n \in shown PROVE n <= line + half /\ line <= n + half
  BY <1>1, <1>2, <1>3, <1>4, <1>6, <1>7, <1>9
<1> QED
  BY <1>10, <1>11 DEF ShowsLine, Snippet, half, shown
=============================================================================
