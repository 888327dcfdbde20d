---------------------------- MODULE CrashReporter ----------------------------
(***************************************************************************)
(* SignalHandling of backward.hpp on Windows: a reporter thread started at *)
(* the beginning waits on a condition variable for a crash or the end of   *)
(* the program; a thread that crashes stores its handle, sets the status,  *)
(* wakes a waiter and waits for the report before it lets the process end; *)
(* the destructor sets the status, wakes a waiter and joins the reporter.  *)
(*                                                                         *)
(* A section under the mutex is one step.  A wait tests its condition and  *)
(* joins the waiters in one step, notify_one removes any one of them, and  *)
(* a waiter may wake up for no reason.  The thread handle and the number   *)
(* of frames to skip are shared and written without the mutex.  The stored *)
(* context is left out: load_here replaces it by the reporter's own.       *)
(***************************************************************************)
EXTENDS Naturals, FiniteSets, Sequences

CONSTANTS Threads, Main

Reporter == "reporter"

ASSUME ThreadsAssumption == Main \in Threads /\ Reporter \notin Threads

VARIABLES
  crashed,       \* crash_status: "running", "crashed", "normal_exit", "ending"
  at,            \* where each thread is
  how,           \* what brought it to the crash handler
  waiting,       \* the threads on the condition variable
  thread_handle, \* the thread whose handle is stored
  skip_recs,     \* the thread whose number of frames to skip is stored
  report,        \* what the trace is made from: skip_recs, then thread_handle
  abortHandler,  \* the handler of SIGABRT is installed
  exitBegun,     \* the destructor has set the status
  ended          \* "no", "abort" (after the crash handler), "killed" or "exit"

cvars == <<crashed, at, how, waiting, thread_handle, skip_recs, report,
           abortHandler, exitBegun, ended>>

Everyone == Threads \cup {Reporter}
Causes == {"exception", "abort", "terminate"}

ReporterInit ==
  /\ crashed = "running"
  /\ at = [p \in Everyone |-> IF p = Reporter THEN "wait" ELSE "run"]
  /\ how = [p \in Everyone |-> "none"]
  /\ waiting = {} /\ thread_handle = "none" /\ skip_recs = "none" /\ report = <<>>
  /\ abortHandler = TRUE /\ exitBegun = FALSE /\ ended = "no"

Goto(p, where) == at' = [at EXCEPT ![p] = where]

\* The reporter does its own work until it crashes itself.
Reports(p) == p = Reporter /\ how[Reporter] = "none"
-----------------------------------------------------------------------------
(* Waiting and waking *)

\* std::condition_variable::notify_one.
NotifyOne ==
  waiting' \in IF waiting = {} THEN {{}} ELSE {waiting \ {p} : p \in waiting}

\* Faulty variant: the wake-up is left out.
NotifyNobody == UNCHANGED waiting

\* The wake-up after a change of the status.
Notified == NotifyOne

Notify(p) ==
  /\ at[p] = "notify" /\ Notified
  /\ Goto(p, IF Reports(p) THEN "done" ELSE IF how[p] = "none" THEN "join" ELSE "wait")
  /\ UNCHANGED <<crashed, how, thread_handle, skip_recs, report, abortHandler, exitBegun, ended>>

\* Faulty variant: whoever wakes up goes on.
MayGoOnAlways(p) == TRUE

\* The conditions of the two waits: the reporter for a status other than
\* running, a crashed thread for one other than crashed.
MayGoOn(p) == IF Reports(p) THEN crashed # "running" ELSE crashed # "crashed"

\* cv().wait: one test of the condition.
Wait(p) ==
  /\ at[p] = "wait" /\ p \notin waiting
  /\ \/ MayGoOn(p) /\ Goto(p, "go") /\ UNCHANGED waiting
     \/ ~ MayGoOn(p) /\ waiting' = waiting \cup {p} /\ UNCHANGED at
  /\ UNCHANGED <<crashed, how, thread_handle, skip_recs, report, abortHandler, exitBegun, ended>>

WakeUp ==
  /\ \E p \in waiting : waiting' = waiting \ {p}
  /\ UNCHANGED <<crashed, at, how, thread_handle, skip_recs, report, abortHandler, exitBegun, ended>>
-----------------------------------------------------------------------------
(* The reporter *)

\* Awake, it reads the status outside the lock: for a crash it starts the
\* report with the frames to skip, else it goes to the end.
ReporterDecides ==
  /\ at[Reporter] = "go" /\ Reports(Reporter)
  /\ \/ /\ crashed = "crashed" /\ report' = Append(report, skip_recs) /\ Goto(Reporter, "print")
     \/ /\ crashed # "crashed" /\ Goto(Reporter, "finish") /\ UNCHANGED report
  /\ UNCHANGED <<crashed, how, waiting, thread_handle, skip_recs, abortHandler, exitBegun, ended>>

\* handle_stacktrace walks the stack with the stored handle, from the context
\* of the reporter itself, and prints it.
PrintStacktrace ==
  /\ at[Reporter] = "print"
  /\ report' = Append(report, thread_handle) /\ Goto(Reporter, "finish")
  /\ UNCHANGED <<crashed, how, waiting, thread_handle, skip_recs, abortHandler, exitBegun, ended>>

\* It says so (and then wakes a waiter).
ReporterFinishes ==
  /\ at[Reporter] = "finish" /\ crashed' = "ending" /\ Goto(Reporter, "notify")
  /\ UNCHANGED <<how, waiting, thread_handle, skip_recs, report, abortHandler, exitBegun, ended>>
-----------------------------------------------------------------------------
(* Crashes *)

\* Where a thread may crash: the reporter while it prints.
MayCrash(p) == at[p] \in {"run", "after", "print"}

\* The crash handler is entered: by an exception, by std::terminate and its
\* like, by SIGABRT, whose handler is reset.
CrashHandler(p) ==
  /\ MayCrash(p)
  /\ \E cause \in Causes :
       /\ cause = "abort" => abortHandler
       /\ abortHandler' = (abortHandler /\ cause # "abort")
       /\ how' = [how EXCEPT ![p] = cause]
  /\ thread_handle' = p /\ Goto(p, "mark")
  /\ UNCHANGED <<crashed, waiting, skip_recs, report, exitBegun, ended>>

\* The rest of crash_handler before its wake-up and its wait.
MarkCrashed(p) ==
  /\ at[p] = "mark" /\ Goto(p, "notify")
  /\ skip_recs' = p /\ crashed' = "crashed"
  /\ UNCHANGED <<how, waiting, thread_handle, report, abortHandler, exitBegun, ended>>

\* abort() without handler.
AbortUnhandled(p) ==
  /\ MayCrash(p) /\ ~ abortHandler /\ ended' = "killed"
  /\ UNCHANGED <<crashed, at, how, waiting, thread_handle, skip_recs, report, abortHandler, exitBegun>>

\* After crash_handler: an exception ends the process; the others call
\* abort(), which enters the handler of SIGABRT if it is still there.
Return(p) ==
  /\ at[p] = "go" /\ ~ Reports(p)
  /\ \/ /\ how[p] = "terminate" /\ abortHandler
        /\ abortHandler' = FALSE /\ thread_handle' = p /\ Goto(p, "mark") /\ UNCHANGED ended
     \/ /\ ~ (how[p] = "terminate" /\ abortHandler)
        /\ ended' = "abort" /\ UNCHANGED <<at, thread_handle, abortHandler>>
  /\ UNCHANGED <<crashed, how, waiting, skip_recs, report, exitBegun>>
-----------------------------------------------------------------------------
(* The end of the program *)

\* ~SignalHandling, in the main thread.
BeginExit ==
  /\ at[Main] = "run" /\ exitBegun' = TRUE
  /\ crashed' = "normal_exit" /\ Goto(Main, "notify")
  /\ UNCHANGED <<how, waiting, thread_handle, skip_recs, report, abortHandler, ended>>

Join ==
  /\ at[Main] = "join" /\ at[Reporter] = "done" /\ Goto(Main, "after")
  /\ UNCHANGED <<crashed, how, waiting, thread_handle, skip_recs, report, abortHandler, exitBegun, ended>>

\* The process ends after the other destructors.
Exit ==
  /\ at[Main] = "after" /\ ended' = "exit"
  /\ UNCHANGED <<crashed, at, how, waiting, thread_handle, skip_recs, report, abortHandler, exitBegun>>

\* What the threads do once started; crashes and the exit come from outside.
ThreadStep(p) ==
  \/ Wait(p) \/ Notify(p) \/ MarkCrashed(p) \/ Return(p)
  \/ p = Reporter /\ (ReporterDecides \/ PrintStacktrace \/ ReporterFinishes)
  \/ p = Main /\ (Join \/ Exit)

Running == ended = "no"
ReporterStep ==
  /\ Running
  /\ \/ \E p \in Everyone : ThreadStep(p) \/ CrashHandler(p) \/ AbortUnhandled(p)
     \/ WakeUp \/ BeginExit
-----------------------------------------------------------------------------
(* Properties *)

Crashers == {p \in Everyone : how[p] # "none"}

(***************************************************************************)
(* However many threads crash, a process that ends after the crash handler *)
(* has printed its report first, made from the frames to skip and the      *)
(* handle that crashed threads stored (one thread's, if only one crashed), *)
(* unless the program was ending anyway: the destructor overwrites the     *)
(* status.                                                                 *)
(***************************************************************************)
CrashReportedFirst ==
  ended = "abort" /\ ~ exitBegun =>
    Len(report) = 2 /\ \A k \in DOMAIN report : report[k] \in Crashers

\* The crashes after which threads wait for an answer that does not come: of
\* two threads, as the second takes back the status the first one waits for;
\* of the reporter; by std::terminate, as abort() enters the handler again
\* after the reporter has ended; in a destructor after ~SignalHandling.
Unanswered ==
  \/ Cardinality(Crashers) > 1 \/ how[Reporter] # "none"
  \/ \E p \in Threads : how[p] = "terminate"
  \/ exitBegun /\ how[Main] # "none"

(***************************************************************************)
(* After a crash, or once the program ends, the process ends: no wake-up   *)
(* is lost.  Only the crashes of Unanswered may leave it waiting.          *)
(***************************************************************************)
ProcessEnds == (Crashers # {} \/ exitBegun) ~> (~ Running \/ Unanswered)
==============================================================================
