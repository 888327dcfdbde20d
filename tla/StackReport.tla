----------------------------- MODULE StackReport -----------------------------
(***************************************************************************)
(* The crash reports of llvm-normalizer on Linux                           *)
(* (llvm-normalizer/lib/backward/backward.hpp): SignalHandling installs a  *)
(* handler for the fatal signals; the handler unwinds the stack, drops its *)
(* own frames, resolves each address in the debug information, prints it   *)
(* with the lines of source around it, and raises the signal again.        *)
(*                                                                         *)
(* Everything outside the process is `world': the frames of the stack, the *)
(* faulting address, the library the build resolves addresses with, what   *)
(* libdw finds, the tree of debug entries (DIEs) and which addresses each  *)
(* covers, the object files libbfd reads, and one source file.             *)
(***************************************************************************)
EXTENDS Integers, Sequences, FiniteSets, SequencesExt, BfdResolver

CONSTANTS
  Depth,         \* frames a report shows (32)
  Extra,         \* frames loaded on top of them for the handler's own (8)
  Wrap,          \* size of unsigned (2^32)
  SignalList,    \* the fatal signals, in the order they are installed
  InlinerContext, TraceContext,   \* lines of source per inliner (5), frame (7)
  Worlds

VARIABLES
  world,
  phase,       \* "install", "running", "unwind", "select", "print", "raise", "ended"
  step,        \* how much of the installation is done
  altstack,    \* there is an alternate stack
  installed,   \* signals with our handler; a delivery resets the handler
  loaded,      \* every step of the installation succeeded so far
  sig,         \* the signal being handled
  seen,        \* frames the unwinder has visited; _index is one less
  trace,       \* _stacktrace
  skip,        \* frames at its head not shown
  left,        \* frames still to print
  dwfl,        \* "fresh", "ready" or "none": the libdw session
  headers,     \* headers printed
  frames,      \* frames printed after them
  faulted,     \* the handler itself met a signal
  status       \* how the process ended

rvars == <<world, phase, step, altstack, installed, loaded, sig, seen, trace,
           skip, left, dwfl, headers, frames, faulted, status>>
handling == <<seen, trace, skip, left, dwfl, headers, frames>>
setup == <<world, step, altstack, loaded>>

FatalSignals == ToSet(SignalList)
HandlerPhases == {"unwind", "select", "print", "raise"}

ASSUME SignalsAssumption == SignalList \in Seq(STRING) /\ "exit" \notin FatalSignals
ASSUME DepthAssumption == Depth \in Nat /\ Extra \in Nat
\* The unwinder's own frame is on the stack; the lines of a file and of a
\* snippet can be counted.
ASSUME WorldsAssumption ==
  \A w \in Worlds : w.stack \in Seq(STRING) \ {<<>>} /\ w.lines \in Seq(STRING)
ASSUME ContextAssumption ==
  /\ Wrap \in Nat
  /\ \A context \in {InlinerContext, TraceContext} :
       context \in Nat \ {0} /\ \A w \in Worlds : Len(w.lines) + context < Wrap
-----------------------------------------------------------------------------
(* Installing the handlers *)

ReportInit ==
  /\ world \in Worlds
  /\ phase = "install" /\ step = 0 /\ altstack = FALSE /\ installed = {} /\ loaded = TRUE
  /\ sig = Nothing /\ seen = 0 /\ trace = <<>> /\ skip = 0 /\ left = 0
  /\ dwfl = "fresh" /\ headers = 0 /\ frames = <<>> /\ faulted = FALSE /\ status = Nothing

\* Faulty variant: a signal that could not be taken is not noticed.
SucceededAnyway(done) == loaded

\* success of the constructor, after a call that was done or failed.
Succeeded(done) == loaded /\ done

\* SignalHandling::SignalHandling: the stack, then one signal after another;
\* a call that fails is remembered and the rest still done.
Install ==
  /\ phase = "install"
  /\ \E done \in BOOLEAN :
       \/ /\ step = 0 /\ altstack' = done
          /\ loaded' = Succeeded(done) /\ UNCHANGED installed
       \/ /\ step \in DOMAIN SignalList /\ UNCHANGED altstack
          /\ installed' = IF done THEN installed \cup {SignalList[step]} ELSE installed
          /\ loaded' = Succeeded(done)
  /\ step' = step + 1
  /\ phase' = IF step = Len(SignalList) THEN "running" ELSE phase
  /\ UNCHANGED <<world, sig, handling, faulted, status>>
-----------------------------------------------------------------------------
(* Signals *)

\* Faulty variant: the handler stays in place while it runs (no SA_RESETHAND).
HandlersDuringKeep(s) == installed

\* The handlers left while signal s is handled (SA_RESETHAND).
HandlersDuring(s) == installed \ {s}

EndedBy(s) == phase' = "ended" /\ status' = s

\* sig_handler is entered, with a trace and a printer of its own.
Handle(s) ==
  /\ phase' = "unwind" /\ sig' = s /\ installed' = HandlersDuring(s)
  /\ seen' = 0 /\ trace' = <<>> /\ skip' = 0 /\ left' = 0 /\ dwfl' = "fresh"
  /\ UNCHANGED <<headers, frames, status>>

\* A fatal signal reaches the program.  Without handler it ends it, and so
\* does a stack overflow with no other stack to run the handler on.
Deliver(s) ==
  /\ phase \in {"running", "raise"} /\ (phase = "raise" => s = sig)
  /\ \/ /\ s \notin installed \/ (world.overflow /\ ~ altstack)
        /\ EndedBy(s) /\ UNCHANGED <<installed, sig, handling>>
     \/ s \in installed /\ (world.overflow => altstack) /\ Handle(s)
  /\ UNCHANGED <<setup, faulted>>

\* A fault inside the handler: the same signal has no handler any more, the
\* others are blocked, and a blocked fault ends the process; but abort()
\* unblocks its signal, so that a handler still there runs on top.
FaultInHandler(s) ==
  /\ phase \in HandlerPhases /\ faulted' = TRUE
  /\ \/ s = "ABRT" /\ s \in installed /\ Handle(s)
     \/ /\ s # "ABRT" \/ s \notin installed
        /\ EndedBy(s) /\ UNCHANGED <<installed, sig, handling>>
  /\ UNCHANGED setup

\* The program returns from main.
ReturnFromMain ==
  /\ phase = "running" /\ EndedBy("exit")
  /\ UNCHANGED <<setup, installed, sig, handling, faulted>>
-----------------------------------------------------------------------------
(* StackTrace *)

\* Frames asked for: load_from looks for the faulting address behind the
\* handler's frames, load_here is used when that address is not known.
Limit == IF world.pc # Nothing THEN Depth + Extra ELSE Depth

\* Unwinder::backtrace on one frame: the first, its own caller, is ignored,
\* and Limit frames are stored.
UnwindFrame ==
  /\ phase = "unwind" /\ seen < Len(world.stack) /\ seen - 1 < Limit
  /\ trace' = IF seen = 0 THEN trace ELSE Append(trace, world.stack[seen + 1])
  /\ seen' = seen + 1
  /\ UNCHANGED <<setup, phase, installed, sig, skip, left, dwfl, headers, frames, faulted, status>>

\* End of the stack, or enough frames.
UnwindEnd ==
  /\ phase = "unwind" /\ (seen = Len(world.stack) \/ seen - 1 >= Limit)
  /\ phase' = "select"
  /\ UNCHANGED <<setup, installed, sig, handling, faulted, status>>

\* Faulty variant: the last frame with the address is taken.
SkippedLast(t) ==
  LET found == {i \in DOMAIN t : t[i] = world.pc}
  IN  IF found = {} THEN 0 ELSE (CHOOSE i \in found : \A j \in found : j <= i) - 1

\* skip_n_firsts in load_from: up to the first frame at the fault.
Skipped(t) ==
  LET found == {i \in DOMAIN t : t[i] = world.pc}
  IN  IF found = {} THEN 0 ELSE (CHOOSE i \in found : \A j \in found : i <= j) - 1

Shorter(m, n) == IF m < n THEN m ELSE n

\* StackTraceImplHolder::size: the frames behind the first n.
SizeAfter(t, n) == IF Len(t) >= n THEN Len(t) - n ELSE 0

\* load_from cuts the stored frames; then the header is printed.
SelectFrames ==
  /\ phase = "select" /\ phase' = "print"
  /\ skip' = Skipped(trace)
  /\ trace' = SubSeq(trace, 1, Shorter(Len(trace), skip' + Depth))
  /\ left' = SizeAfter(trace', skip')
  /\ headers' = headers + 1
  /\ UNCHANGED <<setup, installed, sig, seen, dwfl, frames, faulted, status>>
-----------------------------------------------------------------------------
(* TraceResolver (libdw) *)

\* die_has_pc: one range or several.
die_has_pc(d, pc) == pc \in world.dies[d].pcs

Kids(d) == world.dies[d].kids
Declaration(d) == world.dies[d].declaration

\* find_fundie_by_pc: whether some function below d, not inside a
\* declaration, covers the address.
find_fundie_by_pc(d, pc) ==
  LET found[e \in DOMAIN world.dies] ==
        \E k \in ToSet(Kids(e)) :
          \/ world.dies[k].tag \in {"subprogram", "inlined"} /\ die_has_pc(k, pc)
          \/ ~ Declaration(k) /\ found[k]
  IN  found[d]

\* branch_has_pc of the search below d, after its i-th child: what the child
\* before it left, at a declaration.
BranchHasPc(d, n, pc) ==
  LET has[e \in DOMAIN world.dies, i \in Nat] ==
        /\ i > 0
        /\ LET k == Kids(e)[i]
           IN  \/ die_has_pc(k, pc)
               \/ IF Declaration(k) THEN has[e, i - 1] ELSE has[k, Len(Kids(k))]
  IN  has[d, n]

\* Faulty variant: an entry is reported before the entries below it.
searchOuterFirst(d, pc) ==
  LET cb[e \in DOMAIN world.dies, i \in Nat] ==
        IF i = 0 THEN <<>>
        ELSE LET k == Kids(e)[i]
             IN  cb[e, i - 1] \o (IF BranchHasPc(e, i, pc) THEN <<k>> ELSE <<>>)
                   \o (IF Declaration(k) THEN <<>> ELSE cb[k, Len(Kids(k))])
  IN  cb[d, Len(Kids(d))]

\* deep_first_search_by_pc: the entries its callback gets, in order.
deep_first_search_by_pc(d, pc) ==
  LET cb[e \in DOMAIN world.dies, i \in Nat] ==
        IF i = 0 THEN <<>>
        ELSE LET k == Kids(e)[i]
             IN  cb[e, i - 1] \o (IF Declaration(k) THEN <<>> ELSE cb[k, Len(Kids(k))])
                   \o (IF BranchHasPc(e, i, pc) THEN <<k>> ELSE <<>>)
  IN  cb[d, Len(Kids(d))]

Tagged(t, s) == SelectSeq(s, LAMBDA d : world.dies[d].tag = t)

\* inliners_search_cb: the last function names the source, inlined functions
\* are collected with the line of their call.  Without function the name is
\* that of the symbol, left out here.
ResolvedIn(cu, pc) ==
  LET found == deep_first_search_by_pc(cu, pc)
      functions == Tagged("subprogram", found)
  IN  [Unresolved(pc) EXCEPT !.unit = cu, !.line = world.line[pc],
         !.function = IF functions = <<>> THEN Nothing ELSE Last(functions),
         !.inliners = Tagged("inlined", found)]

\* The compilation unit of an address: the table of ranges, or else the first
\* unit with a function that covers it.
UnitOf(pc) ==
  LET units == {k \in DOMAIN world.units : find_fundie_by_pc(world.units[k], pc)}
  IN  IF pc \notin world.inModule THEN Nothing
      ELSE IF world.ranges[pc] # Nothing THEN world.ranges[pc]
      ELSE IF units = {} THEN Nothing
      ELSE world.units[CHOOSE k \in units : \A j \in units : k <= j]

\* The libdw session after its first use, and what resolve gives: without
\* session, or while it starts without the list of modules, the bare address.
SessionAfter == CASE dwfl # "fresh" \/ world.library # "dw" -> dwfl
                  [] world.session = "no handle" -> "none"
                  [] OTHER -> "ready"
resolve(pc) ==
  IF SessionAfter = "none" \/ world.session = "no modules" \/ UnitOf(pc) = Nothing
  THEN Unresolved(pc) ELSE ResolvedIn(UnitOf(pc), pc)

\* TraceResolver is the resolver of the library the build found.
TraceResolver(pc) ==
  IF world.library = "dw" THEN resolve(pc) ELSE bfd_resolve(world.objects, pc)
-----------------------------------------------------------------------------
(* Source lines *)

\* SourceFile::SourceFile: the prefixes and then the path itself are tried;
\* a file that does not open has no lines.
FileLines == IF \E k \in DOMAIN world.opens : world.opens[k] THEN world.lines ELSE <<>>
HasText(n) == FileLines[n] = "text"

\* SourceFile::get_lines: lines of white space before the first line of text
\* are left out; those at the end too, if the file reaches that far.
get_lines(start, count) ==
  LET end == (start + count) % Wrap
      window == {n \in DOMAIN FileLines : start <= n /\ n < end}
      texts == {n \in window : HasText(n)}
      inside == end - 1 <= Len(FileLines)
  IN  {n \in window : /\ \E m \in texts : m <= n
                      /\ inside => \E m \in texts : n <= m}

\* Faulty variant: half of the lines are read.
get_snippetHalf(line, context) ==
  get_lines((line + Wrap - context \div 2) % Wrap, context \div 2)

\* SnippetFactory::get_snippet: unsigned, so the window of a line close to
\* the top of the file starts beyond its end.
get_snippet(line, context) ==
  get_lines((line + Wrap - context \div 2) % Wrap, context)

Snippet(line, context) == [line |-> line, context |-> context, shown |-> get_snippet(line, context)]

\* Printer::print_trace: inliners from the outermost, then the frame itself.
Snippets(f) ==
  [k \in DOMAIN f.inliners |->
     Snippet(world.callLine[Reverse(f.inliners)[k]], InlinerContext)]
  \o (IF f.line = 0 THEN <<>> ELSE <<Snippet(f.line, TraceContext)>>)

\* Printer::print_stacktrace, one frame, the most recent one last.
PrintFrame ==
  /\ phase = "print" /\ left > 0 /\ left' = left - 1
  /\ \E f \in {TraceResolver(trace[skip + left])} :
       frames' = Append(frames, [f EXCEPT !.snippets = Snippets(f)])
  /\ dwfl' = SessionAfter
  /\ UNCHANGED <<setup, phase, installed, sig, seen, trace, skip, headers, faulted, status>>

\* sig_handler after the report: the signal is raised again.
PrintEnd ==
  /\ phase = "print" /\ left = 0 /\ phase' = "raise"
  /\ UNCHANGED <<setup, installed, sig, handling, faulted, status>>

HandlerStep ==
  \/ UnwindFrame \/ UnwindEnd \/ SelectFrames \/ PrintFrame \/ PrintEnd
  \/ phase = "raise" /\ Deliver(sig)

ReportStep ==
  \/ Install \/ HandlerStep \/ ReturnFromMain
  \/ \E s \in FatalSignals : FaultInHandler(s) \/ (phase = "running" /\ Deliver(s))
-----------------------------------------------------------------------------
(* Properties *)

(***************************************************************************)
(* When loaded() is true, a fatal signal that ends the process has been    *)
(* reported first, in full and once, a stack overflow included, unless the *)
(* handler itself failed.                                                  *)
(***************************************************************************)
ReportedWhenLoaded ==
  phase = "ended" /\ status \in FatalSignals /\ loaded /\ ~ faulted =>
    headers = 1 /\ Len(frames) = Len(trace) - skip

\* Of the first n frames, those from the fault on (or all), as far as they are shown.
FramesFrom(real, pc, n) ==
  LET found == {i \in 1 .. n : real[i] = pc}
      first == IF found = {} THEN 1 ELSE CHOOSE i \in found : \A j \in found : i <= j
  IN  SubSeq(real, first, Shorter(n, first + Depth - 1))

(***************************************************************************)
(* The report shows consecutive frames, the last one at the fault: the     *)
(* handler's own frames are skipped if the fault is among those loaded,    *)
(* and at most Depth frames are shown.                                     *)
(***************************************************************************)
TraceStartsAtFault ==
  phase \in {"print", "raise"} =>
    SubSeq(trace, skip + 1, Len(trace))
      = FramesFrom(Tail(world.stack), world.pc, Shorter(Len(world.stack) - 1, Limit))

Below(d) ==
  LET below[e \in DOMAIN world.dies] ==
        {e} \cup UNION {below[k] : k \in ToSet(Kids(e))}
  IN  below[d]

InliningShown(f) ==
  LET covering == {d \in Below(f.unit) : die_has_pc(d, f.addr)}
      around == {d \in covering : world.dies[d].tag = "subprogram"}
  IN  /\ ToSet(f.inliners) = {d \in covering : world.dies[d].tag = "inlined"}
      /\ \A i, j \in DOMAIN f.inliners : i < j => f.inliners[i] \in Below(f.inliners[j]) \ {f.inliners[j]}
      /\ (\A d \in Below(f.unit) : ~ Declaration(d)) /\ around # {} =>
           f.function \in around

\* A frame of the running program whose image has symbols for it: vma is the
\* place of the address in that image.
KnownInImage(f) ==
  LET o == world.objects
      image == o.files[SelfExe]
  IN  /\ world.library = "bfd" /\ f.addr \in DOMAIN o.where
      /\ o.where[f.addr].fname = o.argv0 /\ load_object_with_bfd(o, SelfExe)
      /\ \E k \in DOMAIN image.sections :
           image.sections[k].alloc /\ Inside(image.sections[k], o.where[f.addr].vma)
      /\ "symtab" \in DOMAIN image.count /\ o.where[f.addr].vma \in DOMAIN image.nearest.symtab

FoundInImage(f) ==
  LET o == world.objects
      image == o.files[SelfExe]
      truth == image.nearest.symtab[o.where[f.addr].vma]
  IN  f.object = image.inode /\ f.line = truth.line /\ f.function = truth.function

(***************************************************************************)
(* With libdw, a resolved frame lists exactly the inlined functions of its *)
(* unit that cover the address, each inside the next one of the list, and  *)
(* names the function around them, unless a declaration follows that       *)
(* function: the search then takes the declaration for it.  With libbfd, a *)
(* frame of the program is resolved in the image that runs, also when the  *)
(* file was replaced or deleted since, at the place the address has there. *)
(***************************************************************************)
SourceResolved ==
  \A f \in ToSet(frames) :
    (f.unit # Nothing => InliningShown(f)) /\ (KnownInImage(f) => FoundInImage(f))

ShowsLine(s) ==
  LET half == s.context \div 2
  IN  /\ s.line \in DOMAIN FileLines /\ HasText(s.line) /\ s.line >= half => s.line \in s.shown
      /\ \A n \in s.shown : n <= s.line + half /\ s.line <= n + half

(***************************************************************************)
(* A snippet shows the line it is about whenever that line has text and    *)
(* half of the context fits above it, and only lines of the file within    *)
(* half of the context.                                                    *)
(***************************************************************************)
SnippetShowsLine ==
  \A s \in UNION {ToSet(f.snippets) : f \in ToSet(frames)} : ShowsLine(s)

(***************************************************************************)
(* Once the handler runs the process ends, and by a fatal signal: raising  *)
(* the signal again does not come back into the handler.                   *)
(***************************************************************************)
EndsBySignal ==
  phase \in HandlerPhases ~> (phase = "ended" /\ status \in FatalSignals)
==============================================================================
