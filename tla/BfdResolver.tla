----------------------------- MODULE BfdResolver -----------------------------
(***************************************************************************)
(* The resolver of backward.hpp for libbfd: the object file an address     *)
(* comes from is opened and its symbol tables are searched.                *)
(*                                                                         *)
(* `o' is what the process meets: argv0 and exec_path (the target of       *)
(* /proc/self/exe), where[pc] (what dladdr says of an address), and        *)
(* files[path], a file by the path it is opened with: its inode, whether   *)
(* it is an object with symbols, how many symbols each of its tables has,  *)
(* its sections, the nearest line each table gives for an address of the   *)
(* object, and the call sites an inlined line goes through.                *)
(***************************************************************************)
EXTENDS Integers, Sequences

Nothing == "nothing"
SelfExe == "/proc/self/exe"

\* A ResolvedTrace that knows its address only.
Unresolved(pc) ==
  [addr |-> pc, unit |-> Nothing, object |-> Nothing, function |-> Nothing,
   line |-> 0, inliners |-> <<>>, snippets |-> <<>>]

\* resolve_exec_path: the file to show and the file to open.
resolve_exec_path(o, fname) ==
  IF fname = o.argv0 THEN [show |-> o.exec_path, open |-> SelfExe]
  ELSE [show |-> fname, open |-> fname]

\* load_object_with_bfd: whether the file gives a handle.  A table without
\* storage is not in count.
load_object_with_bfd(o, path) ==
  /\ path \in DOMAIN o.files
  /\ LET f == o.files[path]
     IN  f.object /\ f.has_syms /\ \E t \in DOMAIN f.count : f.count[t] > 0

Inside(section, a) == section.vma <= a /\ a < section.vma + section.size

\* The find_sym_result that found nothing.
NotFound == [found |-> FALSE, function |-> Nothing, line |-> 0, site |-> Nothing]

\* find_in_section: a loaded section that holds the address, as it is or
\* taken from the base of the object; the symbol table, then the dynamic one.
find_in_section(f, section, addr, base) ==
  LET a == IF Inside(section, addr) THEN addr ELSE addr - base
      Knows(t) == t \in DOMAIN f.count /\ a \in DOMAIN f.nearest[t]
  IN  IF ~ section.alloc \/ ~ Inside(section, a) THEN NotFound
      ELSE IF Knows("symtab") THEN f.nearest.symtab[a]
      ELSE IF Knows("dynamic") THEN f.nearest.dynamic[a] ELSE NotFound

\* find_symbol_details: the first section with an answer.
find_symbol_details(f, addr, base) ==
  LET answers == [k \in DOMAIN f.sections |-> find_in_section(f, f.sections[k], addr, base)]
  IN  Head(Append(SelectSeq(answers, LAMBDA a : a.found), NotFound))

\* backtrace_inliners: from call site to call site, the innermost first.
backtrace_inliners(f, first) ==
  LET results[site \in DOMAIN f.outer \cup {Nothing}] ==
        IF site = Nothing THEN <<>> ELSE <<site>> \o results[f.outer[site]]
  IN  results[first]

SameFile(o, p, q) ==
  p \in DOMAIN o.files /\ q \in DOMAIN o.files /\ o.files[p].inode = o.files[q].inode

\* The path whose object is read: the shown one while it is still the file to
\* open and can be read, else the file to open.
ReadPath(o, paths) ==
  IF SameFile(o, paths.show, paths.open) /\ load_object_with_bfd(o, paths.show)
  THEN paths.show ELSE paths.open

\* resolve, in a build that unwinds with _Unwind_Backtrace: the address is
\* already that of the call.
bfd_resolve(o, pc) ==
  IF pc \notin DOMAIN o.where \/ o.where[pc].fname = Nothing THEN Unresolved(pc)
  ELSE LET path == ReadPath(o, resolve_exec_path(o, o.where[pc].fname))
           details == find_symbol_details(o.files[path], o.where[pc].addr, o.where[pc].base)
       IN  IF ~ load_object_with_bfd(o, path) THEN Unresolved(pc)
           ELSE [Unresolved(pc) EXCEPT !.object = o.files[path].inode,
                   !.function = details.function, !.line = details.line,
                   !.inliners = backtrace_inliners(o.files[path], details.site)]
==============================================================================
