----------------------------- MODULE MCBackward -----------------------------
(***************************************************************************)
(* Small processes for Backward: stacks of up to seven frames with the     *)
(* fault at different depths, debug information with nested inlining and   *)
(* declarations, object files that were replaced, deleted or stripped,     *)
(* short source files with blank lines.                                    *)
(***************************************************************************)
EXTENDS Backward, TLC

\* SIGIOT is another name of SIGABRT.
SomeSignals == <<"ABRT", "SEGV", "ABRT">>

\* The frames: "u" unwinder, "h" handler, "p" the fault, "q", "m" its callers.
Stacks == {<<"u", "h", "p", "q", "p", "m">>, <<"u", "h", "h", "h", "p", "m">>,
           <<"u", "h", "h", "h", "h", "h", "p">>, <<"u", "p">>, <<"u", "h", "p", "q", "m", "m", "m">>}

Die(tag, kids, pcs, decl) == [tag |-> tag, kids |-> kids, pcs |-> pcs, declaration |-> decl]

\* A unit with a function f in a namespace, f containing inlined i1 in i2 and
\* i3, and a second unit with function g; d is a declaration.
Dies(last) ==
  ("cu1" :> Die("unit", <<"ns", "g0">> \o last, {}, FALSE))
    @@ ("ns" :> Die("namespace", <<"f", "d0">>, {}, FALSE))
    @@ ("f" :> Die("subprogram", <<"i3", "i2">>, {"p", "q"}, FALSE))
    @@ ("i2" :> Die("inlined", <<"i1">>, {"p"}, FALSE)) @@ ("i1" :> Die("inlined", <<>>, {"p"}, FALSE))
    @@ ("i3" :> Die("inlined", <<>>, {"q"}, FALSE)) @@ ("g0" :> Die("subprogram", <<>>, {}, FALSE))
    @@ ("d0" :> Die("variable", <<>>, {}, FALSE)) @@ ("d" :> Die("subprogram", <<>>, {}, TRUE))
    @@ ("cu2" :> Die("unit", <<"g">>, {}, FALSE)) @@ ("g" :> Die("subprogram", <<>>, {"m"}, FALSE))

World(stack, fault, overflow, session, last, ranges, lines, line) ==
  [library |-> "dw", objects |-> Nothing,
   stack |-> stack, pc |-> fault, overflow |-> overflow, session |-> session,
   dies |-> Dies(last), units |-> <<"cu2", "cu1">>, inModule |-> {"p", "q", "m"},
   ranges |-> [a \in {"p", "q", "m", "h"} |-> IF ranges /\ a # "h"
                                              THEN IF a = "m" THEN "cu2" ELSE "cu1" ELSE Nothing],
   line |-> [a \in {"p", "q", "m", "h"} |-> IF a = "m" THEN 0 ELSE line],
   callLine |-> [d \in {"i1", "i2", "i3"} |-> IF d = "i2" THEN line + 1 ELSE line],
   opens |-> <<FALSE, line # 5>>, lines |-> lines]

SomeLines == <<"blank", "text", "text", "blank", "text", "blank", "blank", "text", "blank">>

Details(function, line, site) == [found |-> TRUE, function |-> function, line |-> line, site |-> site]

\* An image loaded at base: "p" is in its third section, "q" in the second,
\* "m" is in a library; dladdr does not know "h".  The first section is for
\* debugging only and overlaps them.
Image(inode, vma, object, syms, count, known) ==
  [inode |-> inode, object |-> object, has_syms |-> syms, count |-> count,
   sections |-> <<[alloc |-> FALSE, vma |-> vma, size |-> 9], [alloc |-> TRUE, vma |-> vma, size |-> 2],
                  [alloc |-> TRUE, vma |-> vma + 2, size |-> 3]>>,
   nearest |-> [symtab |-> IF known THEN (vma + 3 :> Details("f", 3 + inode, "i1")) ELSE <<>>,
                dynamic |-> (vma + 1 :> Details("g", 4, Nothing)) @@ (vma + 3 :> Details("f", 0, Nothing))],
   outer |-> ("i1" :> "i2") @@ ("i2" :> Nothing)]

\* The program started as "prog", found at "bin/prog": still there, replaced
\* by another file, or deleted.
Objects(base, relocated, disk, object, syms, count, known) ==
  LET vma == IF relocated THEN 4 ELSE base + 4
      At(fname, v) == [fname |-> fname, base |-> base, addr |-> base + 4 + v, vma |-> vma + v]
      image == Image(1, vma, object, syms, count, known)
      lib == ("lib" :> Image(3, vma, TRUE, TRUE, [dynamic |-> 1], FALSE))
  IN  [argv0 |-> "prog", exec_path |-> "bin/prog",
       where |-> ("p" :> At("prog", 3)) @@ ("q" :> At("prog", 1)) @@ ("m" :> At("lib", 1)),
       files |-> (SelfExe :> image) @@ lib
                   @@ (CASE disk = "same" -> ("bin/prog" :> image)
                         [] disk = "replaced" -> ("bin/prog" :> Image(2, vma, TRUE, TRUE, count, TRUE))
                         [] OTHER -> <<>>)]

Full == [symtab |-> 2, dynamic |-> 1]
Tables == {Full, [dynamic |-> 2], [symtab |-> 0], <<>>}

BfdWorld(fault, objects) ==
  [World(<<"u", "h", "p", "q", "m">>, fault, FALSE, "ok", <<>>, TRUE, SomeLines, 3)
     EXCEPT !.library = "bfd", !.objects = objects]

BfdWorlds ==
  {BfdWorld("p", Objects(20, relocated, disk, TRUE, TRUE, Full, TRUE)) :
     relocated \in BOOLEAN, disk \in {"same", "replaced", "deleted"}}
  \cup {BfdWorld("p", Objects(20, TRUE, "same", k # 0, k # 1, count, k # 2)) :
          k \in {0, 1, 2}, count \in Tables}

AllWorlds ==
  BfdWorlds \cup
  {World(s, f, FALSE, "ok", <<>>, TRUE, SomeLines, 3) : s \in Stacks, f \in {"p", Nothing}}
  \cup {World(<<"u", "h", "p", "q">>, "p", o, ses, last, r, SomeLines, 2) :
          o \in BOOLEAN, ses \in {"ok", "no handle", "no modules"}, last \in {<<>>, <<"d">>}, r \in BOOLEAN}
  \cup {World(<<"u", "p">>, "p", FALSE, "ok", <<>>, FALSE, ls, n) :
          ls \in {SomeLines, <<"text", "text">>, <<"blank">>}, n \in 1 .. 10}
=============================================================================
