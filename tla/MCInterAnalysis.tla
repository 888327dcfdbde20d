--------------------------- MODULE MCInterAnalysis ---------------------------
(***************************************************************************)
(* Instance of InterAnalysis for TLC: a main function, a function f that   *)
(* branches into a base case and a case that may call, or calls in a loop, *)
(* and a function g.  The calls vary: nested, repeated, shared, directly   *)
(* and mutually recursive; f always has a way to return without a          *)
(* recursive call.  Each program comes a second time with calls that pass  *)
(* the same input whatever the data (the blocks with One in their names).  *)
(***************************************************************************)
EXTENDS InterAnalysis, TLC

CONSTANTS main, f, g, m, fEntry, fBase, fRec, gBody, mOne, fRecOne, gBodyOne, x, y

MCFunc == {main, f, g}
MCBlock == {m, fEntry, fBase, fRec, gBody, mOne, fRecOne, gBodyOne}
MCSize == (m :> 4) @@ (fEntry :> 1) @@ (fBase :> 1) @@ (fRec :> 2) @@ (gBody :> 3)
            @@ (mOne :> 4) @@ (fRecOne :> 2) @@ (gBodyOne :> 3)

\* The blocks with calls of a program, and all its blocks.
Calling(one) ==
  IF one THEN [m |-> mOne, fRec |-> fRecOne, gBody |-> gBodyOne]
         ELSE [m |-> m, fRec |-> fRec, gBody |-> gBody]
MCBlocks(one) ==
  (main :> {Calling(one).m}) @@ (f :> {fEntry, fBase, Calling(one).fRec}) @@ (g :> {Calling(one).gBody})
MCData == {{}, {x}, {y}, {x, y}}
MCLeq(c, d) == c \subseteq d
MCJoin(S) == UNION S

\* The base case of f generates x; its other case derives y from x.
MCTransfer(b, i, d) ==
  CASE b = fBase -> d \union {x}
    [] b \in {fRec, fRecOne} /\ i = 2 /\ x \in d -> d \union {y}
    [] OTHER -> d

\* The core input of a callee is about x only; what the callee adds is added to the
\* input of the call.  The first call in g passes nothing and takes the result as it is.
MCCalleeInput(l, d) ==
  IF l \in {<<gBody, 1>>} \union {mOne, fRecOne, gBodyOne} \X Nat THEN {} ELSE d \intersect {x}
\* x is local to g.
MCCleanData(fn, d) == IF fn = g THEN d \ {x} ELSE d
MCCallOutput(l, d, s) == IF l \in {<<gBody, 1>>, <<gBodyOne, 1>>} THEN s ELSE d \union s

\* Every call passes all it has.
MCAllInput(l, d) == d

\* Three shapes of f: the two cases return separately; the case that calls goes on to
\* the base case; it does so after repeating itself.  The base case may end in an
\* unreachable instruction.
MCEdges(shape, rec) ==
  CASE shape = "apart" -> {<<fEntry, fBase>>, <<fEntry, rec>>}
    [] shape = "joined" -> {<<fEntry, fBase>>, <<fEntry, rec>>, <<rec, fBase>>}
    [] shape = "loop" -> {<<fEntry, rec>>, <<rec, rec>>, <<rec, fBase>>}
MCShapes == {"apart", "joined", "loop"}
MCBody(fn, shape, unr, one) ==
  LET edges == IF fn = f THEN MCEdges(shape, Calling(one).fRec) ELSE {}
  IN  [entry |-> (main :> Calling(one).m @@ f :> fEntry @@ g :> Calling(one).gBody)[fn],
       succ |-> [b \in MCBlock |-> {c \in MCBlock : <<b, c>> \in edges}],
       pred |-> [b \in MCBlock |-> {c \in MCBlock : <<c, b>> \in edges}],
       ret |-> {b \in MCBlocks(one)[fn] : \A c \in MCBlock : <<b, c>> \notin edges}
                \ (IF fn = f THEN unr ELSE {}),
       unreachable |-> IF fn = f THEN unr ELSE {}]
MCBodies == {MCBody(fn, shape, unr, one) :
               fn \in MCFunc, shape \in MCShapes, unr \in {{}, {fBase}}, one \in BOOLEAN}

\* The calls: three in main, one in f, two in g.
MCCall(c, one) ==
  LET b == Calling(one)
  IN  [l \in Loc |-> CASE l = <<b.m, 1>> -> c[1] [] l = <<b.m, 2>> -> c[2]
                       [] l = <<b.m, 3>> -> c[6]
                       [] l = <<b.fRec, 1>> -> c[3]
                       [] l = <<b.gBody, 1>> -> c[4] [] l = <<b.gBody, 2>> -> c[5]
                       [] OTHER -> None]

MCProgram(shape, unr, c, one) ==
  [blocks |-> MCBlocks(one), body |-> [fn \in MCFunc |-> MCBody(fn, shape, unr, one)],
   call |-> MCCall(c, one)]

\* The base case of f returns, unless nothing recurses; nothing recurses from a loop.
MCPlain(one) ==
  {MCProgram(shape, {}, c, one) : shape \in {"apart", "joined"},
     c \in {f, g} \X {None, f, g} \X {None, f, g} \X {None, f} \X {None, f} \X {None, g}}
  \union
  {MCProgram(shape, {fBase}, c, one) : shape \in {"apart", "joined"},
     c \in {f} \X {None, f, g} \X {None, g} \X {None} \X {None} \X {None}}
  \union
  {MCProgram("loop", {}, c, one) :
     c \in {f, g} \X {None, f, g} \X {None, g} \X {None} \X {None} \X {None}}

MCKeys == MCFunc \X MCData

\* What a function returns in a solution.
MCReturned(p, k, s) == UNION {s.out[LastLoc(b)] : b \in p.body[k[1]].ret}

\* One round of the interprocedural equations, and the least table, by iteration from
\* no facts.  The ASSUME below checks that the iteration has come to its end.
MCRound(p, t) ==
  [summary |-> [k \in MCKeys |->
                      MCCleanData(k[1], MCReturned(p, k, t.solution[k]))],
       solution |-> [k \in MCKeys |->
         [in |-> [b \in MCBlock |->
                    (UNION {t.solution[k].out[LastLoc(q)] : q \in p.body[k[1]].pred[b]})
                    \union IF b = p.body[k[1]].entry THEN k[2] ELSE {}],
          out |-> [l \in Loc |->
                    IF l[1] \in p.blocks[k[1]]
                    THEN CallAwareTransfer(p, t, l, Before(t.solution[k], l[1], l[2])) ELSE {}]]]]

MCLeast(p) ==
  LET it[n \in 0 .. 24] ==
        IF n = 0
        THEN [summary |-> [k \in MCKeys |-> {}],
              solution |-> [k \in MCKeys |->
                [in |-> [b \in MCBlock |-> {}], out |-> [l \in Loc |-> {}]]]]
        ELSE MCRound(p, it[n - 1])
      last == it[24]
  IN  [last EXCEPT !.solution =
         [k \in MCKeys |-> @[k] @@ [ret |-> MCReturned(p, k, @[k])]]]

\* Each program carries its least table, so that it is computed once.
MCPrograms == {p @@ [least |-> MCLeast(p)] : p \in MCPlain(FALSE) \union MCPlain(TRUE)}
\* f calls g in a loop, and nothing recurses.
MCLoop == {p \in MCPrograms : /\ p.body[f].succ[fRec] = {fRec, fBase}
                              /\ p.call[<<fRec, 1>>] = g /\ p.call[<<gBody, 2>>] = None}
MCTables(p) == {p.least}

MCRefine(p, b, d) == d
MCSat(p, b, d) == TRUE
MCNoSolutions(gr, d) == {}

ASSUME LeastTables == \A p \in MCPrograms : IsTable(p, p.least)
=============================================================================
