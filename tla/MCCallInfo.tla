------------------------------ MODULE MCCallInfo ------------------------------
(***************************************************************************)
(* Instance of CallInfo for TLC: three functions with up to three calls    *)
(* each, direct, through a pointer or of a library function, one global    *)
(* each, and an init function or none.                                     *)
(***************************************************************************)
EXTENDS CallInfo, TLC

CONSTANTS f, g, h, lib, x, y, z, s, t

MCFunc == {f, g, h}
MCGlobal == {x, y, z}

Call(a, b, gs) == [op |-> "call", func |-> a, callee |-> b, globals |-> gs]
CallPtr(a) == [op |-> "callptr", func |-> a, sig |-> s, globals |-> {}]
Take(a, b) == [op |-> "take", func |-> a, callee |-> b, globals |-> {}]
Use(a, gs) == [op |-> "other", func |-> a, globals |-> gs]

Bodies(a, b, c, gs) ==
  {<<Use(a, gs)>>, <<Call(a, b, gs)>>, <<Use(a, gs), CallPtr(a)>>,
   <<Call(a, b, gs), Call(a, c, {})>>, <<Call(a, a, gs), Call(a, lib, {})>>,
   <<CallPtr(a), Call(a, b, gs)>>, <<Call(a, c, gs), CallPtr(a)>>,
   <<Take(a, c), Call(a, b, gs)>>, <<Call(a, b, gs), CallPtr(a), Call(a, c, {})>>}

MCPrograms ==
  {[instrs |-> bf \o bg \o bh, sig |-> f :> t @@ g :> s @@ h :> s @@ lib :> t, init |-> init] :
     bf \in Bodies(f, g, h, {x}), bg \in Bodies(g, h, f, {y}), bh \in Bodies(h, f, g, {z}),
     init \in {{}, {h}}}
===============================================================================
