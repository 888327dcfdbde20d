--------------------------- MODULE MCSparseProgram ---------------------------
(***************************************************************************)
(* Instance of SparseProgram for TLC: a main function with three blocks    *)
(* that calls g, which may call f, and a global x.  What each function     *)
(* does with pointers varies, so that marks fall in any combination:       *)
(* whether g and f return pointers, what the local variables are used      *)
(* for, whether the call of g ends its block (an invoke) and whether       *)
(* functions are passed as arguments.                                      *)
(***************************************************************************)
EXTENDS SparseProgram, TLC

CONSTANTS main, g, f, m1, m2, m3, pad, g1, g2, g3, f1, x, y

MCFunc == {main, g, f}
MCBlock == {m1, m2, m3, pad, g1, g2, g3, f1}
MCInstr == 1 .. 15
MCGlobal == {x, y}

(***************************************************************************)
(* main: m1:  1 alloca   2 br m2 (m3)                                      *)
(*       m2:  3 call g   4 br m3 (an invoke: no 4, to m3 or pad)           *)
(*       m3:  5 useMain  6 ret           pad: 4 landingpad                 *)
(* g:    g1:  7 alloca   8 br g2                                           *)
(*       g2:  9 useG    10 br g3                                           *)
(*       g3: 11 callG   12 retG                                            *)
(* f:    f1: 13 derive  14 useF   15 retF                                  *)
(***************************************************************************)
Program(useMain, useG, callG, retG, useF, retF, invoke, branches, init) ==
  [entry |-> main :> m1 @@ g :> g1 @@ f :> f1,
   func |-> [b \in MCBlock |-> IF b \in {m1, m2, m3, pad} THEN main
                               ELSE IF b \in {g1, g2, g3} THEN g ELSE f],
   succ |-> m1 :> (IF branches THEN {m2, m3} ELSE {m2})
            @@ m2 :> (IF invoke THEN {m3, pad} ELSE {m3}) @@ m3 :> {} @@ pad :> {}
            @@ g1 :> {g2} @@ g2 :> {g3} @@ g3 :> {} @@ f1 :> {},
   block |-> <<m1, m1, m2, IF invoke THEN pad ELSE m2, m3, m3,
               g1, g1, g2, g2, g3, g3, f1, f1, f1>>,
   instrs |-> main :> <<1, 2, 3, 4, 5, 6>> @@ g :> <<7, 8, 9, 10, 11, 12>>
              @@ f :> <<13, 14, 15>>,
   op |-> <<"alloca", "branch", "call", IF invoke THEN "other" ELSE "branch", useMain, "ret",
            "alloca", "branch", useG, "branch", callG, retG, "derive", useF, retF>>,
   oprs |-> 1 :> {} @@ 2 :> {} @@ 3 :> {g} @@ 4 :> {} @@ 5 :> {1, 3} @@ 6 :> {}
            @@ 7 :> {} @@ 8 :> {} @@ 9 :> {7, x} @@ 10 :> {} @@ 11 :> {f} @@ 12 :> {11}
            @@ 13 :> {x} @@ 14 :> {13} @@ 15 :> {13} @@ x :> {} @@ y :> init,
   callee |-> [i \in MCInstr |-> IF i = 3 THEN g
                                 ELSE IF i = 11 /\ callG = "call" THEN f ELSE None],
   dst |-> [i \in MCInstr |-> CASE i = 5 -> 1 [] i = 9 -> x [] i = 14 -> 13 [] OTHER -> None],
   strings |-> {}]

Rets == {"ret", "retptr"}

MCPrograms ==
  {Program(useMain, useG, callG, retG, useF, retF, invoke, branches, init) :
     useMain \in {"store", "pointer", "other"}, useG \in {"store", "derive", "other"},
     callG \in {"call", "callptr", "other"}, retG \in Rets,
     useF \in {"store", "pointer", "other"}, retF \in Rets,
     invoke \in BOOLEAN, branches \in BOOLEAN, init \in {{}, {x}, {f}}}
==============================================================================
