------------------------------ MODULE MCCheckers ------------------------------
(***************************************************************************)
(* Instances of Checkers for TLC: programs of one instruction.  The run is *)
(* in environment e1; its function was not analysed, or in e1, or in e1    *)
(* and in e2, of which the analyses may say anything.                      *)
(***************************************************************************)
EXTENDS Checkers

CONSTANTS i1, e1, e2

Values == {-3, 0, 1, 2}

\* Inside the type, open to above, too small, and with open ends.
SomeIntervals ==
  {mk_range(Int64(0), TRUE, Int64(1), TRUE), mk_range(EInt(0), TRUE, PInf, FALSE),
   mk_range(Int64(-3), TRUE, Int64(0), TRUE), mk_range(EInt(-2), FALSE, EInt(2), FALSE)}

Sizes == {mk_range(Int64(2), TRUE, Int64(2), TRUE), mk_range(Int64(2), TRUE, Int64(5), TRUE)}

Nothing == [e \in {} |-> None]

\* Facts of S in e1, alone or beside facts of T in e2.
InEnvs(S, T) ==
  {Nothing} \union [{e1} -> S] \union {[e \in {e1, e2} |-> IF e = e1 THEN x ELSE y] : x \in S, y \in T}

\* An instruction about which nothing is known.
Plain(op) ==
  [op |-> op, invoked |-> FALSE, range |-> Nothing, divisor |-> Nothing, size |-> Nothing,
   memtype |-> Nothing, alias |-> Nothing, run |-> e1, val |-> 0, by |-> 1, bytes |-> 2,
   region |-> "Stack", same |-> FALSE]

WithRange(op) ==
  {[Plain(op) EXCEPT !.range = r, !.val = n] :
     r \in InEnvs(SomeIntervals, {None, Bottom, mk_range(EInt(0), TRUE, PInf, FALSE)}), n \in Values}

\* A quotient of two variables with the same facts.
Divisions ==
  {[Plain("Div") EXCEPT !.range = r, !.divisor = r, !.val = n, !.by = n] :
     r \in [{e1} -> SomeIntervals], n \in Values}

ThroughPointer ==
  {[Plain("MemoryAccess") EXCEPT !.range = r, !.size = s, !.val = n, !.bytes = b] :
     r \in [{e1} -> SomeIntervals], s \in InEnvs(Sizes, {None}), n \in {0, 1, 2}, b \in {2, 4}}

Regions ==
  {[Plain("ArrayAccess") EXCEPT !.range = [e \in {e1} |-> mk_range(EInt(0), TRUE, PInf, FALSE)],
                                !.memtype = t, !.region = g] :
     t \in InEnvs({"Stack", "Heap", "Unknown"}, {None, "Stack", "Heap"}), g \in {"Stack", "Heap"}}

Aliasing(op) ==
  {[Plain(op) EXCEPT !.alias = a, !.same = b, !.invoked = b] :
     a \in InEnvs(SUBSET {"May", "Must"}, {None, {}, {"May"}}), b \in BOOLEAN}

Programs(fs) == {[i \in Instr |-> f] : f \in {f \in fs : Right(f)}}

MCPrograms ==
  Programs(UNION {WithRange(op) : op \in {"Add", "ArrayAccess"} \union RangeAsserts}
             \union UNION {Aliasing(op) : op \in AliasAsserts}
             \union Divisions \union ThroughPointer \union Regions
             \union {Plain("Ret"), [Plain("RangeLB") EXCEPT !.invoked = TRUE]})

IntegerPrograms == Programs(WithRange("Add") \union Divisions)
===============================================================================
