------------------------------ MODULE RangePath ------------------------------
(***************************************************************************)
(* The range analysis along a path: analyze_instr, merge_data and          *)
(* refine_data_by_predicate of src/dataflow/range.ml next to a run of the  *)
(* analysed program, and the verdicts that src/dataflow/dfbug.ml and       *)
(* src/dataflow/dfassertion.ml draw from the intervals.                    *)
(*                                                                         *)
(* The program has integer variables of one width.  A step analyses one    *)
(* instruction, and the run executes it if it is on this side of the last  *)
(* branch.  A result that does not fit its width ends the run, as an       *)
(* overflow of signed integers does in C.                                  *)
(***************************************************************************)
EXTENDS IntInterval

CONSTANTS
  Var,       \* the parameters of the function
  Cell,      \* expressions for memory, of which nothing is known at first
  MaxVal,    \* largest integer of the program's type
  Const,     \* literals in the program
  MaxSteps,  \* bound: instructions on the path
  None

Expr == Var \union Cell

InWidth(n) == -MaxVal - 1 <= n /\ n <= MaxVal

\* The type has at most the width of the machine integers.
ASSUME RangeAssumption ==
  /\ MaxVal \in Nat /\ MaxVal <= MaxInt /\ MaxSteps \in Nat
  /\ Const \subseteq Int /\ \A c \in Const : InWidth(c)
  /\ Var \intersect Cell = {}
  /\ None \notin Intervals /\ None \notin [Expr -> Intervals \union {None}]

VARIABLES
  data,     \* the abstract data, None for an expression without an entry
  other,    \* the data of the other side of a branch, or None
  val,      \* the values in the run
  here,     \* whether the run took the side being analysed
  claimed,  \* whether all steps so far are ones whose result the code's intervals cover
  failed,   \* the analysis raised an exception
  steps

vars == <<data, other, val, here, claimed, failed, steps>>

------------------------------------------------------------------------------
(* Data *)

\* get_interval
get_interval(d, e) == IF d[e] = None THEN compute_int_max_interval(MaxVal) ELSE d[e]

merge_data(d1, d2) ==
  [e \in Expr |-> IF d1[e] = None THEN d2[e] ELSE IF d2[e] = None THEN d1[e]
                  ELSE combine_interval(FALSE, d1[e], d2[e])]

Cmps == {"Eq", "Ne", "Gt", "Ge", "Lt", "Le"}

negate_icmp(cmp) ==
  CASE cmp = "Eq" -> "Ne" [] cmp = "Ne" -> "Eq" [] cmp = "Gt" -> "Le"
    [] cmp = "Le" -> "Gt" [] cmp = "Ge" -> "Lt" [] cmp = "Lt" -> "Ge"

\* The comparison with its sides exchanged.
Mirror(cmp) ==
  CASE cmp = "Gt" -> "Lt" [] cmp = "Lt" -> "Gt" [] cmp = "Ge" -> "Le" [] cmp = "Le" -> "Ge"
    [] OTHER -> cmp

Compare(cmp, x, y) ==
  CASE cmp = "Eq" -> x = y [] cmp = "Ne" -> x # y [] cmp = "Gt" -> x > y
    [] cmp = "Ge" -> x >= y [] cmp = "Lt" -> x < y [] cmp = "Le" -> x <= y

\* What extract_data_from_predicate says of an expression that is compared with bound b.
FromConst(cmp, b) ==
  CASE cmp = "Eq" -> interval_of_bound(b)
    [] cmp \in {"Gt", "Ge"} -> mk_range(b, cmp = "Ge", PInf, FALSE)
    [] cmp \in {"Lt", "Le"} -> mk_range(NInf, FALSE, b, cmp = "Le")
    [] cmp = "Ne" -> None

\* And of one that is compared with an expression whose interval is a.  The block inputs
\* are computed without widening: the far end of a is taken.
FromInterval(cmp, a) ==
  IF cmp = "Ne" THEN None ELSE IF cmp = "Eq" \/ a = Bottom THEN a
  ELSE FromConst(cmp, IF cmp \in {"Gt", "Ge"} THEN a.ub ELSE a.lb)

\* refine_data_by_predicate: p is a function from some expressions to intervals.  An
\* expression without an entry gets none.
Refine(d, p) ==
  [e \in Expr |-> IF d[e] = None \/ e \notin DOMAIN p \/ p[e] = None THEN d[e]
                  ELSE intersect_interval(d[e], p[e])]

ConstPredicate(e, cmp, c) == [f \in {e} |-> FromConst(cmp, Int64(c))]

VarPredicate(e, cmp, f) ==
  [g \in {e, f} |-> IF g = e THEN FromInterval(cmp, get_interval(data, f))
                    ELSE FromInterval(Mirror(cmp), get_interval(data, e))]

------------------------------------------------------------------------------
(* Instructions *)

\* The run has not ended, and the intervals still promise something about it.
Running ==
  /\ claimed /\ ~failed
  /\ steps < MaxSteps
  /\ \A e \in Expr : InWidth(val[e])

\* replace_interval, or the exception of the computation of itv.
Record(e, itv) ==
  IF IsUndefined(itv) THEN failed' = TRUE /\ UNCHANGED data
  ELSE data' = [data EXCEPT ![e] = itv] /\ UNCHANGED failed

\* The instruction gives e the value n in the run, if this is the side it took.
Execute(e, n) == val' = IF here THEN [val EXCEPT ![e] = n] ELSE val

Tick == steps' = steps + 1

\* Arithmetic on the bounds that are machine integers stays in their range.
NoWrap(op(_, _), a, b) ==
  \A p \in {a.lb, a.ub}, q \in {b.lb, b.ub} :
    p.kind = "Int64" /\ q.kind = "Int64" => Fits(op(p.val, q.val))

BoundsFit(op(_, _), a, b) == Bottom \in {a, b} \/ NoWrap(op, a, b)

\* So does the negation of the bounds.
NegationFits(a) == a = Bottom \/ \A p \in {a.lb, a.ub} : p.kind = "Int64" => Fits(-p.val)

\* No finite end is open: products of open ends miss the zero.
ClosedEnds(a) == a = Bottom \/ ((IsFinite(a.lb) => a.li) /\ (IsFinite(a.ub) => a.ui))

\* Ends at the same integer are both open or both closed: union_range opens the end if one is.
SameFlag(b1, i1, b2, i2) ==
  IsFinite(b1) /\ lequal_bound(b1, b2) /\ lequal_bound(b2, b1) => i1 = i2

EndsAgree(a, b) ==
  Bottom \in {a, b} \/ (SameFlag(a.lb, a.li, b.lb, b.li) /\ SameFlag(a.ub, a.ui, b.ub, b.ui))

Plus(x, y) == x + y
Minus(x, y) == x - y
Times(x, y) == x * y
\* Division by zero, where the run ends, is left out.
Over(x, y) == IF y = 0 THEN 0 ELSE Quotient(x, y)

\* The result of an instruction, and whether the intervals are made for it.
Compute(d, interval, n, covering) ==
  Record(d, interval) /\ Execute(d, n) /\ claimed' = covering

analyze_instr_binary ==
  /\ Running /\ Tick
  /\ \E d \in Var, e \in Var, f \in Var :
       LET a == get_interval(data, e)
           b == get_interval(data, f)
       IN  \/ Compute(d, add_interval(a, b), val[e] + val[f], BoundsFit(Plus, a, b))
           \/ Compute(d, sub_interval(a, b), val[e] - val[f],
                    NegationFits(b) /\ BoundsFit(Minus, a, b))
           \/ Compute(d, mult_interval(a, b), val[e] * val[f],
                    ClosedEnds(a) /\ ClosedEnds(b) /\ BoundsFit(Times, a, b))
           \/ /\ here => val[f] # 0
              /\ Compute(d, sdiv_interval(a, b), Over(val[e], val[f]), NegationFits(a))
  /\ UNCHANGED <<other, here>>

\* A range with one member.
IsPoint(a) == a # Bottom /\ IsFinite(a.lb) /\ IsFinite(a.ub) /\ a.lb.val = a.ub.val

\* The code divides by the upper end of the divisor only, and takes the operands for
\* signed.
analyze_instr_udiv ==
  /\ Running /\ Tick
  /\ \E d \in Var, e \in Var, f \in Var :
       LET a == get_interval(data, e)
           b == get_interval(data, f)
       IN  /\ here => val[f] > 0 /\ val[e] >= 0
           /\ Compute(d, udiv_interval(a, b), Over(val[e], val[f]),
                    IsPoint(b) /\ BoundsFit(Over, a, b))
  /\ UNCHANGED <<other, here>>

\* A literal, for the instructions that take one.
analyze_instr_const ==
  /\ Running /\ Tick
  /\ \E d \in Expr, c \in Const :
       Record(d, interval_of_bound(Int64(c))) /\ Execute(d, c)
  /\ UNCHANGED <<other, here, claimed>>

\* A load, a store, a return, and a zero-extension of a value that is not negative.
analyze_instr_copy ==
  /\ Running /\ Tick
  /\ \E d, e \in Expr :
       d # e /\ Record(d, get_interval(data, e)) /\ Execute(d, val[e])
  /\ UNCHANGED <<other, here, claimed>>

\* Zero-extension of a negative value: the interval is kept, the value is not.
analyze_instr_zext ==
  /\ Running /\ Tick
  /\ \E d, e \in Var :
       /\ here /\ val[e] < 0
       /\ Record(d, get_interval(data, e))
       /\ Execute(d, val[e] + 2 * (MaxVal + 1))
  /\ claimed' = FALSE
  /\ UNCHANGED <<other, here>>

\* A phi node: the run comes from either side.
analyze_instr_phi ==
  /\ Running /\ Tick
  /\ \E d, e, f \in Var, widen \in BOOLEAN, first \in BOOLEAN :
       LET a == get_interval(data, e)
           b == get_interval(data, f)
       IN  Compute(d, combine_interval(widen, a, b), IF first THEN val[e] ELSE val[f],
                 EndsAgree(a, b))
  /\ UNCHANGED <<other, here>>

\* A call of __assume_range, at which the run goes on only inside the range.  If an end is
\* no constant, the range is Bottom.
analyze_instr_assume ==
  /\ Running /\ Tick
  /\ \E e \in Var, l, u \in Const \union {None} :
       LET assumed == IF None \in {l, u} THEN Bottom ELSE mk_range(Int64(l), TRUE, Int64(u), TRUE)
       IN  /\ None \notin {l, u} /\ here => l <= val[e] /\ val[e] <= u
           /\ Record(e, intersect_interval(get_interval(data, e), assumed))
           /\ claimed' = (None \notin {l, u})
  /\ UNCHANGED <<other, val, here>>

------------------------------------------------------------------------------
(* Branches: compute_block_input of a block behind a conditional branch, visited for *)
(* the first time, and of the block where both sides meet.                           *)

\* The analysis goes on at the side where the predicate p, of truth value t, holds.
Branch(p, q, t) ==
  /\ other = None
  /\ data' = Refine(data, p)
  /\ other' = Refine(data, q)
  /\ here' = (here /\ t)
  /\ UNCHANGED <<val, failed>>

\* The value as an unsigned integer.
Unsigned(n) == IF n < 0 THEN n + 2 * (MaxVal + 1) ELSE n

branch_on_const ==
  /\ Running /\ Tick
  /\ \E e \in Var, cmp \in Cmps, c \in Const, signed \in BOOLEAN :
       /\ Branch(ConstPredicate(e, cmp, c), ConstPredicate(e, negate_icmp(cmp), c),
                 IF signed THEN Compare(cmp, val[e], c)
                 ELSE Compare(cmp, Unsigned(val[e]), Unsigned(c)))
       /\ claimed' = (signed \/ cmp \in {"Eq", "Ne"} \/ (val[e] >= 0 /\ c >= 0))

branch_on_var ==
  /\ Running /\ Tick
  /\ \E e, f \in Var, cmp \in Cmps :
       /\ e # f
       /\ Branch(VarPredicate(e, cmp, f), VarPredicate(e, negate_icmp(cmp), f),
                 Compare(cmp, val[e], val[f]))
       /\ claimed' = (IsPoint(get_interval(data, e)) /\ IsPoint(get_interval(data, f)))

\* The analysis turns to the other side.
OtherSide ==
  /\ Running /\ Tick
  /\ other # None
  /\ data' = other /\ other' = data
  /\ here' = ~here
  /\ UNCHANGED <<val, claimed, failed>>

\* The side of the run has no entry where the other one has.
EntryMissing ==
  \E e \in Expr : (IF here THEN data ELSE other)[e] = None /\ merge_data(data, other)[e] # None

Merge ==
  /\ Running /\ Tick
  /\ other # None
  /\ data' = merge_data(data, other)
  /\ other' = None
  /\ here' = TRUE
  /\ claimed' = (/\ ~EntryMissing
                 /\ \A e \in Expr : None \in {data[e], other[e]} \/ EndsAgree(data[e], other[e]))
  /\ UNCHANGED <<val, failed>>

------------------------------------------------------------------------------
Stop == ~Running /\ UNCHANGED vars

\* prepare_entry_func_input: the parameters may have any value of their type.
Init ==
  /\ data = [e \in Expr |-> IF e \in Var THEN compute_int_max_interval(MaxVal) ELSE None]
  /\ other = None
  /\ val \in [Expr -> (-MaxVal - 1) .. MaxVal]
  /\ here = TRUE
  /\ claimed = TRUE
  /\ failed = FALSE
  /\ steps = 0

Next ==
  \/ analyze_instr_binary
  \/ analyze_instr_udiv
  \/ analyze_instr_const
  \/ analyze_instr_copy
  \/ analyze_instr_zext
  \/ analyze_instr_phi
  \/ analyze_instr_assume
  \/ branch_on_const
  \/ branch_on_var
  \/ OtherSide
  \/ Merge
  \/ Stop

Spec == Init /\ [][Next]_vars

------------------------------------------------------------------------------
(* Verdicts: src/dataflow/dfbug.ml and src/dataflow/dfassertion.ml *)

\* Faulty variant: the lower end is compared.
OverflowByLowerEnd(a) == a # Bottom /\ less_bound(EInt(MaxVal), a.lb)

check_bug_integer_overflow(a) == a # Bottom /\ less_bound(EInt(MaxVal), a.ub)

\* The upper end decides about underflow too.
check_bug_integer_underflow(a) == a # Bottom /\ less_bound(a.ub, EInt(-MaxVal - 1))

\* An index into an array of n elements.
check_bug_buffer_overflow(a, n) == UpperAtLeast(a, n)

check_lower_bound(a, n) ==
  /\ a # Bottom
  /\ a.lb = PInf \/ (IsFinite(a.lb) /\ (IF a.li THEN a.lb.val ELSE a.lb.val + 1) >= n)

check_upper_bound(a, n) ==
  \/ a = Bottom
  \/ a.ub = NInf \/ (IsFinite(a.ub) /\ (IF a.ui THEN a.ub.val ELSE a.ub.val - 1) <= n)

------------------------------------------------------------------------------

\* The data for the side of the run.
Known == IF here THEN data ELSE other

\* Every value of the run is in its interval, through arithmetic, joins, widening and
\* branches, as long as every step was one the intervals are made for.
Sound == claimed /\ ~failed => \A e \in Expr : Covers(get_interval(Known, e), val[e])

\* The engine stops where lequal_data says that new data is below old data: an interval
\* that is below another covers no value that the other does not.
OrderSound ==
  claimed /\ ~failed => \A e, f \in Expr :
    lequal_interval(get_interval(Known, e), get_interval(Known, f)) =>
      Covers(get_interval(Known, f), val[e])

\* A result too large for its type is reported by check_bug_integer_overflow, an index
\* behind the end of an array by check_bug_buffer_overflow, whatever the path.
NoOverflowMissed ==
  claimed /\ ~failed => \A e \in Expr :
    LET a == get_interval(Known, e)
    IN  /\ val[e] > MaxVal => check_bug_integer_overflow(a)
        /\ \A n \in Const : val[e] >= n => check_bug_buffer_overflow(a, n)

==============================================================================
