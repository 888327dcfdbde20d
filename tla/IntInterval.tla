----------------------------- MODULE IntInterval -----------------------------
(***************************************************************************)
(* Intervals of integers: src/lib/int_interval.ml.  A bound is an infinity,*)
(* a machine integer, whose arithmetic wraps around, or an integer of any  *)
(* size (EInt; BInt bounds, which the code treats alike, are never made).  *)
(***************************************************************************)
EXTENDS Integers, Sequences

CONSTANT MaxInt   \* Int64.max_value

ASSUME MaxIntAssumption == MaxInt \in Nat \ {0}

MinInt == -MaxInt - 1

Fits(n) == MinInt <= n /\ n <= MaxInt

\* What is left of n in a machine integer.
Wrap(n) == IF Fits(n) THEN n ELSE ((n - MinInt) % (2 * (MaxInt + 1))) + MinInt

PInf == [kind |-> "PInf", val |-> 0]
NInf == [kind |-> "NInf", val |-> 0]
Int64(n) == [kind |-> "Int64", val |-> Wrap(n)]
EInt(n) == [kind |-> "EInt", val |-> n]

\* The code raises an exception.
Undefined == [kind |-> "Undefined", val |-> 0]

IsFinite(b) == b.kind \in {"Int64", "EInt"}

Bottom == [kind |-> "Bottom"]

Bounds ==
  {PInf, NInf} \union [kind : {"Int64"}, val : {n \in Int : Fits(n)}]
               \union [kind : {"EInt"}, val : Int]

\* Ranges as mk_range makes them.
Ranges ==
  {r \in [kind : {"Range"}, lb : Bounds, li : BOOLEAN, ub : Bounds, ui : BOOLEAN] :
     (r.lb.kind = "Int64" => r.li) /\ (r.ub.kind = "Int64" => r.ui)}

Intervals == Ranges \union {Bottom}

\* mk_range makes the bounds inclusive, those that are machine integers.
mk_range(lb, li, ub, ui) ==
  [kind |-> "Range",
   lb |-> IF lb.kind = "Int64" /\ ~li THEN Int64(lb.val + 1) ELSE lb,
   li |-> li \/ lb.kind = "Int64",
   ub |-> IF ub.kind = "Int64" /\ ~ui THEN Int64(ub.val - 1) ELSE ub,
   ui |-> ui \/ ub.kind = "Int64"]

interval_of_bound(b) == mk_range(b, TRUE, b, TRUE)

\* The integers of w bits, m being the largest of them.
compute_int_max_interval(m) == mk_range(EInt(-m - 1), TRUE, EInt(m), TRUE)

------------------------------------------------------------------------------
(* Comparison *)

lequal_bound(a, b) ==
  a = NInf \/ b = PInf \/ (IsFinite(a) /\ IsFinite(b) /\ a.val <= b.val)

less_bound(a, b) == ~lequal_bound(b, a)

\* Faulty variant: the upper ends are compared the wrong way round.
LequalSwapped(a, b) ==
  /\ lequal_bound(b.lb, a.lb) /\ lequal_bound(b.ub, a.ub)
  /\ a.li = b.li /\ a.ui = b.ui

lequal_range(a, b) ==
  /\ lequal_bound(b.lb, a.lb) /\ lequal_bound(a.ub, b.ub)
  /\ a.li = b.li /\ a.ui = b.ui

lequal_interval(a, b) == a = Bottom \/ (b # Bottom /\ lequal_range(a, b))

------------------------------------------------------------------------------
(* Arithmetic on bounds *)

\* The result of two finite operands: a machine integer if both are.
Result(a, b, n) == IF a.kind = "Int64" /\ b.kind = "Int64" THEN Int64(n) ELSE EInt(n)

Inf(positive) == IF positive THEN PInf ELSE NInf

add_bound(a, b) ==
  IF {a, b} = {PInf, NInf} THEN Undefined
  ELSE IF PInf \in {a, b} THEN PInf
  ELSE IF NInf \in {a, b} THEN NInf
  ELSE Result(a, b, a.val + b.val)

neg_bound(b) ==
  IF b = PInf THEN NInf ELSE IF b = NInf THEN PInf ELSE Result(b, b, -b.val)

sub_bound(a, b) == add_bound(a, neg_bound(b))

mult_bound(a, b) ==
  IF {a, b} = {PInf, NInf} THEN Undefined
  ELSE IF ~IsFinite(a) /\ ~IsFinite(b) THEN PInf
  ELSE IF IsFinite(a) /\ IsFinite(b) THEN Result(a, b, a.val * b.val)
  ELSE LET n   == IF IsFinite(a) THEN a.val ELSE b.val
           inf == IF IsFinite(a) THEN b ELSE a
       IN  IF n = 0 THEN Undefined ELSE Inf((n > 0) = (inf = PInf))

Abs(n) == IF n < 0 THEN -n ELSE n

\* Division that drops the fraction, of OCaml, C and LLVM.
Quotient(x, y) == IF (x < 0) = (y < 0) THEN Abs(x) \div Abs(y) ELSE -(Abs(x) \div Abs(y))

udiv_bound(a, b) ==
  IF NInf \in {a, b} \/ (a = PInf /\ b = PInf) THEN Undefined
  ELSE IF a = PInf THEN PInf
  ELSE IF b = PInf THEN Int64(0)
  ELSE IF b.val = 0 THEN Undefined
  ELSE Result(a, b, Quotient(a.val, b.val))

sdiv_bound(a, b) ==
  IF (IsFinite(b) /\ b.val = 0) \/ ~(IsFinite(a) \/ IsFinite(b)) THEN Undefined
  ELSE IF ~IsFinite(b) THEN Int64(0)
  ELSE IF ~IsFinite(a) THEN Inf((b.val > 0) = (a = PInf))
  ELSE Result(a, b, Quotient(a.val, b.val))

------------------------------------------------------------------------------
(* Arithmetic on ranges *)

\* The smaller and the larger of two bounds with their flags, and the flag when the bounds
\* are equal.
Lower(b1, i1, b2, i2, tie) ==
  IF less_bound(b1, b2) THEN <<b1, i1>>
  ELSE IF less_bound(b2, b1) THEN <<b2, i2>> ELSE <<b1, tie>>

Upper(b1, i1, b2, i2, tie) ==
  IF less_bound(b2, b1) THEN <<b1, i1>>
  ELSE IF less_bound(b1, b2) THEN <<b2, i2>> ELSE <<b1, tie>>

Between(l, u) == mk_range(l[1], l[2], u[1], u[2])

\* When both ranges end at the same bound, the union is open there if one of them is.
union_range(a, b) ==
  Between(Lower(a.lb, a.li, b.lb, b.li, a.li /\ b.li),
          Upper(a.ub, a.ui, b.ub, b.ui, a.ui /\ b.ui))

widen_range(a, b) ==
  Between(IF lequal_bound(a.lb, b.lb) THEN <<a.lb, a.li>> ELSE <<NInf, FALSE>>,
          IF lequal_bound(b.ub, a.ub) THEN <<a.ub, a.ui>> ELSE <<PInf, FALSE>>)

add_range(a, b) ==
  mk_range(add_bound(a.lb, b.lb), a.li /\ b.li, add_bound(a.ub, b.ub), a.ui /\ b.ui)

\* Faulty variant: lower from lower and upper from upper.
SubParallel(a, b) ==
  mk_range(sub_bound(a.lb, b.lb), a.li /\ b.li, sub_bound(a.ub, b.ub), a.ui /\ b.ui)

sub_range(a, b) ==
  mk_range(sub_bound(a.lb, b.ub), a.li /\ b.ui, sub_bound(a.ub, b.lb), a.ui /\ b.li)

udiv_range(a, b) ==
  mk_range(udiv_bound(a.lb, b.ub), TRUE, udiv_bound(a.ub, b.ub), TRUE)

\* The products of the four pairs of bounds, the last one first.
mult_range(a, b) ==
  LET p4 == <<mult_bound(a.ub, b.ub), a.ui /\ b.ui>>
      p3 == <<mult_bound(a.ub, b.lb), a.ui /\ b.li>>
      p2 == <<mult_bound(a.lb, b.ub), a.li /\ b.ui>>
      p1 == <<mult_bound(a.lb, b.lb), a.li /\ b.li>>
      low(p, q) == Lower(p[1], p[2], q[1], q[2], p[2] \/ q[2])
      up(p, q)  == Upper(p[1], p[2], q[1], q[2], p[2] \/ q[2])
  IN  IF Undefined \in {p1[1], p2[1], p3[1], p4[1]}
      THEN mk_range(Undefined, TRUE, Undefined, TRUE)
      ELSE Between(low(p4, low(p3, low(p2, p1))), up(p4, up(p3, up(p2, p1))))

\* The ends of a range as closed bounds.
ClosedLb(a) == IF a.li THEN a.lb ELSE add_bound(a.lb, Int64(1))
ClosedUb(a) == IF a.ui THEN a.ub ELSE add_bound(a.ub, Int64(-1))

\* The divisors at which a quotient is extreme: the ends of the range and 1 and -1 in it.
Divisors(b) ==
  LET is_zero(d) == IsFinite(d) /\ d.val = 0
      is_inside(d) == lequal_bound(ClosedLb(b), d) /\ lequal_bound(d, ClosedUb(b))
      list(d, taken) == IF taken THEN <<d>> ELSE <<>>
  IN  list(ClosedLb(b), ~is_zero(ClosedLb(b))) \o list(ClosedUb(b), ~is_zero(ClosedUb(b)))
        \o list(Int64(1), is_inside(Int64(1))) \o list(Int64(-1), is_inside(Int64(-1)))

\* The last of the least elements of a sequence of bounds, in the order below.
LastLeast(bounds, below(_, _)) ==
  bounds[CHOOSE i \in DOMAIN bounds :
           \A j \in DOMAIN bounds :
             below(bounds[i], bounds[j]) \/ (j <= i /\ ~below(bounds[j], bounds[i]))]

sdiv_range(a, b) ==
  LET ds == Divisors(b)
      quotients == [i \in 1 .. 2 * Len(ds) |->
        sdiv_bound(IF i % 2 = 1 THEN ClosedLb(a) ELSE ClosedUb(a), ds[(i + 1) \div 2])]
      more_bound(p, q) == less_bound(q, p)
  IN  IF ds = <<>> THEN mk_range(PInf, FALSE, NInf, FALSE)
      ELSE IF \E i \in DOMAIN quotients : quotients[i] = Undefined
           THEN mk_range(Undefined, TRUE, Undefined, TRUE)
      ELSE mk_range(LastLeast(quotients, less_bound), TRUE,
                    LastLeast(quotients, more_bound), TRUE)

------------------------------------------------------------------------------
(* Intervals *)

combine_interval(widen, a, b) ==
  IF a = Bottom THEN b ELSE IF b = Bottom THEN a
  ELSE IF widen THEN widen_range(a, b) ELSE union_range(a, b)

\* Lift an operation on ranges.
OnRanges(op(_, _), a, b) == IF Bottom \in {a, b} THEN Bottom ELSE op(a, b)

add_interval(a, b)  == OnRanges(add_range, a, b)
sub_interval(a, b)  == OnRanges(sub_range, a, b)
mult_interval(a, b) == OnRanges(mult_range, a, b)
udiv_interval(a, b) == OnRanges(udiv_range, a, b)

sdiv_interval(a, b) ==
  LET q == OnRanges(sdiv_range, a, b)
  IN  IF q # Bottom /\ q.lb = PInf /\ q.ub = NInf THEN Bottom ELSE q

intersect_interval(a, b) ==
  IF Bottom \in {a, b} THEN Bottom
  ELSE LET l == Upper(a.lb, a.li, b.lb, b.li, a.li /\ b.li)
           u == Lower(a.ub, a.ui, b.ub, b.ui, a.ui /\ b.ui)
       IN  IF less_bound(u[1], l[1]) THEN Bottom ELSE Between(l, u)

\* An operation on the bounds of the interval raised an exception.
IsUndefined(a) == a # Bottom /\ Undefined \in {a.lb, a.ub}

\* Comparison of the upper end with integer n: at least n.
UpperAtLeast(a, n) ==
  /\ a # Bottom
  /\ a.ub = PInf \/ (IsFinite(a.ub) /\ (IF a.ui THEN a.ub.val ELSE a.ub.val - 1) >= n)

------------------------------------------------------------------------------
\* The integers that an interval stands for.
Covers(a, x) ==
  /\ a # Bottom
  /\ a.lb = NInf \/ (IsFinite(a.lb) /\ (a.lb.val < x \/ (a.li /\ a.lb.val = x)))
  /\ a.ub = PInf \/ (IsFinite(a.ub) /\ (x < a.ub.val \/ (a.ui /\ a.ub.val = x)))
==============================================================================
