----------------------------- MODULE UsedGlobals -----------------------------
(***************************************************************************)
(* update_globals_of_all_funcs: which globals a function and the functions *)
(* it calls use.  compute_func_used_globals of src/llvm/llutils.ml and     *)
(* compute_sparse_used_globals of src/dataflow/dataflow.ml run the same    *)
(* loop, from the globals of all instructions and from those of the sparse *)
(* ones.  The functions of a round are visited in any order.               *)
(***************************************************************************)
CONSTANTS
  Func,   \* prog_init_funcs and prog_user_funcs
  Global

VARIABLES
  calls,    \* callees of each function; one without a body uses no global
  direct,   \* the globals in the function's own instructions
  used,     \* tbl_used_globals
  todo,     \* the functions that this round has still to visit
  updated   \* whether this round changed anything

\* init_globals_of_all_funcs, and the first round of the loop.
Start == used' = direct /\ todo' = Func /\ updated' = FALSE

\* Faulty variant: what the callees use is taken from their own instructions.
DirectCalleeGlobals(f) == UNION {direct[c] : c \in calls[f]}

CalleeGlobals(f) == UNION {used[c] : c \in calls[f]}

\* The lists are sorted and without duplicates: one is longer when it has more members.
Changed(f) == updated \/ ~(CalleeGlobals(f) \subseteq used[f])

update_globals ==
  /\ \E f \in todo :
       /\ used' = [used EXCEPT ![f] = @ \union CalleeGlobals(f)]
       /\ updated' = Changed(f)
       /\ todo' = todo \ {f}
  /\ UNCHANGED <<calls, direct>>

\* The while loop.
NextRound ==
  /\ todo = {}
  /\ updated
  /\ todo' = Func
  /\ updated' = FALSE
  /\ UNCHANGED <<calls, direct, used>>

Finished == todo = {} /\ ~updated

------------------------------------------------------------------------------
TypeOK ==
  /\ calls \in [Func -> SUBSET Func]
  /\ direct \in [Func -> SUBSET Global]
  /\ used \in [Func -> SUBSET Global]
  /\ todo \subseteq Func
  /\ updated \in BOOLEAN

\* u accounts for what each function and its callees use.
Accounts(u) ==
  \A f \in Func : direct[f] \subseteq u[f] /\ \A c \in calls[f] : u[c] \subseteq u[f]

\* The loop ends with the least table that accounts for every call, cycles in the call
\* graph included: no global is missed, and none is added that no callee
\* mentions.
LeastTable ==
  /\ Finished => Accounts(used)
  /\ \A u \in [Func -> SUBSET Global] :
       Accounts(u) => \A f \in Func : used[f] \subseteq u[f]
==============================================================================
