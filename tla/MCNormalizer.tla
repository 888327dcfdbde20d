---------------------------- MODULE MCNormalizer ----------------------------
(***************************************************************************)
(* Small modules and functions for Normalizer: each module with a plain    *)
(* function, and each function with a plain module.                        *)
(***************************************************************************)
EXTENDS Normalizer

CONSTANT CommandLines   \* the names of the option sets to use

FreshNames == <<"n1", "n2", "n3", "n4", "n5", "n6", "n7", "n8", "n9", "n10">>

Call(f) == Instr("call", f, None, <<>>)
Ref(f) == Instr("ref", f, None, <<>>)
Do(op) == Instr(op, None, None, <<>>)

\* Initialisers of a and b: nested, shared between the two, shared within
\* one, with an alias, on a global without alignment.
Initialisers ==
  { [heap |-> ("A" :> <<"i1", "B", Null>>) @@ ("B" :> <<"f", "e1">>), a |-> "A", b |-> "e1", al |-> {"a", "b"}],
    [heap |-> ("A" :> <<"B", "e1">>) @@ ("B" :> <<"i1", "f">>), a |-> "A", b |-> "A", al |-> {"a", "b"}],
    [heap |-> ("A" :> <<"B", "B">>) @@ ("B" :> <<"i1", "f">>), a |-> "A", b |-> "f", al |-> {"a", "b"}],
    [heap |-> ("A" :> <<"al", "fp", "B">>) @@ ("B" :> <<"data", "i1">>), a |-> "A", b |-> "i1", al |-> {"a", "b"}],
    [heap |-> ("A" :> <<"f", "i1">>), a |-> "A", b |-> "e1", al |-> {"b"}],
    [heap |-> ("A" :> <<"i1">>), a |-> Null, b |-> None, al |-> {"a", "b"}] }

\* Tables of constructors: none, two of one priority, two out of order, one
\* entry without a function.
Constructors ==
  { [table |-> None, heap |-> <<>>],
    [table |-> "T", heap |-> ("T" :> <<"X", "Y">>) @@ ("X" :> <<"i1", "f", Null>>)
                               @@ ("Y" :> <<"i1", "h", Null>>)],
    [table |-> "T", heap |-> ("T" :> <<"X", "Y">>) @@ ("X" :> <<"i2", "h", Null>>)
                               @@ ("Y" :> <<"i1", "f", Null>>)],
    [table |-> "T", heap |-> ("T" :> <<"X">>) @@ ("X" :> <<"i1", Null, Null>>)] }

\* main calls the wrappers w and v; w calls v, v calls h; the address of v may
\* be taken; k is called by nobody but itself.
Bodies ==
  { ("main" :> m) @@ ("w" :> <<Call("v"), Do("bitcast"), Do("ret")>>)
      @@ ("v" :> v) @@ ("h" :> <<Do("other")>>) @@ ("f" :> <<>>)
      @@ ("k" :> <<Call("q"), Do("ret")>>) @@ ("q" :> <<Ref("b")>>)
      @@ ("__assert_w" :> <<Call("f"), Do("ret")>>) :
    m \in {<<Call("w"), Do("other"), Call("w")>>,
           <<Call("v"), Ref("v"), Call("w"), Call("__assert_w")>>},
    v \in {<<Call("h"), Do("ret")>>, <<Do("gep"), Do("ret")>>,
           <<Call("h"), Call("__assert_w"), Do("ret")>>, <<Do("other"), Do("ret")>>} }

ModuleInput(i, c, first, body, link, no) ==
  [ m |-> [globals |-> IF first THEN <<GlobalCtors, "a", "b", "c">> ELSE <<"a", "b", "c", GlobalCtors>>,
           funcs |-> <<"main", "__assert_w", "w", "v", "h", "k", "q", "f">>,
           init |-> (GlobalCtors :> c.table) @@ ("a" :> i.a) @@ ("b" :> i.b) @@ ("c" :> "a"),
           heap |-> i.heap @@ c.heap,
           body |-> (InitGlobals :> <<>>) @@ body,
           asm |-> IF first THEN <<"line", "checksum", "text", "line">> ELSE <<"checksum", "text">>],
    type |-> ("a" :> "aggregate") @@ ("c" :> "pointer")
               @@ ("b" :> IF i.b = "A" THEN "aggregate" ELSE IF i.b = "i1" THEN "int" ELSE "pointer")
               @@ (GlobalCtors :> "aggregate"),
    kind |-> [x \in {"i1", "i2"} |-> "int"] @@ [x \in {"e1"} |-> "expr"]
               @@ [x \in {"al"} |-> "alias"] @@ [x \in {"fp", "data"} |-> "data"]
               @@ [x \in {"f", "h", "a"} |-> "ref"]
               @@ [x \in {Null, "A", "B"} |-> "other"],
    intVal |-> ("i1" :> 1) @@ ("i2" :> 2), exprArg |-> ("e1" :> "h"), aligned |-> i.al,
    linkage |-> (InitGlobals :> "external") @@ ("w" :> link) @@ ("v" :> link) @@ ("q" :> link)
                  @@ ("__assert_w" :> "internal") @@ [x \in {"main", "h", "k", "f"} |-> "external"],
    single |-> {"w", "v", "q", "h", "k", "__assert_w"}, refused |-> no ]

PlainFunction ==
  [ params |-> {}, expr |-> <<>>, globals |-> {}, succ |-> <<<<>>>>,
    fn |-> [blocks |-> <<<<"r">>>>, foreign |-> <<>>,
            ins |-> ("r" :> [op |-> "ret", args |-> <<>>, from |-> <<>>, ty |-> ""])] ]

PlainInit == [heap |-> ("A" :> <<"i1">>), a |-> "A", b |-> None, al |-> {"a"}]
PlainBody == CHOOSE b \in Bodies : TRUE
NoCtors == [table |-> None, heap |-> <<>>]

ModuleInputs ==
  {ModuleInput(i, c, first, PlainBody, "linkonce", {}) :
     i \in Initialisers, c \in Constructors, first \in BOOLEAN}
  \cup {ModuleInput(PlainInit, NoCtors, TRUE, b, link, no) :
          b \in Bodies, link \in {"internal", "linkonce", "external"},
          no \in {{}, {<<"v", "main">>}}}
-----------------------------------------------------------------------------
I(op, args) == [op |-> op, args |-> args, from |-> <<>>, ty |-> ""]
Cast(op, v) == [op |-> op, args |-> <<v>>, from |-> <<>>, ty |-> "t"]
Phi(args, from) == [op |-> "phi", args |-> args, from |-> from, ty |-> ""]

Exprs == ("E" :> I("gep", <<"F", "1">>)) @@ ("F" :> Cast("bitcast", "glob"))

Fn(blocks, succ, ins, foreign) ==
  [ params |-> {"p", "q"}, expr |-> Exprs, globals |-> {"glob"}, succ |-> succ,
    fn |-> [blocks |-> blocks, ins |-> ins, foreign |-> foreign] ]

\* A slot with stores, loads and a call in every order, over two blocks.
SlotFunctions ==
  LET ins == ("u" :> I("alloca", <<>>)) @@ ("s1" :> I("store", <<"p", "u">>))
               @@ ("s2" :> I("store", <<"q", "u">>)) @@ ("l1" :> I("load", <<"u">>))
               @@ ("l2" :> I("load", <<"u">>)) @@ ("c1" :> I("call", <<"l1", "p">>))
               @@ ("c2" :> I("call", <<"l2">>)) @@ ("c3" :> I("call", <<"u">>))
               @@ ("br" :> I("br", <<"q">>)) @@ ("r" :> I("ret", <<>>))
  IN  {Fn(<<<<"u">> \o x \o <<"br">>, y \o <<"r">>>>, <<<<2>>, <<>>>>, ins, <<>>) :
         x \in {<<"s1", "l1", "c1">>, <<"s1">>, <<"l1", "s1", "c1">>, <<"s1", "s2">>, <<"s1", "c3">>},
         y \in {<<"l2", "c2">>, <<>>}}
      \cup {Fn(<<<<"u", "br">>, <<"l1", "c1", "r">>, <<"s1", "l2", "c2", "br2">>>>,
               <<<<3, 2>>, <<>>, <<2>>>>, ins @@ ("br2" :> I("br", <<"q">>)), <<>>)}

\* A diamond, also with a switch that enters the join twice, and a loop: phi
\* nodes, nested expressions and repeated casts and addresses.
GraphFunctions ==
  LET ins(phi) ==
        ("b1" :> I("br", <<"p">>)) @@ ("b2" :> I("br", <<>>)) @@ ("b3" :> I("br", <<>>))
          @@ ("x" :> phi) @@ ("y" :> phi) @@ ("c" :> I("call", <<"x", "y">>)) @@ ("r" :> I("ret", <<"x">>))
          @@ ("g1" :> I("gep", <<"p", "0">>)) @@ ("g2" :> I("gep", <<"p", "0">>))
          @@ ("g3" :> I("gep", <<"g2", "0">>)) @@ ("g4" :> I("gep", <<"p", "1">>))
          @@ ("g5" :> I("gep", <<"p", "0">>)) @@ ("k5" :> I("call", <<"g5">>))
          @@ ("k1" :> I("call", <<"g1">>)) @@ ("k2" :> I("call", <<"g3", "E">>))
          @@ ("k3" :> I("call", <<"g2", "g4">>))
          @@ ("z" :> Cast("zext", "q")) @@ ("z2" :> Cast("zext", "q")) @@ ("s" :> Cast("sext", "q"))
          @@ ("kz" :> I("call", <<"z", "z2">>)) @@ ("ks" :> I("call", <<"z", "s">>))
      join == <<"x", "y", "c", "r">>
      diamond == <<<<2, 3>>, <<4>>, <<4>>, <<>>>>
      p == Phi(<<"E", "F">>, <<2, 3>>)
  IN  {Fn(<<h \o <<"b1">>, l \o <<"b2">>, k \o <<"b3">>, join>>, diamond, ins(p), <<>>) :
         h \in {<<>>, <<"g1", "k1">>, <<"z", "z2", "kz">>, <<"z", "s", "ks">>},
         l \in {<<"g2", "g3", "k2">>, <<"g2", "g4", "k3">>},
         k \in {<<>>, <<"g5", "k5">>}}
      \cup {Fn(<<<<"b1">>, <<"b2">>, <<"x", "y", "c", "r">>>>, <<<<2, 3, 3>>, <<3>>, <<>>>>,
               ins(Phi(<<"E", "E", "q">>, <<1, 1, 2>>)), <<>>),
            Fn(<<<<"g1", "b2">>, <<"x", "g2", "k3", "b1">>, <<"r">>>>,
               <<<<2>>, <<2, 3>>, <<>>>>,
               [ins(Phi(<<"F", "g2">>, <<1, 2>>)) EXCEPT !["k3"] = I("call", <<"g2", "x">>)], <<>>)}

\* A landing pad with an expression as clause, and a cast of a constant that
\* another function casts too.
OtherFunctions ==
  { Fn(<<<<"i">>, <<"lp", "r">>>>, <<<<2>>, <<>>>>,
       ("i" :> I("invoke", <<"p">>)) @@ ("lp" :> I("landingpad", <<"F">>)) @@ ("r" :> I("ret", <<"lp">>)), <<>>),
    Fn(<<<<"z", "r">>>>, <<<<>>>>,
       ("z" :> Cast("bitcast", "0")) @@ ("r" :> I("ret", <<"z">>))
         @@ ("fz" :> Cast("bitcast", "0")) @@ ("fr" :> I("ret", <<"fz">>)), <<"fz", "fr">>) }

AllInputs ==
  {[input |-> i, origin |-> PlainFunction] : i \in ModuleInputs}
  \cup {[input |-> ModuleInput(PlainInit, NoCtors, TRUE, PlainBody, "external", {}), origin |-> f] :
          f \in SlotFunctions \cup GraphFunctions \cup OtherFunctions}

\* The command lines: the analyser's own (no option), each kind of checking,
\* passes chosen by hand, and single passes under opt.
Plain == [tool |-> "main", only |-> "all", disable |-> {}, enable |-> {}, manual |-> FALSE,
          verifyEach |-> FALSE, debugifyEach |-> FALSE, printEach |-> FALSE,
          readable |-> TRUE, output |-> TRUE]
OptionsOf(name) ==
  CASE name = "default" -> Plain
    [] name = "checked" -> [Plain EXCEPT !.verifyEach = TRUE, !.debugifyEach = TRUE, !.printEach = TRUE]
    [] name = "keepfuncs" -> [Plain EXCEPT !.disable = {"ElimUnusedFunction"}, !.output = FALSE]
    [] name = "manual" -> [Plain EXCEPT !.manual = TRUE,
                             !.enable = {"InitGlobal", "ElimUnusedGlobal", "UninlineInstruction"}]
    [] name = "unreadable" -> [Plain EXCEPT !.readable = FALSE]
    [] name = "print" -> [Plain EXCEPT !.only = "PrintIR", !.debugifyEach = TRUE]
    [] name = "verify" -> [Plain EXCEPT !.only = "verify"]
    [] name = "identical" -> [Plain EXCEPT !.tool = "opt", !.only = "ElimIdenticalInstrs"]
AllOptions == {OptionsOf(n) : n \in CommandLines}
=============================================================================
