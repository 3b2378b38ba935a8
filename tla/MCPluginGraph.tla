---------------------------- MODULE MCPluginGraph ----------------------------
(* Plugins of up to three steps.  An author names the steps in the order   *)
(* of the graph, which loses no graph without a way back; a page may save  *)
(* two steps with ways back and steps nothing leads to, two ways to one,   *)
(* or what is left after every step was removed and one was added.         *)
EXTENDS PluginGraph

Wired(name, kind, others) ==
  CASE kind \in {"compute", "call"} -> {Node(name, kind, name, FALSE, n, {}) : n \in others \cup {Nil}}
    [] kind \in {"ask", "wait"}     -> {Node(name, kind, Nil, kind = "ask", n, {}) : n \in others \cup {Nil}}
    [] kind = "route"               -> {Node(name, kind, name, FALSE, Nil, p) : p \in SUBSET others \ {{}}}
    [] OTHER                        -> {Node(name, kind, Nil, FALSE, Nil, {})}

Some(name, kinds, others) == UNION {Wired(name, kind, others) : kind \in kinds}

Drawn(s) == [starts |-> << "s1" >>, nodes |-> s]

Two(first, second) ==
  {Drawn(<< a, b >>) : a \in Some("s1", first, {"s2"}), b \in Some("s2", second, {})}

MCAuthored ==
  {m \in {Drawn(<< a >>) : a \in Some("s1", {"call", "each"}, {})} \cup
         Two({"compute", "ask"}, {"ask", "stop"}) \cup Two({"call", "wait"}, {"call"}) \cup Two({"route"}, {"stop"}) \cup
         {Drawn(<< a, b, c >>) : a \in Some("s1", {"route"}, {"s2", "s3"}),
                                 b \in Some("s2", {"call"}, {"s3"}),
                                 c \in Some("s3", {"stop"}, {})} :
     Validate(m, {"code", "skills", "schema"}, TRUE) = "Valid"}

MCPages ==
  {Drawn(<< a, b >>) : a \in Some("s1", {"route"}, {"s1", "s2"}),
                       b \in Some("s2", {"stop"}, {}) \cup {Node("s2", "compute", "s2", FALSE, n, {}) : n \in {"s1", "s2"}}}
  \cup {Drawn(<< Node("s1", "route", "s1", FALSE, Nil, {"s2", "s3"}), Node("s2", "compute", "s2", FALSE, "s3", {}), Node("s3", "stop", Nil, FALSE, Nil, {}) >>),
        [starts |-> << Nil >>, nodes |-> << Node("s1", "stop", Nil, FALSE, Nil, {}) >>]}

=============================================================================
