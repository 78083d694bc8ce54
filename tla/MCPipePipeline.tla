---------------------------- MODULE MCPipePipeline -----------------------------
(* An instance of PipePipeline for TLC: two expressions with different values, *)
(* each with an operator of two children, in either order.  (FilePipeline's    *)
(* instance looks at more expressions.)                                        *)
EXTENDS PipePipeline

Term(o, n) == [op |-> o, num |-> n]

TwoExpressions == {<<Number(2), Term("-", 1), Term("<", 2)>>,
                   <<Number(2), Term("&&", 1), Term("-", 1)>>}

(* The memory holds no number or something that begins with q. *)
StackLines == {<<Number(7)>>, Quit}
================================================================================
