---------------------------- MODULE MCFilePipeline -----------------------------
(* An instance of FilePipeline for TLC: expressions of up to Terms numbers,    *)
(* the first of which is First, with one operator of each child.               *)
EXTENDS FilePipeline

CONSTANTS Numbers, First, Operators, Terms

Expressions ==
  UNION {{e \in [1 .. n -> [op : Operators \cup {""}, num : Numbers \cup {First}]] :
            \A i \in 1 .. n :
              IF i = 1 THEN e[i].op = "" /\ e[i].num = First
                       ELSE e[i].op # "" /\ e[i].num \in Numbers} : n \in 1 .. Terms}
================================================================================
