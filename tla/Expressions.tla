------------------------------ MODULE Expressions -------------------------------
(***************************************************************************)
(* The expressions of hw2 and their evaluation by three programs in a row, *)
(* each of which knows some of the operators.  Both versions of hw2, over  *)
(* files and over pipes, have the same util.c:ParseExpression.             *)
(*                                                                         *)
(* An expression is a non-empty sequence of terms; a term is a number and  *)
(* the operator before it.                                                 *)
(***************************************************************************)
EXTENDS Integers, Sequences, SequencesExt, FiniteSetsExt

Children == 1 .. 3   \* P1, P2 and P3

Number(n) == [op |-> "", num |-> n]
Quit == <<[op |-> "q", num |-> 0]>>
IsQuit(m) == m # <<>> /\ m[1].op = "q"

Apply(op, x, y) ==
  LET Bit(b) == IF b THEN 1 ELSE 0
  IN CASE op = "+"  -> x + y
       [] op = "-"  -> x - y
       [] op = "==" -> Bit(x = y)
       [] op = "<"  -> Bit(x < y)
       [] op = "<=" -> Bit(x <= y)
       [] op = ">"  -> Bit(x > y)
       [] op = ">=" -> Bit(x >= y)
       [] op = "&&" -> Bit(x # 0 /\ y # 0)

(* The operators each child knows. *)
Known == <<{"+", "-"}, {"==", "<", "<=", ">", ">="}, {"&&"}>>

(* A term: a number after an operator, after none, or the q that ends it all. *)
Symbols == {"", "q"} \cup UNION {Known[i] : i \in Children}
AnyTerm == [op : Symbols, num : Int]

(* Mutant: the number held is not replaced when it has been passed on. *)
ParseKeepsHolding(expr, ops) ==
  LET Read(acc, t) ==
        IF t.op \in ops
          THEN [acc EXCEPT !.held.num = Apply(t.op, @, t.num)]
          ELSE [parsed |-> Append(acc.parsed, acc.held),
                held |-> [acc.held EXCEPT !.op = t.op]]
      end == FoldLeft(Read, [parsed |-> <<>>, held |-> Head(expr)], Tail(expr))
  IN Append(end.parsed, end.held)

(* What a user may type: numbers with known operators between them. *)
WellFormed(expr) ==
  /\ expr \in Seq(AnyTerm) /\ expr # <<>>
  /\ expr[1].op = ""
  /\ \A k \in 2 .. Len(expr) : \E i \in Children : expr[k].op \in Known[i]

(* One pass over an expression: a known operator is applied to the number    *)
(* held and the next one, at another one the number held is passed on.       *)
ParseExpression(expr, ops) ==
  LET Read(acc, t) ==
        IF t.op \in ops
          THEN [acc EXCEPT !.held.num = Apply(t.op, @, t.num)]
          ELSE [parsed |-> Append(acc.parsed, acc.held), held |-> t]
      end == FoldLeft(Read, [parsed |-> <<>>, held |-> Head(expr)], Tail(expr))
  IN Append(end.parsed, end.held)

(* What a child sends on of what it received: q as it is. *)
Processed(i, m) == IF IsQuit(m) THEN m ELSE ParseExpression(m, Known[i])

--------------------------------------------------------------------------------
(* Reference: the value under the usual precedences, + and - before the      *)
(* comparisons before &&, each level from the left.                          *)
Value(expr) ==
  LET n == Len(expr)
      Val[s \in [level : 0 .. 3, from : 1 .. n, to : 1 .. n]] ==
        LET ks == {k \in s.from + 1 .. s.to : expr[k].op \in Known[s.level]}
            k == Max(ks)
        IN IF s.level = 0 THEN expr[s.from].num
           ELSE IF ks = {} THEN Val[[s EXCEPT !.level = @ - 1]]
           ELSE Apply(expr[k].op, Val[[s EXCEPT !.to = k - 1]],
                                  Val[[s EXCEPT !.level = @ - 1, !.from = k]])
  IN Val[[level |-> 3, from |-> 1, to |-> n]]
================================================================================
