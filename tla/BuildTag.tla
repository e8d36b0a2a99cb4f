------------------------------- MODULE BuildTag -------------------------------
(***************************************************************************)
(* Build constraints and what cff does to them (internal/buildtag.go): the  *)
(* generated file carries the source's constraints with the tag cff         *)
(* inverted, so that a build takes one of the two files.                    *)
(*                                                                         *)
(* A constraint is <<"tag", t>>, <<"not", e>>, <<"and", e, f>> or           *)
(* <<"or", e, f>>; a header is the sequence of a file's constraint lines.   *)
(***************************************************************************)
EXTENDS Naturals, Sequences

Cff == <<"tag", "cff">>

(* constraint.Expr.Eval, of go/build: tags are those that are on.           *)
RECURSIVE Eval(_, _)
Eval(e, tags) ==
    CASE e[1] = "tag" -> e[2] \in tags
      [] e[1] = "not" -> ~Eval(e[2], tags)
      [] e[1] = "and" -> Eval(e[2], tags) /\ Eval(e[3], tags)
      [] e[1] = "or"  -> Eval(e[2], tags) \/ Eval(e[3], tags)

(* What constraint.Parse reads again of a printed constraint: NotExpr.String *)
(* puts no parentheses between two negations, and "!!" is not Go.           *)
RECURSIVE Readable(_)
Readable(e) ==
    CASE e[1] = "tag" -> TRUE
      [] e[1] = "not" -> e[2][1] # "not" /\ Readable(e[2])
      [] OTHER        -> Readable(e[2]) /\ Readable(e[3])

(* Two negations around anything but the tag cff, as in "!(!foo)".          *)
RECURSIVE DoublyNegated(_)
DoublyNegated(e) ==
    CASE e[1] = "tag" -> FALSE
      [] e[1] = "not" -> \/ e[2][1] = "not" /\ e[2][2] # Cff
                         \/ DoublyNegated(e[2])
      [] OTHER        -> DoublyNegated(e[2]) \/ DoublyNegated(e[3])

(* hasCffTag: Eval looks at every tag of the expression.                    *)
RECURSIVE HasCffTag(_)
HasCffTag(e) ==
    CASE e[1] = "tag" -> e = Cff
      [] e[1] = "not" -> HasCffTag(e[2])
      [] OTHER        -> HasCffTag(e[2]) \/ HasCffTag(e[3])

FileHasCffTag(header) == \E i \in DOMAIN header : HasCffTag(header[i])

(* invertCffConstraint: "!cff" loses its "!".                               *)
RECURSIVE Invert(_)
InvertInside(e) ==                                                \* mutant
    CASE e[1] = "tag" -> IF e = Cff THEN <<"not", e>> ELSE e
      [] e[1] = "not" -> <<"not", Invert(e[2])>>
      [] OTHER        -> <<e[1], Invert(e[2]), Invert(e[3])>>
Invert(e) ==
    CASE e[1] = "tag" -> IF e = Cff THEN <<"not", e>> ELSE e
      [] e[1] = "not" -> IF e[2] = Cff THEN Cff ELSE <<"not", Invert(e[2])>>
      [] OTHER        -> <<e[1], Invert(e[2]), Invert(e[3])>>

(* writeInvertedCffTag                                                     *)
Inverted(header) == [i \in DOMAIN header |-> Invert(header[i])]

(* go build: every line of the header has to hold.                          *)
Selected(header, tags) == \A i \in DOMAIN header : Eval(header[i], tags)
=============================================================================
