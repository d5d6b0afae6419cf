------------------------------- MODULE Syntax -------------------------------
(***************************************************************************)
(* Tokens and expressions.  An expression is one record, whatever its      *)
(* constructor: op is the constructor's name, kids its boxed expressions   *)
(* in order, name and n what else it carries; names are the parameters of  *)
(* a Define (marked holds the positions of those written with a tick), the      *)
(* fields of a Shape, the module of an Import.  A float is like an         *)
(* integer: a literal.                                                     *)
(***************************************************************************)
EXTENDS Integers, Sequences, SequencesExt

Blank == [op |-> "", name |-> "", n |-> 0, names |-> <<>>, marked |-> {},
          kids |-> <<>>, exported |-> FALSE]

Expr(op, kids)         == [Blank EXCEPT !.op = op, !.kids = kids]
Named(op, name, kids)  == [Expr(op, kids) EXCEPT !.name = name]
Numbered(op, n)        == [Blank EXCEPT !.op = op, !.n = n]
Integer(i)             == Numbered("Integer", i)
DeBruijn(i)            == Numbered("DeBruijn", i)
Text(s)                == Named("String", s, <<>>)
Identifier(s)          == Named("Identifier", s, <<>>)
Apply(f, args)         == Expr("Apply", <<f>> \o args)
ShapeOf(name, fields)  == [Named("Shape", name, <<>>) EXCEPT !.names = fields]
ImportOf(module, symbol, arity) ==
  [Named("Import", symbol, <<>>) EXCEPT !.names = <<module>>, !.n = arity]
DefineOf(name, params, marked, body) ==
  [Named("Define", name, <<body>>) EXCEPT !.names = params, !.marked = marked]

Body(define) == define.kids[1]

\* Metadata is looked through once, wherever items are classified.
Unwrap(item) == IF item.op = "Metadata" THEN item.kids[3] ELSE item

-----------------------------------------------------------------------------
(* Where the shape of a value comes from: it is known by name, or it is    *)
(* what the caller passes for the parameter at a position, or not known.   *)
NoShape              == ""
Source(shape, param) == [shape |-> shape, param |-> param]
NoSource             == Source(NoShape, 0)

-----------------------------------------------------------------------------
\* A token is its spelling, with a name or a number if it carries one.
Tok(k)     == [k |-> k, name |-> "", n |-> 0]
IdTok(s)   == [Tok("id") EXCEPT !.name = s]
StrTok(s)  == [Tok("string") EXCEPT !.name = s]
IntTok(i)  == [Tok("int") EXCEPT !.n = i]
IndexTok(i) == [Tok("^n") EXCEPT !.n = i]
ApplyTok(arity) == [Tok("@") EXCEPT !.n = arity]

\* The slot of an operator that is filled by an expression.
E == "expr"

BinaryOperators == {"+", "-", "*", "/", "=", "<", "gt", "&", "|", "xor"}
=============================================================================
