------------------------------ MODULE Printing ------------------------------
(***************************************************************************)
(* What printing a module and parsing the result amounts to: patch_symbol  *)
(* of the MCP server rewrites whole files that way.                        *)
(***************************************************************************)
EXTENDS Parser, Display

(* Names are resolved once more when the text is read back: a name that    *)
(* was free because no binder was being parsed is bound by the binders it  *)
(* is now printed under.  env is the sequence of these binders; outside of *)
(* every Define, nothing is bound.                                         *)
RECURSIVE Bind(_, _, _)
Bind(e, env, inDefine) ==
  CASE e.op = "Identifier" -> ResolveVariable(env, e.name)
    [] e.op = "Define" -> [e EXCEPT !.kids[1] = Bind(@, env \o e.names, TRUE)]
    [] e.op = "Let" ->
         [e EXCEPT !.kids = <<Bind(e.kids[1], env, inDefine),
            Bind(e.kids[2], IF inDefine THEN Append(env, e.name) ELSE env, inDefine)>>]
    [] OTHER -> [e EXCEPT !.kids = [i \in DOMAIN @ |-> Bind(@[i], env, inDefine)]]

BindModule(items) == [i \in DOMAIN items |-> Bind(items[i], <<>>, FALSE)]

(* The texts the grammar reads differently, whatever is in scope; next is  *)
(* the first token of what is printed after e.                             *)
RECURSIVE Clean(_, _)
Clean(e, next) ==
  LET First(i) == IF i > Len(e.kids) THEN next ELSE Head(Show(e.kids[i])).k
  IN  /\ e.op = "Integer" => e.n >= 0
      /\ e.op = "Shape" => next # "id"
      /\ e.op = "TimeNow" => next \notin {"+", "-"}
      /\ e.op = "Define" =>
           /\ First(1) # "id"
           /\ First(1) = "tick" => e.names = <<>> \/ Len(e.names) \in e.marked
      /\ \A i \in DOMAIN e.kids : Clean(e.kids[i], First(i + 1))

CleanModule(items) ==
  \A i \in DOMAIN items :
    Clean(items[i], IF i = Len(items) THEN "EOF" ELSE Head(Show(items[i + 1])).k)

\* What is printed means the module with its names resolved once more, but
\* for the texts that the grammar reads differently.
MeansBound(items) ==
  LET again == Parse(ShowModule(items))
  IN  (again.err = "" /\ again.items = BindModule(items)) <=> CleanModule(items)
=============================================================================
