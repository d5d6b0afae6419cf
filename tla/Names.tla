-------------------------------- MODULE Names -------------------------------
(***************************************************************************)
(* What the compiler reads of an expression's names: get_calls of          *)
(* src/compiler/analysis/mod.rs, the rules of verify.rs on functions,      *)
(* shapes, fields and the distance of a variable, and the functions that   *)
(* gen_expr looks up.  Build works with any operators of these kinds.  The *)
(* states that make a variable moved or borrowed are the subject of module *)
(* Verifier.                                                               *)
(***************************************************************************)
EXTENDS Syntax, FiniteSets, TLC

UnionOf(sets) == UNION {sets[i] : i \in DOMAIN sets}

(* get_calls: the identifiers of an expression, the fields of a shape      *)
(* excepted, with the shapes it makes.                                     *)
RECURSIVE get_calls(_)
get_calls(e) ==
  (IF e.op \in {"Identifier", "Expand", "New", "Unpack"} THEN {e.name} ELSE {})
    \cup UnionOf([i \in DOMAIN e.kids |-> get_calls(e.kids[i])])

-----------------------------------------------------------------------------
(* A context holds the shapes and functions known, where the shapes of the *)
(* variables on the stack come from and the parameters that expand.        *)
RECURSIVE InferShape(_, _)
InferShape(e, stack) ==
  CASE e.op \in {"New", "Unpack"} -> Source(e.name, 0)
    [] e.op \in {"Map", "Filter", "Move", "Borrow", "MutBorrow"} -> InferShape(e.kids[1], stack)
    [] e.op = "DeBruijn" /\ e.n < Len(stack) -> stack[Len(stack) - e.n]
    [] OTHER -> NoSource

KnownShape(e, stack) == InferShape(e, stack).shape

Fields(context, shape) ==
  IF shape \in DOMAIN context.shapes THEN ToSet(context.shapes[shape]) ELSE {}

\* A field of the shape inferred; of any shape, when none is inferred.
HasField(e, context) ==
  LET shape == KnownShape(e.kids[1], context.stack)
  IN  IF shape # NoShape THEN e.name \in Fields(context, shape)
      ELSE \E s \in DOMAIN context.shapes : e.name \in Fields(context, s)

\* A shape is inferred and known.
KnowsShape(e, context) ==
  LET shape == KnownShape(e.kids[1], context.stack)
  IN  shape # NoShape /\ shape \in DOMAIN context.shapes

\* A function that is applied, mapped or filtered with.
KnowsFunction(f, context) == f.op = "Identifier" => f.name \in context.functions

(* What verify_expr looks into, and the variables on the stack there.      *)
VerifiedKids(e) ==
  CASE e.op \in {"Map", "Filter"} -> {1}
    [] e.op = "Apply"             -> DOMAIN e.kids \ {1}
    [] OTHER                      -> DOMAIN e.kids

StackIn(e, i, stack) ==
  IF e.op = "Let" /\ i = 2 THEN Append(stack, InferShape(e.kids[1], stack)) ELSE stack

(* verify_expr: whether an expression keeps the rules on names.            *)
RECURSIVE NamesOK(_, _)
NamesOK(e, context) ==
  LET Rule ==
        CASE e.op = "DeBruijn"           -> e.n < Len(context.stack)
          [] e.op = "Identifier"         -> e.name \in context.functions
          [] e.op = "Expand"             -> e.name \in context.expand
          [] e.op \in {"New", "Unpack"}  -> e.name \in DOMAIN context.shapes
          [] e.op \in {"Get", "Set"}     -> HasField(e, context)
          [] e.op = "Pack"               -> KnowsShape(e, context)
          [] e.op = "Filter"             -> KnowsShape(e, context) /\ KnowsFunction(e.kids[2], context)
          [] e.op = "Map"                -> /\ KnowsShape(e, context)
                                            /\ e.name \in Fields(context, KnownShape(e.kids[1], context.stack))
                                            /\ KnowsFunction(e.kids[2], context)
          [] e.op = "Apply"              -> e.kids[1].op = "Identifier" /\ KnowsFunction(e.kids[1], context)
          [] OTHER                       -> TRUE
  IN  /\ Rule
      /\ \A i \in VerifiedKids(e) :
           NamesOK(e.kids[i], [context EXCEPT !.stack = StackIn(e, i, @)])

\* The fields of a Get or a Set that are looked up in every shape.
RECURSIVE GuessedIn(_, _)
GuessedIn(e, stack) ==
  (IF e.op \in {"Get", "Set"} /\ KnownShape(e.kids[1], stack) = NoShape THEN {e.name} ELSE {})
    \cup UNION {GuessedIn(e.kids[i], StackIn(e, i, stack)) : i \in VerifiedKids(e)}

-----------------------------------------------------------------------------
\* A definition: no shape is known of its parameters.
Parameters(define) == [p \in DOMAIN define.names |-> Source(NoShape, p)]

VerifyBody(define, shapes, functions) ==
  NamesOK(Body(define),
    [shapes |-> shapes, functions |-> functions, stack |-> Parameters(define),
     expand |-> {define.names[p] : p \in define.marked}])

GuessedFields(define) == GuessedIn(Body(define), Parameters(define))

-----------------------------------------------------------------------------
(* What gen_expr looks up, in its order: how, under which name, and of     *)
(* which values.                                                           *)
(*   call      a function, with the values of the arguments                *)
(*   value     a function that is an operand, or is mapped or filtered with *)
(*   field     a field of a value                                          *)
(*   expand    a parameter that expands                                    *)
(*   move      a variable that is given away                               *)
(*   operator  two operands, whose types decide on the instruction         *)
LookUp(how, name, of) == <<[how |-> how, name |-> name, of |-> of]>>

\* Parameters of one name: the map is without it until the first is passed.
Expanded(define, name) ==
  LET at == {p \in define.marked : define.names[p] = name}
  IN  Source(NoShape, IF at = {} THEN 0 ELSE Min(at))

\* What an argument is to a template: it is pushed before the shape of the
\* next one is inferred, so that indices there reach it first.
Arguments(args, stack) ==
  LET Push(pushed, arg) == Append(pushed, InferShape(arg, stack \o pushed))
  IN  FoldLeft(Push, <<>>, args)

GeneratedKids(e) ==
  CASE e.op \in {"Define", "Shape", "Import"} -> <<>>
    [] e.op = "Metadata"         -> <<e.kids[3]>>
    [] e.op = "Apply"            -> Tail(e.kids)
    [] e.op \in {"Map", "Filter", "Let"} -> <<e.kids[1]>>
    [] OTHER                     -> e.kids

RECURSIVE LookUps(_, _, _)
LookUps(exprs, stack, define) ==
  IF exprs = <<>> THEN <<>>
  ELSE LET e == Head(exprs)
           Own ==
             CASE e.op = "Let" -> LookUps(<<e.kids[2]>>, StackIn(e, 2, stack), define)
               [] e.op = "Identifier" -> LookUp("value", e.name, <<>>)
               [] e.op = "Apply" /\ e.kids[1].op = "Identifier" ->
                    LookUp("call", e.kids[1].name, Arguments(Tail(e.kids), stack))
               [] e.op \in {"Map", "Filter"} /\ e.kids[2].op = "Identifier" ->
                    LookUp("value", e.kids[2].name, <<>>)
               [] e.op \in {"Get", "Set"} ->
                    LookUp("field", e.name, <<InferShape(e.kids[1], stack)>>)
               [] e.op = "Expand" -> LookUp("expand", e.name, <<Expanded(define, e.name)>>)
               [] e.op = "Move" /\ e.kids[1].op \in {"DeBruijn", "Expand"} ->
                    LookUp("move", e.name, <<>>)
               [] e.op = "BinaryOp" -> LookUp("operator", e.name, <<>>)
               [] OTHER -> <<>>
       IN  LookUps(GeneratedKids(e), stack, define) \o Own \o LookUps(Tail(exprs), stack, define)

LookUpsOf(define) == LookUps(<<Body(define)>>, Parameters(define), define)
=============================================================================
