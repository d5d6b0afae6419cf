-------------------------------- MODULE Build -------------------------------
(***************************************************************************)
(* The compiler's command line, src/main.rs: parse a file, prune what is   *)
(* not in use, verify the rest and generate it item by item into one LLVM  *)
(* module.  Items see only what was generated before them, so their order  *)
(* matters.  Of what is generated the model keeps the symbols.  What the   *)
(* parser, get_calls, verify_expr and gen_expr read of an expression are   *)
(* parameters: Toolchain gives them the compiler's own.                    *)
(***************************************************************************)
EXTENDS Prune, Subsequence, Syntax

CONSTANTS Stems,           \* the names a file may have, without its extension
          Calls(_),        \* item -> the names in it
          BodyOK(_, _, _), \* definition, shapes, functions -> its body is verified
          Guessed(_),      \* definition -> the fields it looks up in every shape
          References(_)    \* definition -> what its code looks up, in order:
                           \* [how, name, of], as module Names has them

VARIABLES stem,      \* the name of the file: the name of the module
          module,    \* what the parser returned
          stage,     \* "idle", "prune", "generate", "done", "rejected" or
             \* what the generator failed for
          next,      \* the kept item to generate
          object,    \* the LLVM module and the generator's tables
          pending    \* what is being generated: a function and, innermost last,
                     \* the templates expanded in it

buildVars == <<pruneVars, stem, module, stage, next, object, pending>>

(* shapes, imports : the tables of the code generator, by name             *)
(* symbols         : "defined", "declared" or "extern"                     *)
(* templates       : symbol -> the item, a function with parameters that   *)
(*                   expand                                                *)
(* params          : symbol -> the number of its parameters                *)
(* used            : the symbols that generated code refers to             *)
NothingGenerated ==
  [shapes |-> <<>>, imports |-> <<>>, symbols |-> <<>>, params |-> <<>>,
   templates |-> <<>>, used |-> {}]

\* Why the generator fails: gen_function returns an error or panics, a
\* name or a field is not there, a template has no end, a variable is not
\* where the verifier has it, operands do not fit, or LLVM fails.
Failures == {"unverified", "parameters", "unknown", "endless", "arguments", "field",
             "moved", "typed", "output"}

AsItem(e) ==
  LET it == Unwrap(e)
  IN  [kind |-> CASE it.op = "Define" -> "define" [] it.op = "Shape" -> "shape"
                  [] it.op = "Import" -> "import" [] OTHER -> "other",
       name |-> it.name, exported |-> it.exported, calls |-> Calls(e)]

KeptItems == Keeping(module, {i \in Positions : Kept(i)})

\* The kept definitions that main generates.
IsOtel(e)      == e.kids[1] = Text("otel") /\ e.kids[2].op = "String" /\ e.kids[3].op = "Define"
IsGenerated(i) == \/ KeptItems[i].op = "Define"
                  \/ KeptItems[i].op = "Metadata" /\ IsOtel(KeptItems[i])
Defined        == {i \in DOMAIN KeptItems : IsGenerated(i)}
Def(i)         == Unwrap(KeptItems[i])
IsTemplate(i)  == Def(i).marked # {}

\* A table with one more entry, or another one.
Inserted(f, x, v) == [y \in DOMAIN f \cup {x} |-> IF y = x THEN v ELSE f[y]]

-----------------------------------------------------------------------------
(* Symbols.  An exported function is found under its full name only once   *)
(* it has been generated; before that, its callers declare a private one.  *)
(* A symbol is the sequence of what it is put together from, so that two   *)
(* ways to spell one symbol, a_b of c and a of b_c, are left out.          *)
Plain(name)          == <<name>>
Qualified(mod, name) == IF mod \in {"main", "test"} THEN Plain(name) ELSE <<mod, name>>
Private(name)        == IF name = "main" THEN Plain(name) ELSE <<"__llm", stem, name>>

\* A mutant looks for exported functions under their private name.
ResolvePrivate(name, o) ==
  IF name \in DOMAIN o.imports THEN Qualified(o.imports[name], name)
  ELSE IF Private(name) \in DOMAIN o.symbols \/ Plain(name) \notin DOMAIN o.symbols
  THEN Private(name) ELSE Plain(name)

Resolve(name, o) ==
  IF name \in DOMAIN o.imports THEN Qualified(o.imports[name], name)
  ELSE IF Qualified(stem, name) \in DOMAIN o.symbols THEN Qualified(stem, name)
  ELSE IF Private(name) \in DOMAIN o.symbols \/ Plain(name) \notin DOMAIN o.symbols
  THEN Private(name) ELSE Plain(name)

\* add_function of n parameters, unless there is one of that name.
Added(o, sym, how, n) ==
  IF sym \in DOMAIN o.symbols THEN o
  ELSE [o EXCEPT !.symbols = Inserted(@, sym, how), !.params = Inserted(@, sym, n)]

Using(o, sym) == [o EXCEPT !.used = @ \cup {sym}]

SymbolOf(define) ==
  IF define.exported /\ define.name # "main" THEN Qualified(stem, define.name)
  ELSE Private(define.name)

-----------------------------------------------------------------------------
(* verify_module: the shapes and functions of all items; of two shapes of  *)
(* a name the last one counts.                                             *)
ShapesOf(list) ==
  LET at == {i \in DOMAIN list : Unwrap(list[i]).op = "Shape"}
      final(n) == Max({i \in at : Unwrap(list[i]).name = n})
  IN  [n \in {Unwrap(list[i]).name : i \in at} |-> Unwrap(list[final(n)]).names]

NamesOf(list, ops) == {Unwrap(list[i]).name : i \in {j \in DOMAIN list : Unwrap(list[j]).op \in ops}}

ModuleOK(list) ==
  \A i \in DOMAIN list :
    Unwrap(list[i]).op = "Define" =>
      BodyOK(Unwrap(list[i]), ShapesOf(list), NamesOf(list, {"Define", "Import"}))

(* gen_function verifies the body again, with the shapes registered so far *)
(* and the functions of the module or generated so far; in the mutant, the *)
(* latter only.                                                            *)
KnownGenerated(define, o) ==
  {define.name} \cup
  {c \in Calls(define) : Resolve(c, o) \in DOMAIN o.symbols \cup DOMAIN o.templates}

KnownFunctions(define, o) ==
  {define.name} \cup
  {c \in Calls(define) : \/ c \in NamesOf(KeptItems, {"Define"}) \/ Plain(c) \in DOMAIN o.symbols
                         \/ Resolve(c, o) \in DOMAIN o.symbols \cup DOMAIN o.templates}

-----------------------------------------------------------------------------
BuildInit ==
  /\ items = <<>> /\ Begin
  /\ stem \in Stems
  /\ module = <<>> /\ next = 1 /\ object = NothingGenerated /\ pending = <<>>

\* The command has read the file and parsed it.
StartBuild(parsed) ==
  /\ stage = "idle"
  /\ IF parsed.err # ""
     THEN stage' = "rejected" /\ UNCHANGED <<module, items>>
     ELSE /\ stage' = "prune"
          /\ module' = parsed.items
          /\ items' = [i \in DOMAIN parsed.items |-> AsItem(parsed.items[i])]
  /\ UNCHANGED <<stem, phase, scan, reachable, visited, toVisit, next, object, pending>>

PruneStep ==
  /\ stage = "prune"
  /\ PruneNext
  /\ UNCHANGED <<stem, module, stage, next, object, pending>>

VerifyModule ==
  /\ stage = "prune" /\ phase = "kept"
  /\ stage' = IF ModuleOK(KeptItems) THEN "generate" ELSE "rejected"
  /\ UNCHANGED <<pruneVars, stem, module, next, object, pending>>

\* The item whose turn it is.
Turn(op) ==
  /\ stage = "generate" /\ pending = <<>>
  /\ next \in DOMAIN KeptItems /\ KeptItems[next].op = op

Generated(o) ==
  /\ object' = o
  /\ next' = next + 1
  /\ UNCHANGED <<pruneVars, stem, module, stage, pending>>

(* What is being generated: an item, the shapes of what was passed for its *)
(* parameters, and how far its code has been read.                         *)
Frame(item, shapes) == [item |-> item, shapes |-> shapes, at |-> 1]

\* A panic or an error ends the command.
Abort(why) == stage' = why /\ UNCHANGED <<pruneVars, stem, module, next, object, pending>>

GenShape ==
  /\ Turn("Shape")
  /\ LET item == KeptItems[next]
     IN  Generated([object EXCEPT !.shapes = Inserted(@, item.name, item.names)])

GenImport ==
  /\ Turn("Import")
  /\ LET item == KeptItems[next]
         mod  == item.names[1]
     IN  Generated(Added([object EXCEPT !.imports = Inserted(@, item.name, mod)],
                         Qualified(mod, item.name), "extern", item.n))

\* A template is only stored, and declared without parameters; of others
\* the body is generated.  A second function of a name continues the first
\* one, which must have its parameters.
GenFunction ==
  LET define == Def(next)
      sym    == SymbolOf(define)
      arity  == Len(define.names)
  IN  IF ~BodyOK(define, object.shapes, KnownFunctions(define, object)) THEN Abort("unverified")
      ELSE IF IsTemplate(next)
      THEN Generated([Added(object, sym, "declared", 0)
                        EXCEPT !.templates = Inserted(@, sym, next)])
      ELSE IF sym \in DOMAIN object.symbols /\ object.params[sym] < arity THEN Abort("parameters")
      ELSE /\ object' = [Added(object, sym, "defined", arity)
                           EXCEPT !.symbols = Inserted(@, sym, "defined")]
           /\ pending' = <<Frame(next, [p \in DOMAIN define.names |-> NoShape])>>
           /\ UNCHANGED <<pruneVars, stem, module, stage, next>>

GenDefine == Turn("Define") /\ GenFunction

\* Of the definitions under metadata only those tagged "otel" are generated.
GenMetadata ==
  /\ Turn("Metadata")
  /\ IF IsGenerated(next) THEN GenFunction ELSE Generated(object)

GenOther ==
  /\ stage = "generate" /\ pending = <<>>
  /\ next \in DOMAIN KeptItems
  /\ KeptItems[next].op \notin {"Shape", "Define", "Metadata", "Import"}
  /\ Generated(object)

\* LLVM optimizes the module and writes it, or cannot.
EmitObject ==
  /\ stage = "generate" /\ next \notin DOMAIN KeptItems
  /\ stage' \in {"done", "output"}
  /\ UNCHANGED <<pruneVars, stem, module, next, object, pending>>

-----------------------------------------------------------------------------
(* gen_expr, for what it looks up.  A function that is called is looked up *)
(* before the arguments are generated and declared after them, which is    *)
(* one step here: an argument declares no name but its own.                *)
Top      == pending[Len(pending)]
Reading  == References(Def(Top.item))
Advanced == [pending EXCEPT ![Len(pending)].at = @ + 1]

Reads(how) ==
  /\ stage = "generate" /\ pending # <<>>
  /\ Top.at \in DOMAIN Reading /\ Reading[Top.at].how = how

Goes == pending' = Advanced /\ UNCHANGED <<pruneVars, stem, module, stage, next, object>>

\* The shape of a value, where Top's code is generated.
ShapeHere(source) ==
  IF source.shape # NoShape THEN source.shape
  ELSE IF source.param \in DOMAIN Top.shapes THEN Top.shapes[source.param] ELSE NoShape

\* Fewer arguments leave the last parameters without a variable.
Passed(call, define) ==
  [p \in DOMAIN call.of \cap DOMAIN define.names |-> ShapeHere(call.of[p])]

(* Where variables are not where the verifier has them.  Forked operands   *)
(* and arguments and trapped bodies find lent all that is not moved yet,   *)
(* under other indices; without an argument, the indices of a template     *)
(* reach into the stack of its caller.                                     *)
Misses(frame) == DOMAIN Def(frame.item).names # DOMAIN frame.shapes
Moves(frame)  == \E m \in DOMAIN References(Def(frame.item)) :
                   m <= frame.at /\ References(Def(frame.item))[m].how = "move"
Uncertain     == \E k \in DOMAIN pending : Misses(pending[k]) \/ Moves(pending[k])

\* The function types that analyze_module_types knows: of two definitions
\* of a name the last one counts.
DefinesOf(name) == {j \in DOMAIN KeptItems : Def(j).op = "Define" /\ Def(j).name = name}
ArityOf(name)   == Len(Def(Max(DefinesOf(name))).names)

\* A template is generated in place of its call; without end, if it is
\* already being generated.
GenCall ==
  /\ Reads("call")
  /\ LET call == Reading[Top.at]
         sym  == Resolve(call.name, object)
     IN  IF sym \in DOMAIN object.templates
         THEN LET item == object.templates[sym]
              IN  IF \E k \in DOMAIN pending : pending[k].item = item THEN Abort("endless")
                  ELSE /\ pending' = Append(Advanced, Frame(item, Passed(call, Def(item))))
                       /\ UNCHANGED <<pruneVars, stem, module, stage, next, object>>
         ELSE IF sym \notin DOMAIN object.symbols /\ DefinesOf(call.name) = {} THEN Abort("unknown")
         ELSE /\ object' = Using(Added(object, sym, "declared", ArityOf(call.name)), sym)
              /\ pending' = Advanced
              /\ UNCHANGED <<pruneVars, stem, module, stage, next>>

GenValue ==
  /\ Reads("value")
  /\ LET sym == Resolve(Reading[Top.at].name, object)
     IN  IF sym \notin DOMAIN object.symbols THEN Abort("unknown")
         ELSE /\ object' = Using(object, sym)
              /\ pending' = Advanced
              /\ UNCHANGED <<pruneVars, stem, module, stage, next>>

\* The map of a template has the parameters that were passed.
GenExpand ==
  /\ Reads("expand")
  /\ IF Reading[Top.at].of[1].param \in DOMAIN Top.shapes THEN Goes ELSE Abort("arguments")

\* A field of the shape that is known; of any shape, when none is.
FieldIn(shapes, shape) == IF shape \in DOMAIN shapes THEN ToSet(shapes[shape]) ELSE {}

HasFieldHere(field) ==
  LET shape == ShapeHere(field.of[1])
  IN  IF shape # NoShape THEN field.name \in FieldIn(object.shapes, shape)
      ELSE \E s \in DOMAIN object.shapes : field.name \in ToSet(object.shapes[s])

GenField ==
  /\ Reads("field")
  /\ \/ (HasFieldHere(Reading[Top.at]) \/ Uncertain) /\ Goes
     \/ ~HasFieldHere(Reading[Top.at]) /\ Abort("field")

GenMove == Reads("move") /\ Goes

\* The types of operands are not followed: an instruction may not take them.
GenOperator == Reads("operator") /\ (Goes \/ Abort("typed"))

\* A variable that is looked up, now or once the caller goes on, is moved,
\* lent or not there.
GenShifted == stage = "generate" /\ Uncertain /\ Abort("moved")

EndBody ==
  /\ stage = "generate" /\ pending # <<>>
  /\ Top.at \notin DOMAIN Reading
  /\ pending' = SubSeq(pending, 1, Len(pending) - 1)
  /\ next' = IF Len(pending) = 1 THEN next + 1 ELSE next
  /\ UNCHANGED <<pruneVars, stem, module, stage, object>>

Generate == \/ GenShape \/ GenImport \/ GenDefine \/ GenMetadata \/ GenOther
            \/ GenCall \/ GenValue \/ GenExpand \/ GenField \/ GenMove \/ GenOperator
            \/ GenShifted \/ EndBody \/ EmitObject

BuildStep == PruneStep \/ VerifyModule \/ Generate

-----------------------------------------------------------------------------
BuildTypeOK ==
  /\ PruneTypeOK
  /\ next \in 1 .. Len(items) + 1
  /\ \A k \in DOMAIN pending : pending[k].item \in 1 .. next /\ pending[k].at \in Nat

Undefined == {s \in object.used : object.symbols[s] = "declared"}

Found(i, hows) == {r \in ToSet(References(Def(i))) : r.how \in hows}
UsedBy(i)      == {r.name : r \in Found(i, {"call", "value"})}
ValuesOf(i)    == {r.name : r \in Found(i, {"value"})}
ImportedBefore(i, c) == \E j \in 1 .. i - 1 : KeptItems[j].op = "Import" /\ KeptItems[j].name = c

\* The linker finds a private function wherever it is, an exported one only
\* if it was generated before its caller; main has one name for both.
Finds(i, c) ==
  \/ ImportedBefore(i, c)
  \/ \E j \in Defined : /\ Def(j).name = c /\ ~IsTemplate(j)
                        /\ j <= i \/ ~Def(j).exported \/ c = "main"

\* Metadata drops no definition; shapes, imports, templates and functions
\* used as values come before their use; a template's name is its own.
InOrder ==
  \A i \in DOMAIN KeptItems :
    /\ Def(i).op = "Define" => IsGenerated(i)
    /\ Def(i).op \in {"Shape", "Import"} =>
         KeptItems[i].op = Def(i).op /\ \A j \in Defined : i < j
    /\ IsGenerated(i) => /\ \A c \in UsedBy(i) : Finds(i, c) \/ \E j \in Defined : j < i /\ Def(j).name = c
                         /\ \A c \in ValuesOf(i) : ImportedBefore(i, c)
                              \/ \E j \in Defined : j <= i /\ Def(j).name = c /\ ~IsTemplate(j)
                         /\ IsTemplate(i) =>
                              \A j \in DOMAIN KeptItems \ {i} :
                                Def(j).op \in {"Define", "Import"} => Def(j).name # Def(i).name

\* What nobody verifies: definitions and imports of one name have as many
\* parameters, a call of a template passes them all, and a shape that it
\* passes has every field that templates guess.
Arity(e)  == IF e.op = "Import" THEN e.n ELSE Len(e.names)
Templates == {t \in Defined : IsTemplate(t)}

Fitting ==
  /\ \A i, j \in DOMAIN KeptItems :
       {Def(i).op, Def(j).op} \subseteq {"Define", "Import"} /\ Def(i).name = Def(j).name =>
         Arity(Def(i)) = Arity(Def(j))
  /\ \A i \in Defined, t \in Templates : \A call \in Found(i, {"call"}) :
       call.name = Def(t).name =>
         /\ DOMAIN Def(t).names \subseteq DOMAIN call.of
         /\ \A p \in DOMAIN call.of : call.of[p].shape # NoShape =>
              \A u \in Templates :
                Guessed(Def(u)) \subseteq FieldIn(ShapesOf(KeptItems), call.of[p].shape)

(* A module that is verified and in order is generated without an error:   *)
(* the checks in gen_function never disagree with those of verify_module,  *)
(* every name is found, no template is expanded without end, and the       *)
(* object has no undefined symbol.  Where what nobody verifies fits too,   *)
(* every parameter and every field is found as well.  What is left are     *)
(* variables that are moved, the types of operands, and LLVM.              *)
VerifiedBuilds ==
  stage \in {"generate", "done"} \cup Failures /\ InOrder =>
    /\ stage \notin {"unverified", "unknown", "endless"}
    /\ Fitting => stage \notin {"parameters", "arguments", "field"}
    /\ stage = "done" => Undefined = {}

(* Without templates, what the linker misses is exactly what is called     *)
(* before it is exported, or was dropped with its metadata.                *)
LinksExactly ==
  stage = "done" /\ ~(\E i \in Defined : IsTemplate(i)) =>
    (Undefined = {} <=> \A i \in Defined : \A c \in UsedBy(i) : Finds(i, c))

(* Pruning does not change the verdict of the verifier, but where a field  *)
(* of an unknown shape was found in a shape that is pruned.                *)
FieldsOf(shapes) == UNION {ToSet(shapes[s]) : s \in DOMAIN shapes}

PruneKeepsVerdict ==
  phase = "kept" /\ RootsAgree /\ ModuleOK(module) =>
    (ModuleOK(KeptItems) <=>
       \A i \in DOMAIN KeptItems :
         Def(i).op = "Define" => Guessed(Def(i)) \subseteq FieldsOf(ShapesOf(KeptItems)))

-----------------------------------------------------------------------------
(* What the theorems ask of the parser and the verifier.                   *)
Tables == UNION {[names -> Seq(STRING)] : names \in SUBSET STRING}
Sources == [shape : STRING, param : Nat]
Lookup  == [how : {"call", "value", "field", "expand", "move", "operator"},
            name : STRING, of : Seq(Sources)]

WellParsed(e) ==
  /\ AsItem(e) \in Item
  /\ Calls(Unwrap(e)) \subseteq Calls(e)
  /\ Unwrap(e).op = "Shape" => Unwrap(e).names \in Seq(STRING)
  /\ Unwrap(e).op = "Import" => Unwrap(e).n \in Nat
  /\ Unwrap(e).op = "Define" => /\ Unwrap(e).names \in Seq(STRING)
                                /\ References(Unwrap(e)) \in Seq(Lookup)

AgreeOn(names, s, t) ==
  \A c \in names : (c \in DOMAIN s <=> c \in DOMAIN t) /\ (c \in DOMAIN s => s[c] = t[c])

\* Parameters that expand are found in a body that is verified, and so are
\* the fields of a shape that is known; the other fields are guessed.
FindsAll(define, s) ==
  \A r \in ToSet(References(define)) :
    /\ r.how = "expand" => r.of[1].param \in define.marked \cap DOMAIN define.names
    /\ r.how = "field" => r.name \in IF r.of[1].shape = NoShape THEN Guessed(define)
                                     ELSE FieldIn(s, r.of[1].shape)

\* A verdict depends on what the names in the body are, and a field that is
\* guessed needs no more than some shape that has it.
JudgedByNames(define, tables, names) ==
  /\ \A s \in tables : \A F \in SUBSET names : BodyOK(define, s, F) => FindsAll(define, s)
  /\ \A s, t \in tables : \A F, G \in SUBSET names :
       BodyOK(define, s, F) /\ AgreeOn(Calls(define), s, t) /\ F \cap Calls(define) \subseteq G =>
         (BodyOK(define, t, G) <=> Guessed(define) \subseteq FieldsOf(t))

ParsedWell(parsed, tables, names) ==
  parsed.err = "" =>
    /\ parsed.items \in Seq(ToSet(parsed.items))
    /\ \A p \in DOMAIN parsed.items :
         /\ WellParsed(parsed.items[p])
         /\ Unwrap(parsed.items[p]).op = "Define" =>
              JudgedByNames(Unwrap(parsed.items[p]), tables, names)
=============================================================================
