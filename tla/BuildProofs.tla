----------------------------- MODULE BuildProofs ----------------------------
(***************************************************************************)
(* What is pruned, verified and generated, for any parser, verifier and    *)
(* look-up of names that is as WellParsed and JudgedByNames say.           *)
(*                                                                         *)
(* The object says where each of its symbols comes from: a symbol is       *)
(* defined by a function that was started, extern by an import, declared   *)
(* by a template, or declared by a call that came before every definition  *)
(* of the name it calls.  Only the last kind can miss its definition.      *)
(***************************************************************************)
EXTENDS Build, PruneProofs

Generating == stage \in {"generate", "done"} \cup Failures

Aborts == \E why \in Failures : Abort(why)

\* The module is what was parsed, and its items are what pruning reads of it.
ModuleInv ==
  /\ \E S : module \in Seq(S)
  /\ DOMAIN module = Positions
  /\ \A i \in Positions : items[i] = AsItem(module[i]) /\ WellParsed(module[i])

\* Nothing is generated before all is verified.
StageShape ==
  /\ stage \in {"unused", "idle"} => module = <<>> /\ items = <<>> /\ Begin
  /\ ~Generating => next = 1 /\ pending = <<>> /\ object = NothingGenerated
  /\ Generating => phase = "kept" /\ ModuleOK(KeptItems)
  /\ stage = "done" => next \notin DOMAIN KeptItems

\* The definitions whose generation has begun.
Started(i) == i \in Defined /\ (i < next \/ (i = next /\ pending # <<>>))

\* The shapes of what was passed are by the positions of parameters.
ShapeMaps == UNION {[S -> STRING \cup {NoShape}] : S \in SUBSET Nat}
Frames    == [item : Nat, shapes : ShapeMaps, at : Nat]

\* A function is generated at its turn, a template within it and after its own.
FramesShape ==
  /\ next \in 1 .. Len(KeptItems) + 1
  /\ pending \in Seq(Frames)
  /\ pending # <<>> => pending[1].item = next /\ ~IsTemplate(next)
  /\ \A k \in DOMAIN pending :
       /\ pending[k].item \in Defined
       /\ pending[k].at \in 1 .. Len(References(Def(pending[k].item))) + 1
       /\ k # 1 => pending[k].item < next /\ IsTemplate(pending[k].item)

IsObject(o) == o = [shapes |-> o.shapes, imports |-> o.imports, symbols |-> o.symbols,
                    params |-> o.params, templates |-> o.templates, used |-> o.used]

\* Where a symbol comes from.
ByFunction(s) == \E i \in Defined : Started(i) /\ ~IsTemplate(i) /\ s = SymbolOf(Def(i))
ByImport(s) ==
  \E j \in DOMAIN KeptItems : /\ j < next /\ KeptItems[j].op = "Import"
                              /\ s = Qualified(KeptItems[j].names[1], KeptItems[j].name)
ByTemplate(s) == \E j \in Defined : j < next /\ IsTemplate(j) /\ s = SymbolOf(Def(j))
ByCall(s) ==
  \E m \in Defined : \E c \in UsedBy(m) :
    /\ Started(m) /\ s = Private(c) /\ ~ImportedBefore(m, c)
    /\ \A j \in Defined : Def(j).name = c => m < j

SymbolsShape ==
  \A s \in DOMAIN object.symbols :
    \/ object.symbols[s] = "defined"  /\ ByFunction(s)
    \/ object.symbols[s] = "extern"   /\ ByImport(s)
    \/ object.symbols[s] = "declared" /\ (ByTemplate(s) \/ ByCall(s))

StartedShape ==
  \A i \in Defined : Started(i) =>
    /\ SymbolOf(Def(i)) \in DOMAIN object.symbols
    /\ ~IsTemplate(i) => object.symbols[SymbolOf(Def(i))] = "defined"

ImportsShape ==
  /\ \A c \in DOMAIN object.imports : ImportedBefore(next, c)
  /\ \A j \in DOMAIN KeptItems :
       j < next /\ KeptItems[j].op = "Import" => KeptItems[j].name \in DOMAIN object.imports
  /\ \A c \in DOMAIN object.imports : Qualified(object.imports[c], c) \in DOMAIN object.symbols

TemplatesShape ==
  /\ \A s \in DOMAIN object.templates :
       /\ object.templates[s] \in Defined /\ object.templates[s] < next
       /\ IsTemplate(object.templates[s]) /\ s = SymbolOf(Def(object.templates[s]))
  /\ \A j \in Defined : j < next /\ IsTemplate(j) => SymbolOf(Def(j)) \in DOMAIN object.templates

UsedShape == object.used \subseteq DOMAIN object.symbols

\* The last shape of a name that was generated.
IsLastShape(n, i) ==
  /\ i < next /\ KeptItems[i].op = "Shape" /\ KeptItems[i].name = n
  /\ object.shapes[n] = KeptItems[i].names
  /\ \A j \in DOMAIN KeptItems :
       i < j /\ j < next /\ KeptItems[j].op = "Shape" => KeptItems[j].name # n

AsFunction(f) == f = [n \in DOMAIN f |-> f[n]]

ShapesShape ==
  /\ AsFunction(object.shapes)
  /\ \A n \in DOMAIN object.shapes : \E i \in DOMAIN KeptItems : IsLastShape(n, i)
  /\ \A j \in DOMAIN KeptItems :
       j < next /\ KeptItems[j].op = "Shape" => KeptItems[j].name \in DOMAIN object.shapes

\* A symbol has as many parameters as a definition or an import of the name
\* that it tells, or that definition is a template.
Tells(s, c) == s = Private(c) \/ s = Plain(c) \/ \E x : s = Qualified(x, c)

HasArityOf(s, n, j) ==
  /\ Def(j).op \in {"Define", "Import"} /\ Tells(s, Def(j).name)
  /\ j \in Templates \/ n = Arity(Def(j))

ParamsShape ==
  /\ DOMAIN object.params = DOMAIN object.symbols
  /\ \A s \in DOMAIN object.symbols : \E j \in DOMAIN KeptItems : HasArityOf(s, object.params[s], j)

\* The references of a definition that were generated.
Read(i, k) == i < next \/ (i = next /\ pending # <<>> /\ k < pending[1].at)

NoTemplates == \A i \in Defined : ~IsTemplate(i)

Missing(c) == Private(c) \in object.used /\ object.symbols[Private(c)] = "declared"

Names(reference) == reference.how \in {"call", "value"}

\* What the linker will not find is used and stays declared.
MissingShape ==
  NoTemplates =>
    \A i \in Defined : \A k \in DOMAIN References(Def(i)) :
      Read(i, k) /\ Names(References(Def(i))[k]) /\ ~Finds(i, References(Def(i))[k].name) => Missing(References(Def(i))[k].name)

\* In order, templates are expanded downwards, and none is referred to.
Descending == \A k, l \in DOMAIN pending : k < l => pending[l].item < pending[k].item

NoneOfTemplates(used) == \A s \in used : \A j \in Defined : IsTemplate(j) => s # SymbolOf(Def(j))

\* Where all fits, every parameter was passed, and its shape is not known
\* or has what templates guess; of a function, no shape is known.
PassedShape ==
  \A k \in DOMAIN pending :
    /\ DOMAIN pending[k].shapes = DOMAIN Def(pending[k].item).names
    /\ \A p \in DOMAIN pending[k].shapes :
         \/ pending[k].shapes[p] = NoShape
         \/ k # 1 /\ \A u \in Templates :
                       Guessed(Def(u)) \subseteq FieldIn(ShapesOf(KeptItems), pending[k].shapes[p])

OrderShape ==
  InOrder => /\ stage \notin {"unverified", "unknown", "endless"}
             /\ Descending /\ NoneOfTemplates(object.used)
             /\ Fitting => stage \notin {"parameters", "arguments", "field"} /\ PassedShape

ObjectShape ==
  /\ IsObject(object) /\ FramesShape /\ SymbolsShape /\ StartedShape /\ ImportsShape
  /\ TemplatesShape /\ UsedShape /\ ShapesShape /\ ParamsShape

-----------------------------------------------------------------------------
(* Names of symbols.                                                       *)

\* A symbol tells the name it was made of; main is the only name that has
\* one symbol for all uses.
LEMMA Spelled ==
  /\ \A m, n, x, y : Qualified(m, n) = Qualified(x, y) => n = y
  /\ \A n, y : Private(n) = Private(y) => n = y
  /\ \A m, n, y : Qualified(m, n) = Private(y) => n = "main" /\ y = "main"
  /\ \A m, n, y : Qualified(m, n) = Plain(y) => n = y
  /\ \A n, y : Private(n) = Plain(y) => n = "main" /\ y = "main"
  /\ Private("main") = Plain("main")
<1>1. \A n, y : <<n>> = <<y>> => n = y
  OBVIOUS
<1>2. \A m, n, x, y : <<m, n>> = <<x, y>> => n = y
  OBVIOUS
<1>3. \A m, n, x, y : <<"__llm", m, n>> = <<"__llm", x, y>> => n = y
  OBVIOUS
<1>4. \A n, x, y : <<n>> # <<x, y>>
  OBVIOUS
<1>5. \A n, m, x, y : <<n>> # <<"__llm", x, y>> /\ <<m, n>> # <<"__llm", x, y>>
  OBVIOUS
<1> QED
  BY <1>1, <1>2, <1>3, <1>4, <1>5 DEF Qualified, Private, Plain

LEMMA SymbolTellsName ==
  ASSUME NEW d, NEW s, s = SymbolOf(d)
  PROVE  /\ s = Private(d.name) \/ s = Qualified(stem, d.name)
         /\ ~d.exported => s = Private(d.name)
         /\ d.name = "main" => s = Private("main")
         /\ \A x, c : s = Qualified(x, c) => d.name = c
         /\ \A c : s = Private(c) => d.name = c /\ (d.exported => c = "main")
         /\ \A c : s = Plain(c) => d.name = c
  BY Spelled DEF SymbolOf

-----------------------------------------------------------------------------
(* The tables of the object.                                               *)

LEMMA AddedFacts ==
  ASSUME NEW o, IsObject(o), NEW s, NEW how, NEW n, DOMAIN o.params = DOMAIN o.symbols
  PROVE  LET a == Added(o, s, how, n)
         IN  /\ IsObject(a) /\ a.shapes = o.shapes /\ a.imports = o.imports
             /\ a.templates = o.templates /\ a.used = o.used
             /\ DOMAIN a.symbols = DOMAIN o.symbols \cup {s}
             /\ \A y \in DOMAIN o.symbols : a.symbols[y] = o.symbols[y]
             /\ s \notin DOMAIN o.symbols => a.symbols[s] = how /\ a.params[s] = n
             /\ DOMAIN a.params = DOMAIN a.symbols
             /\ \A y \in DOMAIN o.symbols : a.params[y] = o.params[y]
<1>1. CASE s \in DOMAIN o.symbols
  BY <1>1 DEF Added
<1>2. CASE s \notin DOMAIN o.symbols
  <2> DEFINE t == Inserted(o.symbols, s, how)
             q == Inserted(o.params, s, n)
  <2>1. Added(o, s, how, n) = [shapes |-> o.shapes, imports |-> o.imports, symbols |-> t,
                               params |-> q, templates |-> o.templates, used |-> o.used]
    BY <1>2 DEF Added, IsObject
  <2>2. /\ DOMAIN t = DOMAIN o.symbols \cup {s} /\ t[s] = how
        /\ \A y \in DOMAIN o.symbols : t[y] = o.symbols[y]
    BY <1>2 DEF Inserted
  <2>3. /\ DOMAIN q = DOMAIN o.symbols \cup {s} /\ q[s] = n
        /\ \A y \in DOMAIN o.symbols : q[y] = o.params[y]
    BY <1>2 DEF Inserted
  <2> HIDE DEF t, q
  <2> QED
    BY <2>1, <2>2, <2>3 DEF IsObject
<1> QED
  BY <1>1, <1>2

LEMMA UsingFacts ==
  ASSUME NEW o, IsObject(o), NEW s
  PROVE  LET a == Using(o, s)
         IN  /\ IsObject(a) /\ a.shapes = o.shapes /\ a.imports = o.imports
             /\ a.templates = o.templates /\ a.symbols = o.symbols /\ a.used = o.used \cup {s}
             /\ a.params = o.params
<1>1. Using(o, s) = [shapes |-> o.shapes, imports |-> o.imports, symbols |-> o.symbols,
                     params |-> o.params, templates |-> o.templates, used |-> o.used \cup {s}]
  BY DEF Using, IsObject
<1> QED
  BY <1>1 DEF IsObject

\* A name of which some symbol exists is resolved to one; of others the
\* private symbol is taken, which does not exist.
LEMMA ResolveFacts ==
  ASSUME NEW o, NEW c,
         \A x \in DOMAIN o.imports : Qualified(o.imports[x], x) \in DOMAIN o.symbols
  PROVE  LET s == Resolve(c, o)
         IN  /\ s = Private(c) \/ s = Plain(c) \/ \E x : s = Qualified(x, c)
             /\ s \notin DOMAIN o.symbols =>
                  /\ s = Private(c) /\ c \notin DOMAIN o.imports
                  /\ Qualified(stem, c) \notin DOMAIN o.symbols
                  /\ Plain(c) \notin DOMAIN o.symbols
  BY DEF Resolve

-----------------------------------------------------------------------------
(* What is kept.                                                           *)

KeptAt == {p \in Positions : Kept(p)}

LEMMA KeptTyped ==
  ASSUME ModuleInv, items \in Seq(Item)
  PROVE  /\ Len(items) \in Nat /\ Len(KeptItems) \in 0 .. Len(items)
         /\ DOMAIN KeptItems = 1 .. Len(KeptItems) /\ Len(KeptItems) = Cardinality(KeptAt)
         /\ KeptAt \in SUBSET Nat /\ IsFiniteSet(KeptAt)
         /\ \A k \in DOMAIN KeptItems : Nth(KeptAt, k) \in KeptAt /\ KeptItems[k] = module[Nth(KeptAt, k)]
<1>1. PICK S : module \in Seq(S)
  BY DEF ModuleInv
<1>2. Len(items) \in Nat /\ DOMAIN module = 1 .. Len(items)
  BY LenProperties DEF ModuleInv, Positions
<1>3. KeptAt \in SUBSET DOMAIN module
  BY DEF KeptAt, ModuleInv
<1>4. KeptItems = Keeping(module, KeptAt)
  BY DEF KeptItems, KeptAt
<1>5. /\ KeptAt \in SUBSET Nat /\ IsFiniteSet(KeptAt) /\ Cardinality(KeptAt) \in Nat
      /\ Len(KeptItems) = Cardinality(KeptAt) /\ DOMAIN KeptItems = 1 .. Cardinality(KeptAt)
      /\ \A k \in 1 .. Cardinality(KeptAt) :
           Nth(KeptAt, k) \in KeptAt /\ KeptItems[k] = module[Nth(KeptAt, k)]
  BY <1>1, <1>3, <1>4, Sublist
<1>6. Cardinality(KeptAt) =< Len(items)
  <2>1. IsFiniteSet(1 .. Len(items)) /\ Cardinality(1 .. Len(items)) = Len(items)
    BY <1>2, FS_Interval
  <2>2. KeptAt \in SUBSET (1 .. Len(items))
    BY <1>2, <1>3
  <2> QED
    BY <2>1, <2>2, FS_Subset
<1> QED
  BY <1>2, <1>5, <1>6

LEMMA DefinedTyped ==
  ASSUME ModuleInv, items \in Seq(Item)
  PROVE  /\ Defined \subseteq 1 .. Len(KeptItems) /\ Len(KeptItems) \in Nat
         /\ \A i \in DOMAIN KeptItems : WellParsed(KeptItems[i])
         /\ \A i \in Defined : /\ Def(i).op = "Define" /\ References(Def(i)) \in Seq(Lookup)
                                /\ Len(References(Def(i))) \in Nat
                                /\ DOMAIN References(Def(i)) = 1 .. Len(References(Def(i)))
                                /\ \A k \in DOMAIN References(Def(i)) :
                                     Names(References(Def(i))[k]) => References(Def(i))[k].name \in UsedBy(i)
<1>1. /\ Len(KeptItems) \in Nat /\ DOMAIN KeptItems = 1 .. Len(KeptItems)
      /\ \A i \in DOMAIN KeptItems : WellParsed(KeptItems[i])
  <2>1. Len(KeptItems) \in Nat /\ DOMAIN KeptItems = 1 .. Len(KeptItems)
    BY KeptTyped
  <2>2. \A p \in KeptAt : WellParsed(module[p])
    BY DEF ModuleInv, KeptAt
  <2>3. \A k \in DOMAIN KeptItems : Nth(KeptAt, k) \in KeptAt /\ KeptItems[k] = module[Nth(KeptAt, k)]
    BY KeptTyped
  <2>4. \A k \in DOMAIN KeptItems : WellParsed(KeptItems[k])
    BY ONLY <2>2, <2>3
  <2> QED
    BY <2>1, <2>4
<1>2. ASSUME NEW i \in Defined
      PROVE  i \in DOMAIN KeptItems /\ Def(i).op = "Define"
  BY DEF Defined, IsGenerated, IsOtel, Def, Unwrap
<1>3. ASSUME NEW i \in Defined
      PROVE  References(Def(i)) \in Seq(Lookup)
  BY <1>1, <1>2 DEF WellParsed, Def
<1>4. ASSUME NEW i \in Defined
      PROVE  /\ Len(References(Def(i))) \in Nat
             /\ DOMAIN References(Def(i)) = 1 .. Len(References(Def(i)))
             /\ \A k \in DOMAIN References(Def(i)) :
                  Names(References(Def(i))[k]) => References(Def(i))[k].name \in UsedBy(i)
  BY <1>3, LenProperties DEF UsedBy, Found, Names, ToSet
<1> QED
  BY <1>1, <1>2, <1>3, <1>4

\* A step of the generator leaves the module and what is kept of it alone.
LEMMA KeptStays ==
  ASSUME UNCHANGED <<pruneVars, stem, module>>
  PROVE  /\ KeptItems' = KeptItems /\ Defined' = Defined /\ ModuleInv' = ModuleInv
         /\ InOrder' = InOrder /\ NoTemplates' = NoTemplates
         /\ Templates' = Templates /\ Fitting' = Fitting
         /\ \A i : Def(i)' = Def(i) /\ IsTemplate(i)' = IsTemplate(i) /\ UsedBy(i)' = UsedBy(i)
         /\ \A i, c : ImportedBefore(i, c)' = ImportedBefore(i, c) /\ Finds(i, c)' = Finds(i, c)
         /\ \A c : Private(c)' = Private(c)
         /\ \A d : SymbolOf(d)' = SymbolOf(d)
<1> USE DEF pruneVars
<1>1. KeptItems' = KeptItems /\ Positions' = Positions
  BY DEF KeptItems, Positions, Kept, Keeping
<1>2. Defined' = Defined /\ \A i : Def(i)' = Def(i) /\ IsTemplate(i)' = IsTemplate(i)
      /\ IsGenerated(i)' = IsGenerated(i)
  BY <1>1 DEF Defined, Def, IsTemplate, IsGenerated
<1>3. /\ \A i, hows : Found(i, hows)' = Found(i, hows)
      /\ \A i : UsedBy(i)' = UsedBy(i) /\ ValuesOf(i)' = ValuesOf(i)
  BY <1>2 DEF Found, UsedBy, ValuesOf
<1>4. \A i, c : ImportedBefore(i, c)' = ImportedBefore(i, c)
  BY <1>1 DEF ImportedBefore
<1>5. \A i, c : Finds(i, c)' = Finds(i, c)
  BY <1>2, <1>4 DEF Finds
<1>6. InOrder' = InOrder
  BY <1>1, <1>2, <1>3, <1>4, <1>5 DEF InOrder
<1>7. ModuleInv' = ModuleInv
  BY <1>1 DEF ModuleInv
<1>8. \A c : Private(c)' = Private(c)
  BY DEF Private
<1>9. \A d : SymbolOf(d)' = SymbolOf(d)
  BY <1>8 DEF SymbolOf, Qualified
<1>10. NoTemplates' = NoTemplates
  BY <1>2 DEF NoTemplates
<1>11. Templates' = Templates
  BY <1>2 DEF Templates
<1>12. Fitting' = Fitting
  BY <1>1, <1>2, <1>3, <1>11 DEF Fitting
<1> QED
  BY <1>1, <1>2, <1>3, <1>4, <1>5, <1>6, <1>7, <1>8, <1>9, <1>10, <1>11, <1>12

-----------------------------------------------------------------------------
(* What a step of the generator leaves as it was.                          *)
Still  == UNCHANGED <<pruneVars, stem, module>>
Onward == /\ next \in Nat /\ next' \in {next, next + 1}
          /\ next' = next => pending = <<>> \/ pending' # <<>>

\* What is used stays used, and only a definition changes a symbol.
Grew == /\ object.used \subseteq object'.used
        /\ \A s \in DOMAIN object.symbols :
             \/ object'.symbols[s] = object.symbols[s]
             \/ \E j \in Defined : s = SymbolOf(Def(j))

Base == ModuleInv /\ items \in Seq(Item)

LEMMA StartedStays ==
  ASSUME Base, Still, Onward
  PROVE  \A i : Started(i) => Started(i)'
<1>1. Defined' = Defined /\ Defined \subseteq Nat
  BY KeptStays, DefinedTyped DEF Base, Still
<1> QED
  BY <1>1 DEF Started, Onward

LEMMA OriginsStay ==
  ASSUME Base, Still, Onward
  PROVE  \A s : /\ ByFunction(s) => ByFunction(s)'
                /\ ByImport(s) => ByImport(s)'
                /\ ByTemplate(s) => ByTemplate(s)'
                /\ ByCall(s) => ByCall(s)'
<1> USE DEF Base, Still
<1>1. /\ KeptItems' = KeptItems /\ Defined' = Defined
      /\ \A i : Def(i)' = Def(i) /\ IsTemplate(i)' = IsTemplate(i) /\ UsedBy(i)' = UsedBy(i)
      /\ \A i, c : ImportedBefore(i, c)' = ImportedBefore(i, c)
      /\ \A c : Private(c)' = Private(c)
      /\ \A d : SymbolOf(d)' = SymbolOf(d)
  BY KeptStays
<1>2. \A i : Started(i) => Started(i)'
  BY StartedStays
<1>3. \A j \in DOMAIN KeptItems : j < next => j < next'
  BY KeptTyped DEF Onward
<1>4. Defined \subseteq DOMAIN KeptItems
  BY DEF Defined
<1>5. ASSUME NEW s, ByFunction(s)
      PROVE  ByFunction(s)'
  BY <1>1, <1>2, <1>5 DEF ByFunction
<1>6. ASSUME NEW s, ByImport(s)
      PROVE  ByImport(s)'
  BY <1>1, <1>3, <1>6 DEF ByImport, Qualified
<1>7. ASSUME NEW s, ByTemplate(s)
      PROVE  ByTemplate(s)'
  BY <1>1, <1>3, <1>4, <1>7 DEF ByTemplate
<1>8. ASSUME NEW s, ByCall(s)
      PROVE  ByCall(s)'
  BY <1>1, <1>2, <1>8 DEF ByCall
<1> QED
  BY <1>5, <1>6, <1>7, <1>8

\* Symbols stay, unless they become defined; what is new has its origin.
LEMMA SymbolsGrow ==
  ASSUME Base, Still, Onward, SymbolsShape, StartedShape,
         DOMAIN object.symbols \subseteq DOMAIN object'.symbols,
         \A s \in DOMAIN object'.symbols :
           \/ s \in DOMAIN object.symbols /\ object'.symbols[s] = object.symbols[s]
           \/ object'.symbols[s] = "defined"  /\ ByFunction(s)'
           \/ s \notin DOMAIN object.symbols /\ object'.symbols[s] = "extern"   /\ ByImport(s)'
           \/ s \notin DOMAIN object.symbols /\ object'.symbols[s] = "declared" /\ (ByTemplate(s)' \/ ByCall(s)'),
         \A i \in Defined : Started(i)' /\ ~Started(i) =>
           /\ SymbolOf(Def(i)) \in DOMAIN object'.symbols
           /\ ~IsTemplate(i) => object'.symbols[SymbolOf(Def(i))] = "defined"
  PROVE  SymbolsShape' /\ StartedShape'
<1>1. SymbolsShape'
  BY OriginsStay DEF SymbolsShape
<1>2. /\ Defined' = Defined
      /\ \A i : Def(i)' = Def(i) /\ IsTemplate(i)' = IsTemplate(i)
      /\ \A d : SymbolOf(d)' = SymbolOf(d)
  BY KeptStays DEF Still
<1>3. StartedShape'
  BY <1>2 DEF StartedShape
<1> QED
  BY <1>1, <1>3

LEMMA ImportsStay ==
  ASSUME Base, Still, Onward, ImportsShape, UNCHANGED object.imports,
         DOMAIN object.symbols \subseteq DOMAIN object'.symbols,
         next' # next /\ next \in DOMAIN KeptItems => KeptItems[next].op # "Import"
  PROVE  ImportsShape'
<1> USE DEF Base, Still
<1>1. KeptItems' = KeptItems /\ DOMAIN KeptItems \subseteq Nat
  BY KeptStays, KeptTyped
<1>2. ASSUME NEW c, ImportedBefore(next, c)
      PROVE  ImportedBefore(next, c)'
  <2>1. PICK j \in 1 .. next - 1 : KeptItems[j].op = "Import" /\ KeptItems[j].name = c
    BY <1>2 DEF ImportedBefore
  <2>2. next \in Nat /\ (next' = next \/ next' = next + 1)
    BY DEF Onward
  <2>3. j \in 1 .. next' - 1
    BY ONLY <2>2, j \in 1 .. next - 1
  <2> QED
    BY <1>1, <2>1, <2>3 DEF ImportedBefore
<1>3. \A j \in DOMAIN KeptItems : j < next' /\ KeptItems[j].op = "Import" => j < next
  BY <1>1 DEF Onward
<1> QED
  BY <1>1, <1>2, <1>3 DEF ImportsShape, Qualified

LEMMA TemplatesStay ==
  ASSUME Base, Still, Onward, TemplatesShape, UNCHANGED object.templates,
         next' # next /\ next \in Defined => ~IsTemplate(next)
  PROVE  TemplatesShape'
<1> USE DEF Base, Still
<1>0. Defined \subseteq Nat
  BY DefinedTyped
<1>1. /\ Defined' = Defined
      /\ \A i : Def(i)' = Def(i) /\ IsTemplate(i)' = IsTemplate(i)
      /\ \A d : SymbolOf(d)' = SymbolOf(d)
  BY KeptStays
<1>2. \A j \in Defined : j < next => j < next'
  BY <1>0 DEF Onward
<1>3. \A j \in Defined : j < next' /\ IsTemplate(j) => j < next
  BY <1>0 DEF Onward
<1> QED
  BY <1>1, <1>2, <1>3 DEF TemplatesShape

LEMMA ShapesStay ==
  ASSUME Base, Still, Onward, ShapesShape, UNCHANGED object.shapes,
         next' # next /\ next \in DOMAIN KeptItems => KeptItems[next].op # "Shape"
  PROVE  ShapesShape'
<1> USE DEF Base, Still
<1>1. KeptItems' = KeptItems /\ DOMAIN KeptItems \subseteq Nat
  BY KeptStays, KeptTyped
<1>2. \A j \in DOMAIN KeptItems : j < next' /\ KeptItems[j].op = "Shape" => j < next
  BY <1>1 DEF Onward
<1>3. \A j \in DOMAIN KeptItems : j < next => j < next'
  BY <1>1 DEF Onward
<1>4. ASSUME NEW n, NEW i \in DOMAIN KeptItems, IsLastShape(n, i)
      PROVE  IsLastShape(n, i)'
  BY <1>1, <1>2, <1>3, <1>4 DEF IsLastShape
<1> QED
  BY <1>1, <1>2, <1>3, <1>4 DEF ShapesShape, AsFunction

LEMMA ParamsStay ==
  ASSUME Still, ParamsShape, DOMAIN object'.params = DOMAIN object'.symbols,
         \A s \in DOMAIN object'.symbols :
           \/ s \in DOMAIN object.symbols /\ object'.params[s] = object.params[s]
           \/ \E j \in DOMAIN KeptItems : HasArityOf(s, object'.params[s], j)
  PROVE  ParamsShape'
<1>1. /\ KeptItems' = KeptItems /\ Templates' = Templates /\ \A i : Def(i)' = Def(i)
      /\ \A c : Private(c)' = Private(c)
  BY KeptStays DEF Still
<1>2. \A s, c : Tells(s, c)' = Tells(s, c)
  BY <1>1 DEF Tells, Plain, Qualified
<1>3. \A s \in DOMAIN object'.symbols : \E j \in DOMAIN KeptItems : HasArityOf(s, object'.params[s], j)
  BY DEF ParamsShape
<1>4. \A s \in DOMAIN object'.symbols : \E j \in DOMAIN KeptItems : HasArityOf(s, object.params[s], j)'
  BY <1>1, <1>2, <1>3 DEF HasArityOf
<1> QED
  BY <1>1, <1>4 DEF ParamsShape

\* The symbol of a definition tells its name.
LEMMA SymbolTells == \A d : Tells(SymbolOf(d), d.name)
  BY DEF SymbolOf, Tells

-----------------------------------------------------------------------------
(* The steps of the generator.                                             *)

\* An item is done with.
LEMMA GeneratedFacts ==
  ASSUME Base, FramesShape, pending = <<>>, next \in DOMAIN KeptItems, NEW o, Generated(o)
  PROVE  /\ Still /\ Onward /\ object' = o /\ next' = next + 1 /\ pending' = <<>>
         /\ FramesShape'
         /\ \A i \in Defined : Started(i)' /\ ~Started(i) => i = next
<1> USE DEF Base
<1>1. /\ Still /\ object' = o /\ next' = next + 1 /\ pending' = <<>>
  BY DEF Generated, Still
<1>2. /\ KeptItems' = KeptItems /\ DOMAIN KeptItems = 1 .. Len(KeptItems) /\ Len(KeptItems) \in Nat
      /\ Defined' = Defined
  BY <1>1, KeptStays, KeptTyped DEF Still
<1>3. next \in Nat /\ next + 1 \in 1 .. Len(KeptItems) + 1
  BY <1>2
<1>4. Onward
  BY <1>1, <1>3 DEF Onward
<1>5. FramesShape'
  BY <1>1, <1>2, <1>3 DEF FramesShape
<1>6. \A i \in Defined : Started(i)' /\ ~Started(i) => i = next
  BY <1>1, <1>2, <1>3 DEF Started, Defined
<1> QED
  BY <1>1, <1>4, <1>5, <1>6

LEMMA PassKeeps ==
  ASSUME Base, ObjectShape, pending = <<>>, next \in DOMAIN KeptItems, Generated(object),
         next \notin Defined, KeptItems[next].op \notin {"Shape", "Import"}
  PROVE  ObjectShape' /\ Still /\ Grew
<1> USE DEF ObjectShape
<1>1. /\ Still /\ Onward /\ object' = object /\ FramesShape'
      /\ \A i \in Defined : Started(i)' => Started(i)
  BY GeneratedFacts
<1>2. SymbolsShape' /\ StartedShape'
  BY <1>1, SymbolsGrow
<1>3. ImportsShape' /\ TemplatesShape' /\ ShapesShape' /\ ParamsShape'
  BY <1>1, ImportsStay, TemplatesStay, ShapesStay, ParamsStay DEF ParamsShape
<1> QED
  BY <1>1, <1>2, <1>3 DEF Grew, UsedShape, IsObject

LEMMA GenShapeKeeps ==
  ASSUME Base, ObjectShape, GenShape
  PROVE  ObjectShape' /\ Still /\ Grew
<1> USE DEF ObjectShape
<1>1. PICK item : item = KeptItems[next]
  OBVIOUS
<1>2. PICK o : o = [object EXCEPT !.shapes = Inserted(@, item.name, item.names)]
  OBVIOUS
<1>3. /\ pending = <<>> /\ next \in DOMAIN KeptItems /\ item.op = "Shape" /\ Generated(o)
      /\ next \notin Defined
  BY <1>1, <1>2 DEF GenShape, Turn, Defined, IsGenerated
<1>4. /\ IsObject(o) /\ o.shapes = Inserted(object.shapes, item.name, item.names)
      /\ o.imports = object.imports /\ o.symbols = object.symbols /\ o.params = object.params
      /\ o.templates = object.templates /\ o.used = object.used
  BY <1>2 DEF IsObject
<1>5. /\ Still /\ Onward /\ object' = o /\ next' = next + 1 /\ FramesShape'
      /\ \A i \in Defined : Started(i)' /\ ~Started(i) => i = next
  BY <1>3, GeneratedFacts
<1>6. SymbolsShape' /\ StartedShape'
  BY <1>3, <1>4, <1>5, SymbolsGrow
<1>7. ImportsShape' /\ TemplatesShape' /\ ParamsShape'
  BY <1>1, <1>3, <1>4, <1>5, ImportsStay, TemplatesStay, ParamsStay DEF ParamsShape
<1>8. ShapesShape'
  <2>1. KeptItems' = KeptItems /\ DOMAIN KeptItems \subseteq Nat
    BY <1>5, KeptStays, KeptTyped DEF Still, Base
  <2>2. /\ DOMAIN o.shapes = DOMAIN object.shapes \cup {item.name}
        /\ o.shapes[item.name] = item.names
        /\ \A n \in DOMAIN object.shapes : n # item.name => o.shapes[n] = object.shapes[n]
    BY <1>4 DEF Inserted
  <2>3. \A j \in DOMAIN KeptItems : j < next' <=> j < next \/ j = next
    BY <1>3, <1>5, <2>1
  <2>4. ASSUME NEW i, i = next
        PROVE  IsLastShape(item.name, i)'
    BY <1>1, <1>3, <1>5, <2>1, <2>2, <2>4 DEF IsLastShape
  <2>5. ASSUME NEW n \in DOMAIN object.shapes, n # item.name, NEW i \in DOMAIN KeptItems, IsLastShape(n, i)
        PROVE  IsLastShape(n, i)'
    BY <1>1, <1>5, <2>1, <2>2, <2>3, <2>5 DEF IsLastShape
  <2>6. \A n \in DOMAIN o.shapes : \E i \in DOMAIN KeptItems : IsLastShape(n, i)'
    BY <1>3, <2>2, <2>4, <2>5 DEF ShapesShape
  <2>7. \A j \in DOMAIN KeptItems :
          j < next' /\ KeptItems[j].op = "Shape" => KeptItems[j].name \in DOMAIN o.shapes
    BY <1>1, <2>2, <2>3 DEF ShapesShape
  <2>8. AsFunction(o.shapes)
    BY <1>4 DEF AsFunction, Inserted
  <2> QED
    BY <1>5, <2>1, <2>6, <2>7, <2>8 DEF ShapesShape, AsFunction
<1> QED
  BY <1>4, <1>5, <1>6, <1>7, <1>8 DEF Grew, UsedShape, IsObject

LEMMA GenImportKeeps ==
  ASSUME Base, ObjectShape, GenImport
  PROVE  ObjectShape' /\ Still /\ Grew
<1> USE DEF ObjectShape
<1>1. PICK item : item = KeptItems[next]
  OBVIOUS
<1>2. PICK sym : sym = Qualified(item.names[1], item.name)
  OBVIOUS
<1>3. PICK t : t = [object EXCEPT !.imports = Inserted(@, item.name, item.names[1])]
  OBVIOUS
<1>4. PICK o : o = Added(t, sym, "extern", item.n)
  OBVIOUS
<1>5. /\ pending = <<>> /\ next \in DOMAIN KeptItems /\ item.op = "Import" /\ Generated(o)
      /\ next \notin Defined
  BY <1>1, <1>2, <1>3, <1>4 DEF GenImport, Turn, Defined, IsGenerated
<1>6. /\ IsObject(t) /\ t.imports = Inserted(object.imports, item.name, item.names[1])
      /\ t.shapes = object.shapes /\ t.symbols = object.symbols /\ t.params = object.params
      /\ t.templates = object.templates /\ t.used = object.used
  BY <1>3 DEF IsObject
<1>7. /\ IsObject(o) /\ o.imports = t.imports /\ o.shapes = object.shapes
      /\ o.templates = object.templates /\ o.used = object.used
      /\ DOMAIN o.symbols = DOMAIN object.symbols \cup {sym}
      /\ \A y \in DOMAIN object.symbols : o.symbols[y] = object.symbols[y]
      /\ sym \notin DOMAIN object.symbols => o.symbols[sym] = "extern" /\ o.params[sym] = item.n
      /\ DOMAIN o.params = DOMAIN o.symbols
      /\ \A y \in DOMAIN object.symbols : o.params[y] = object.params[y]
  BY <1>4, <1>6, AddedFacts DEF ParamsShape
<1>8. /\ Still /\ Onward /\ object' = o /\ next' = next + 1 /\ FramesShape'
      /\ \A i \in Defined : Started(i)' /\ ~Started(i) => i = next
  BY <1>5, GeneratedFacts
<1>9. KeptItems' = KeptItems /\ DOMAIN KeptItems \subseteq Nat
  BY <1>8, KeptStays, KeptTyped DEF Still, Base
<1>10. ByImport(sym)'
  BY <1>1, <1>2, <1>5, <1>8, <1>9 DEF ByImport, Qualified
<1>11. SymbolsShape' /\ StartedShape'
  BY <1>5, <1>7, <1>8, <1>10, SymbolsGrow
<1>12. TemplatesShape' /\ ShapesShape'
  BY <1>1, <1>5, <1>7, <1>8, TemplatesStay, ShapesStay
<1>13. ParamsShape'
  <2>1. Def(next) = item /\ Arity(item) = item.n /\ Tells(sym, item.name)
    BY <1>1, <1>2, <1>5 DEF Def, Unwrap, Arity, Tells
  <2>2. HasArityOf(sym, item.n, next)
    BY <1>5, <2>1 DEF HasArityOf
  <2> QED
    BY <1>5, <1>7, <1>8, <2>2, ParamsStay
<1>14. ImportsShape'
  <2>1. /\ DOMAIN o.imports = DOMAIN object.imports \cup {item.name}
        /\ o.imports[item.name] = item.names[1]
        /\ \A n \in DOMAIN object.imports : n # item.name => o.imports[n] = object.imports[n]
    BY <1>6, <1>7 DEF Inserted
  <2>2. \A j \in DOMAIN KeptItems : j < next' <=> j < next \/ j = next
    BY <1>5, <1>8, <1>9
  <2>3. ASSUME NEW c, c = item.name
        PROVE  ImportedBefore(next, c)'
    <3>1. next \in 1 .. next' - 1
      BY <1>5, <1>8, KeptTyped DEF Base
    <3> QED
      BY <1>1, <1>5, <1>9, <2>3, <3>1 DEF ImportedBefore
  <2>4. ASSUME NEW c, ImportedBefore(next, c)
        PROVE  ImportedBefore(next, c)'
    <3>1. PICK j \in 1 .. next - 1 : KeptItems[j].op = "Import" /\ KeptItems[j].name = c
      BY <2>4 DEF ImportedBefore
    <3>2. j \in 1 .. next' - 1
      BY <1>5, <1>8, <1>9
    <3> QED
      BY <1>9, <3>1, <3>2 DEF ImportedBefore
  <2>5. \A c \in DOMAIN o.imports : Qualified(o.imports[c], c) \in DOMAIN o.symbols
    BY <1>2, <1>7, <2>1 DEF ImportsShape
  <2>6. \A c \in DOMAIN o.imports : ImportedBefore(next, c)'
    BY <2>1, <2>3, <2>4 DEF ImportsShape
  <2>7. \A j \in DOMAIN KeptItems :
          j < next' /\ KeptItems[j].op = "Import" => KeptItems[j].name \in DOMAIN o.imports
    BY <1>1, <2>1, <2>2 DEF ImportsShape
  <2> QED
    BY <1>8, <1>9, <2>5, <2>6, <2>7 DEF ImportsShape, Qualified
<1> QED
  BY <1>7, <1>8, <1>11, <1>12, <1>14, <1>13 DEF Grew, UsedShape, IsObject

\* The parts of GenFunction.
Unverified == ~BodyOK(Def(next), object.shapes, KnownFunctions(Def(next), object))

Unfitting == /\ ~IsTemplate(next) /\ SymbolOf(Def(next)) \in DOMAIN object.symbols
             /\ object.params[SymbolOf(Def(next))] < Len(Def(next).names)

StoresTemplate ==
  /\ IsTemplate(next)
  /\ Generated([Added(object, SymbolOf(Def(next)), "declared", 0)
                  EXCEPT !.templates = Inserted(@, SymbolOf(Def(next)), next)])

FirstFrame == Frame(next, [p \in DOMAIN Def(next).names |-> NoShape])

StartsBody ==
  /\ ~IsTemplate(next)
  /\ object' = [Added(object, SymbolOf(Def(next)), "defined", Len(Def(next).names))
                  EXCEPT !.symbols = Inserted(@, SymbolOf(Def(next)), "defined")]
  /\ pending' = <<FirstFrame>>
  /\ UNCHANGED <<pruneVars, stem, module, stage, next>>

\* A definition is a template, or the generation of its body begins.
LEMMA GenFunctionCases ==
  ASSUME GenFunction
  PROVE  \/ Unverified /\ Abort("unverified")
         \/ Unfitting /\ Abort("parameters")
         \/ StoresTemplate
         \/ StartsBody
  BY Zenon DEF GenFunction, Unverified, Unfitting, StoresTemplate, StartsBody, FirstFrame

LEMMA TemplateKeeps ==
  ASSUME Base, ObjectShape, pending = <<>>, next \in Defined, StoresTemplate
  PROVE  ObjectShape' /\ Still /\ Grew
<1> USE DEF ObjectShape
<1>1. PICK sym : sym = SymbolOf(Def(next))
  OBVIOUS
<1>2. PICK t : t = Added(object, sym, "declared", 0)
  OBVIOUS
<1>3. PICK o : o = [t EXCEPT !.templates = Inserted(@, sym, next)]
  OBVIOUS
<1>4. /\ IsObject(t) /\ t.shapes = object.shapes /\ t.imports = object.imports
      /\ t.templates = object.templates /\ t.used = object.used
      /\ DOMAIN t.symbols = DOMAIN object.symbols \cup {sym}
      /\ \A y \in DOMAIN object.symbols : t.symbols[y] = object.symbols[y]
      /\ sym \notin DOMAIN object.symbols => t.symbols[sym] = "declared"
      /\ DOMAIN t.params = DOMAIN t.symbols
      /\ \A y \in DOMAIN object.symbols : t.params[y] = object.params[y]
  BY <1>2, AddedFacts DEF ParamsShape
<1>5. /\ IsObject(o) /\ o.shapes = object.shapes /\ o.imports = object.imports
      /\ o.templates = Inserted(object.templates, sym, next)
      /\ o.used = object.used /\ o.symbols = t.symbols /\ o.params = t.params
  BY <1>3, <1>4 DEF IsObject
<1>6. /\ Generated(o) /\ IsTemplate(next) /\ next \in DOMAIN KeptItems
      /\ KeptItems[next].op \in {"Define", "Metadata"}
  BY <1>1, <1>2, <1>3 DEF Defined, IsGenerated, StoresTemplate
<1>7. /\ Still /\ Onward /\ object' = o /\ next' = next + 1 /\ FramesShape'
      /\ \A i \in Defined : Started(i)' /\ ~Started(i) => i = next
  BY <1>6, GeneratedFacts
<1>8. /\ Defined' = Defined
      /\ \A i : Def(i)' = Def(i) /\ IsTemplate(i)' = IsTemplate(i)
      /\ \A d : SymbolOf(d)' = SymbolOf(d)
  BY <1>7, KeptStays DEF Still
<1>9. Defined \subseteq Nat
  BY DefinedTyped DEF Base
<1>10. ByTemplate(sym)'
  BY <1>1, <1>6, <1>7, <1>8, <1>9 DEF ByTemplate
<1>11. SymbolsShape' /\ StartedShape'
  BY <1>1, <1>4, <1>5, <1>6, <1>7, <1>10, SymbolsGrow
<1>12. ImportsShape' /\ ShapesShape'
  BY <1>4, <1>5, <1>6, <1>7, ImportsStay, ShapesStay
<1>13. ParamsShape'
  <2>1. HasArityOf(sym, t.params[sym], next)
    BY <1>1, <1>6, DefinedTyped, SymbolTells DEF HasArityOf, Templates, Base
  <2> QED
    BY <1>4, <1>5, <1>6, <1>7, <2>1, ParamsStay
<1>14. TemplatesShape'
  <2>1. /\ DOMAIN o.templates = DOMAIN object.templates \cup {sym}
        /\ o.templates[sym] = next
        /\ \A s \in DOMAIN object.templates : s # sym => o.templates[s] = object.templates[s]
    BY <1>5 DEF Inserted
  <2>2. \A j \in Defined : j < next' <=> j < next \/ j = next
    BY <1>7, <1>9
  <2>3. ASSUME NEW s \in DOMAIN o.templates
        PROVE  /\ o.templates[s] \in Defined /\ o.templates[s] < next'
               /\ IsTemplate(o.templates[s]) /\ s = SymbolOf(Def(o.templates[s]))
    <3>1. CASE s = sym
      BY <1>1, <1>6, <2>1, <2>2, <3>1
    <3>2. CASE s # sym
      BY <2>1, <2>2, <3>2 DEF TemplatesShape
    <3> QED
      BY <3>1, <3>2
  <2>4. \A j \in Defined : j < next' /\ IsTemplate(j) => SymbolOf(Def(j)) \in DOMAIN o.templates
    BY <1>1, <2>1, <2>2 DEF TemplatesShape
  <2> QED
    BY <1>7, <1>8, <2>3, <2>4 DEF TemplatesShape
<1> QED
  BY <1>4, <1>5, <1>7, <1>11, <1>12, <1>14, <1>13 DEF Grew, UsedShape, IsObject

\* A frame of a definition, with shapes by its parameters.
LEMMA FrameTyped ==
  ASSUME NEW j \in Nat, NEW shapes \in ShapeMaps
  PROVE  /\ Frame(j, shapes) \in Frames /\ Frame(j, shapes).item = j
         /\ Frame(j, shapes).at = 1 /\ Frame(j, shapes).shapes = shapes
  BY DEF Frame, Frames

LEMMA FirstFrameTyped ==
  ASSUME Base, next \in Defined
  PROVE  /\ FirstFrame \in Frames /\ FirstFrame.item = next /\ FirstFrame.at = 1
         /\ DOMAIN FirstFrame.shapes = DOMAIN Def(next).names
         /\ \A p \in DOMAIN FirstFrame.shapes : FirstFrame.shapes[p] = NoShape
<1>1. next \in Nat /\ Def(next).names \in Seq(STRING)
  BY DefinedTyped DEF Base, WellParsed, Def, Defined
<1>2. PICK shapes : shapes = [p \in DOMAIN Def(next).names |-> NoShape]
  OBVIOUS
<1>3. DOMAIN Def(next).names \in SUBSET Nat
  <2>1. PICK names \in Seq(STRING) : names = Def(next).names
    BY <1>1
  <2> QED
    BY <2>1
<1>4. shapes \in [DOMAIN Def(next).names -> STRING \cup {NoShape}]
  BY <1>2
<1>5. shapes \in ShapeMaps
  BY <1>3, <1>4 DEF ShapeMaps
<1> QED
  BY <1>1, <1>2, <1>5, FrameTyped DEF FirstFrame

LEMMA StartKeeps ==
  ASSUME Base, ObjectShape, pending = <<>>, next \in Defined, StartsBody
  PROVE  ObjectShape' /\ Still /\ Grew
<1> USE DEF ObjectShape
<1>1. PICK sym : sym = SymbolOf(Def(next))
  OBVIOUS
<1>2. PICK t : t = Added(object, sym, "defined", Len(Def(next).names))
  OBVIOUS
<1>3. /\ IsObject(t) /\ t.shapes = object.shapes /\ t.imports = object.imports
      /\ t.templates = object.templates /\ t.used = object.used
      /\ DOMAIN t.symbols = DOMAIN object.symbols \cup {sym}
      /\ \A y \in DOMAIN object.symbols : t.symbols[y] = object.symbols[y]
      /\ sym \notin DOMAIN object.symbols => t.params[sym] = Len(Def(next).names)
      /\ DOMAIN t.params = DOMAIN t.symbols
      /\ \A y \in DOMAIN object.symbols : t.params[y] = object.params[y]
  BY <1>2, AddedFacts DEF ParamsShape
<1>4. PICK o : o = [t EXCEPT !.symbols = Inserted(@, sym, "defined")]
  OBVIOUS
<1>5. /\ IsObject(o) /\ o.shapes = object.shapes /\ o.imports = object.imports
      /\ o.templates = object.templates /\ o.used = object.used /\ o.params = t.params
      /\ DOMAIN o.symbols = DOMAIN object.symbols \cup {sym} /\ o.symbols[sym] = "defined"
      /\ \A y \in DOMAIN object.symbols : y # sym => o.symbols[y] = object.symbols[y]
  <2>1. /\ IsObject(o) /\ o.shapes = t.shapes /\ o.imports = t.imports /\ o.params = t.params
        /\ o.templates = t.templates /\ o.used = t.used
        /\ o.symbols = Inserted(t.symbols, sym, "defined")
    BY <1>4, <1>3 DEF IsObject
  <2>2. /\ DOMAIN o.symbols = DOMAIN t.symbols \cup {sym} /\ o.symbols[sym] = "defined"
        /\ \A y \in DOMAIN t.symbols : y # sym => o.symbols[y] = t.symbols[y]
    BY <2>1 DEF Inserted
  <2> QED
    BY <1>3, <2>1, <2>2
<1>6. /\ object' = o /\ Still /\ pending' = <<FirstFrame>> /\ next' = next
      /\ ~IsTemplate(next)
  BY <1>1, <1>4, <1>2 DEF Still, StartsBody
<1>7. next \in Nat /\ Defined \subseteq DOMAIN KeptItems
  BY DEF FramesShape, Defined
<1>8. Onward /\ pending' # <<>>
  BY <1>6, <1>7 DEF Onward
<1>9. /\ Defined' = Defined /\ KeptItems' = KeptItems
      /\ \A i : Def(i)' = Def(i) /\ IsTemplate(i)' = IsTemplate(i)
      /\ \A d : SymbolOf(d)' = SymbolOf(d)
  BY <1>6, KeptStays DEF Still
<1>10. Started(next)' /\ \A i \in Defined : Started(i)' /\ ~Started(i) => i = next
  BY <1>6, <1>8, <1>9 DEF Started
<1>11. ByFunction(sym)'
  BY <1>1, <1>6, <1>9, <1>10 DEF ByFunction
<1>12. SymbolsShape' /\ StartedShape'
  <2>1. \A s \in DOMAIN object'.symbols :
          \/ s \in DOMAIN object.symbols /\ object'.symbols[s] = object.symbols[s]
          \/ object'.symbols[s] = "defined" /\ ByFunction(s)'
    BY <1>5, <1>6, <1>11
  <2>2. \A i \in Defined : Started(i)' /\ ~Started(i) =>
          /\ SymbolOf(Def(i)) \in DOMAIN object'.symbols
          /\ ~IsTemplate(i) => object'.symbols[SymbolOf(Def(i))] = "defined"
    BY <1>1, <1>5, <1>6, <1>10
  <2>3. DOMAIN object.symbols \subseteq DOMAIN object'.symbols
    BY <1>5, <1>6
  <2> QED
    BY <1>6, <1>8, <2>1, <2>2, <2>3, SymbolsGrow
<1>13. ImportsShape' /\ TemplatesShape' /\ ShapesShape'
  BY <1>5, <1>6, <1>8, ImportsStay, TemplatesStay, ShapesStay
<1>14. FramesShape'
  <2>1. FirstFrame \in Frames /\ FirstFrame.item = next /\ FirstFrame.at = 1
    BY FirstFrameTyped
  <2>2. pending' \in Seq(Frames) /\ DOMAIN pending' = {1} /\ pending'[1] = FirstFrame
    BY <1>6, <2>1
  <2>3. 1 \in 1 .. Len(References(Def(next))) + 1
    BY DefinedTyped DEF Base
  <2> QED
    BY <1>6, <1>9, <2>1, <2>2, <2>3 DEF FramesShape
<1>15. ParamsShape'
  <2>1. HasArityOf(sym, Len(Def(next).names), next)
    BY <1>1, DefinedTyped, SymbolTells DEF HasArityOf, Arity, Base
  <2>2. ASSUME NEW s \in DOMAIN object'.symbols
        PROVE  \/ s \in DOMAIN object.symbols /\ object'.params[s] = object.params[s]
               \/ \E j \in DOMAIN KeptItems : HasArityOf(s, object'.params[s], j)
    <3>1. CASE s \in DOMAIN object.symbols
      BY <1>3, <1>5, <1>6, <3>1
    <3>2. CASE s \notin DOMAIN object.symbols
      <4>1. s = sym /\ object'.params[s] = Len(Def(next).names) /\ next \in DOMAIN KeptItems
        BY <1>3, <1>5, <1>6, <1>7, <2>2, <3>2
      <4> QED
        BY <2>1, <4>1
    <3> QED
      BY <3>1, <3>2
  <2>3. DOMAIN object'.params = DOMAIN object'.symbols
    BY <1>3, <1>5, <1>6
  <2> QED
    BY <1>6, <2>2, <2>3, ParamsStay
<1> QED
  BY <1>1, <1>5, <1>6, <1>12, <1>13, <1>14, <1>15 DEF Grew, UsedShape, IsObject

LEMMA TopFacts ==
  ASSUME Base, FramesShape, pending # <<>>
  PROVE  /\ pending \in Seq(Frames) /\ Len(pending) \in Nat /\ Len(pending) > 0
         /\ DOMAIN pending = 1 .. Len(pending) /\ Top = pending[Len(pending)]
         /\ Top \in Frames /\ Top.item \in Defined /\ Top.item =< next /\ next \in Nat
         /\ Started(Top.item)
         /\ Reading \in Seq(Lookup) /\ Len(Reading) \in Nat /\ DOMAIN Reading = 1 .. Len(Reading)
         /\ Top.at \in 1 .. Len(Reading) + 1
         /\ \A k \in DOMAIN Reading : Names(Reading[k]) => Reading[k].name \in UsedBy(Top.item)
<1>1. pending \in Seq(Frames) /\ next \in Nat
  BY DEF FramesShape
<1>2. /\ Len(pending) \in Nat /\ Len(pending) > 0 /\ DOMAIN pending = 1 .. Len(pending)
      /\ Len(pending) \in DOMAIN pending
  BY <1>1
<1>3. Top = pending[Len(pending)] /\ Top \in Frames
  BY <1>1, <1>2 DEF Top
<1>4. Top.item \in Defined /\ Top.at \in 1 .. Len(Reading) + 1
  BY <1>2, <1>3 DEF FramesShape, Reading
<1>5. Top.item = next \/ Top.item < next
  BY <1>2, <1>3 DEF FramesShape
<1>6. Top.item =< next /\ Started(Top.item)
  BY <1>1, <1>3, <1>4, <1>5 DEF Started, Frames
<1>7. /\ Reading \in Seq(Lookup) /\ Len(Reading) \in Nat /\ DOMAIN Reading = 1 .. Len(Reading)
      /\ \A k \in DOMAIN Reading : Names(Reading[k]) => Reading[k].name \in UsedBy(Top.item)
  BY <1>4, DefinedTyped DEF Reading, Base
<1> QED
  BY <1>1, <1>2, <1>3, <1>4, <1>6, <1>7

LEMMA AdvancedFacts ==
  ASSUME Base, FramesShape, pending # <<>>, Top.at \in DOMAIN Reading
  PROVE  /\ Advanced \in Seq(Frames) /\ Len(Advanced) = Len(pending)
         /\ DOMAIN Advanced = DOMAIN pending
         /\ \A k \in DOMAIN pending : /\ Advanced[k].item = pending[k].item
                                     /\ Advanced[k].shapes = pending[k].shapes
         /\ \A k \in DOMAIN pending : k # Len(pending) => Advanced[k] = pending[k]
         /\ Advanced[Len(pending)].at = Top.at + 1
         /\ \A k \in DOMAIN pending :
              Advanced[k].at \in 1 .. Len(References(Def(pending[k].item))) + 1
<1>1. /\ pending \in Seq(Frames) /\ Len(pending) \in Nat /\ Len(pending) > 0
      /\ DOMAIN pending = 1 .. Len(pending) /\ Top = pending[Len(pending)]
      /\ Len(Reading) \in Nat /\ DOMAIN Reading = 1 .. Len(Reading)
  BY TopFacts
<1>2. PICK n : n = Len(pending)
  OBVIOUS
<1>3. PICK f : f = [pending[n] EXCEPT !.at = @ + 1]
  OBVIOUS
<1>4. /\ pending[n] \in Frames /\ n \in DOMAIN pending
  BY <1>1, <1>2
<1>5. /\ f \in Frames /\ f.item = pending[n].item /\ f.shapes = pending[n].shapes
      /\ f.at = pending[n].at + 1
  BY <1>3, <1>4 DEF Frames
<1>6. Advanced = [pending EXCEPT ![n] = f]
  BY <1>2, <1>3 DEF Advanced
<1>7. /\ Advanced \in Seq(Frames) /\ Len(Advanced) = n /\ DOMAIN Advanced = DOMAIN pending
      /\ Advanced[n] = f /\ \A k \in DOMAIN pending : k # n => Advanced[k] = pending[k]
  BY <1>1, <1>2, <1>4, <1>5, <1>6
<1>8. f.at \in 1 .. Len(References(Def(pending[n].item))) + 1
  BY <1>1, <1>2, <1>5 DEF Reading
<1>9. \A k \in DOMAIN pending : pending[k].at \in 1 .. Len(References(Def(pending[k].item))) + 1
  BY DEF FramesShape
<1> QED
  BY <1>1, <1>2, <1>5, <1>7, <1>8, <1>9

\* The function on top of the frames goes on.
LEMMA ReadOn ==
  ASSUME Base, FramesShape, pending # <<>>, Top.at \in DOMAIN Reading,
         Still, next' = next, pending' = Advanced
  PROVE  FramesShape' /\ Onward /\ \A i : Started(i)' => Started(i)
<1>1. /\ pending' \in Seq(Frames) /\ DOMAIN pending' = DOMAIN pending /\ Len(pending') = Len(pending)
      /\ \A k \in DOMAIN pending : pending'[k].item = pending[k].item
      /\ \A k \in DOMAIN pending : pending'[k].at \in 1 .. Len(References(Def(pending[k].item))) + 1
  BY AdvancedFacts
<1>2. /\ KeptItems' = KeptItems /\ Defined' = Defined
      /\ \A i : Def(i)' = Def(i) /\ IsTemplate(i)' = IsTemplate(i)
  BY KeptStays DEF Still
<1>3. /\ next \in Nat /\ Len(pending) \in Nat /\ Len(pending) > 0 /\ DOMAIN pending = 1 .. Len(pending)
  BY TopFacts
<1>4. pending' # <<>> /\ 1 \in DOMAIN pending
  BY <1>1, <1>3
<1>5. /\ next' \in 1 .. Len(KeptItems') + 1
      /\ pending'[1].item = next' /\ ~IsTemplate(next)
  BY <1>1, <1>2, <1>4 DEF FramesShape
<1>6. \A k \in DOMAIN pending' :
        /\ pending'[k].item \in Defined
        /\ pending'[k].at \in 1 .. Len(References(Def(pending'[k].item))) + 1
        /\ k # 1 => pending'[k].item < next' /\ IsTemplate(pending'[k].item)
  BY <1>1 DEF FramesShape
<1>7. FramesShape'
  BY <1>1, <1>2, <1>5, <1>6 DEF FramesShape
<1> QED
  BY <1>2, <1>3, <1>4, <1>7 DEF Onward, Started

\* A reference that is not found is to the private symbol of a name that is
\* not imported, and not defined so far.
LEMMA NotFound ==
  ASSUME Base, ObjectShape, NEW m \in Defined, Started(m), NEW c, NEW sym,
         sym = Resolve(c, object), sym \notin DOMAIN object.symbols
  PROVE  /\ sym = Private(c) /\ ~ImportedBefore(m, c)
         /\ \A j \in Defined : Def(j).name = c => m < j
<1> USE DEF ObjectShape
<1>1. /\ sym = Private(c) /\ c \notin DOMAIN object.imports
      /\ Qualified(stem, c) \notin DOMAIN object.symbols /\ Plain(c) \notin DOMAIN object.symbols
  BY ResolveFacts DEF ImportsShape
<1>2. /\ Defined \subseteq Nat /\ next \in Nat /\ m =< next
      /\ DOMAIN KeptItems = 1 .. Len(KeptItems) /\ Len(KeptItems) \in Nat
  BY DefinedTyped, KeptTyped DEF Base, FramesShape, Started
<1>3. ~ImportedBefore(m, c)
  <2>1. SUFFICES ASSUME NEW j \in 1 .. m - 1, KeptItems[j].op = "Import", KeptItems[j].name = c
                 PROVE  FALSE
    BY DEF ImportedBefore
  <2>2. j \in DOMAIN KeptItems /\ j < next
    BY <1>2, DefinedTyped DEF Base
  <2> QED
    BY <1>1, <2>1, <2>2 DEF ImportsShape
<1>4. ASSUME NEW j \in Defined, Def(j).name = c, ~(m < j)
      PROVE  FALSE
  <2>1. Started(j)
    BY <1>2, <1>4 DEF Started
  <2>2. SymbolOf(Def(j)) \in DOMAIN object.symbols
    BY <2>1 DEF StartedShape
  <2>3. SymbolOf(Def(j)) = Private(c) \/ SymbolOf(Def(j)) = Qualified(stem, c)
    BY <1>4, SymbolTellsName
  <2> QED
    BY <1>1, <2>2, <2>3
<1> QED
  BY <1>1, <1>3, <1>4

LEMMA MaxFacts ==
  ASSUME NEW S \in SUBSET Nat, IsFiniteSet(S), S # {}
  PROVE  /\ Max(S) \in S /\ \A y \in S : y =< Max(S)
         /\ \A x \in S : (\A y \in S : y =< x) => x = Max(S)
<1>1. Cardinality(S) \in Nat /\ Cardinality(S) # 0
  BY FS_CardinalityType, FS_EmptySet
<1>2. PICK n \in S : Rank(S, n) = Cardinality(S)
  <2>1. Cardinality(S) \in 1 .. Cardinality(S)
    BY <1>1
  <2>2. \A k \in 1 .. Cardinality(S) : Nth(S, k) \in S /\ Rank(S, Nth(S, k)) = k
    BY Ranks
  <2> QED
    BY <2>1, <2>2
<1>3. ASSUME NEW y \in S
      PROVE  n >= y
  <2>1. Rank(S, y) \in 1 .. Cardinality(S)
    BY Ranks
  <2>2. n < y => Rank(S, n) < Rank(S, y)
    BY Ranks
  <2> QED
    BY <1>1, <1>2, <2>1, <2>2
<1>4. Max(S) \in S /\ \A y \in S : Max(S) >= y
  BY <1>3 DEF Max
<1>5. ASSUME NEW x \in S, \A y \in S : y =< x
      PROVE  x = Max(S)
  <2>1. x \in Nat /\ Max(S) \in Nat /\ Max(S) =< x /\ x =< Max(S)
    BY <1>4, <1>5
  <2> QED
    BY <2>1
<1> QED
  BY <1>4, <1>5

\* Of the definitions of a name, if there are some, one is the last.
LEMMA LastDefine ==
  ASSUME Base, NEW c, DefinesOf(c) # {}
  PROVE  /\ Max(DefinesOf(c)) \in DOMAIN KeptItems
         /\ Def(Max(DefinesOf(c))).op = "Define" /\ Def(Max(DefinesOf(c))).name = c
<1>1. DOMAIN KeptItems = 1 .. Len(KeptItems) /\ Len(KeptItems) \in Nat
  BY KeptTyped DEF Base
<1>2. DefinesOf(c) \in SUBSET (1 .. Len(KeptItems)) /\ IsFiniteSet(1 .. Len(KeptItems))
  BY <1>1, FS_Interval DEF DefinesOf
<1>3. Max(DefinesOf(c)) \in DefinesOf(c)
  BY <1>2, FS_Subset, MaxFacts
<1> QED
  BY <1>3 DEF DefinesOf

LEMMA UseKeeps ==
  ASSUME Base, ObjectShape, pending # <<>>, Top.at \in DOMAIN Reading, Names(Reading[Top.at]),
         NEW sym, sym = Resolve(Reading[Top.at].name, object),
         sym \in DOMAIN object.symbols \/ DefinesOf(Reading[Top.at].name) # {},
         object' = Using(Added(object, sym, "declared", ArityOf(Reading[Top.at].name)), sym),
         Still, next' = next, pending' = Advanced
  PROVE  ObjectShape' /\ Still /\ Grew
<1> USE DEF ObjectShape
<1>1. PICK c : c = Reading[Top.at].name
  OBVIOUS
<1>2. PICK m : m = Top.item
  OBVIOUS
<1>3. m \in Defined /\ Started(m) /\ c \in UsedBy(m)
  BY <1>1, <1>2, TopFacts
<1>4. PICK t : t = Added(object, sym, "declared", ArityOf(c))
  OBVIOUS
<1>5. /\ IsObject(t) /\ t.shapes = object.shapes /\ t.imports = object.imports
      /\ t.templates = object.templates /\ t.used = object.used
      /\ DOMAIN t.symbols = DOMAIN object.symbols \cup {sym}
      /\ \A y \in DOMAIN object.symbols : t.symbols[y] = object.symbols[y]
      /\ sym \notin DOMAIN object.symbols => t.symbols[sym] = "declared" /\ t.params[sym] = ArityOf(c)
      /\ DOMAIN t.params = DOMAIN t.symbols
      /\ \A y \in DOMAIN object.symbols : t.params[y] = object.params[y]
  BY <1>4, AddedFacts DEF ParamsShape
<1>6. PICK o : o = Using(t, sym)
  OBVIOUS
<1>7. /\ IsObject(o) /\ o.shapes = object.shapes /\ o.imports = object.imports
      /\ o.templates = object.templates /\ o.symbols = t.symbols /\ o.used = object.used \cup {sym}
      /\ o.params = t.params
  BY <1>5, <1>6, UsingFacts
<1>8. object' = o
  BY <1>1, <1>4, <1>6
<1>9. FramesShape' /\ Onward /\ \A i : Started(i)' => Started(i)
  BY ReadOn
<1>10. sym \notin DOMAIN object.symbols => ByCall(sym)'
  <2>1. SUFFICES ASSUME sym \notin DOMAIN object.symbols
                 PROVE  ByCall(sym)
    BY <1>9, OriginsStay
  <2>2. /\ sym = Private(c) /\ ~ImportedBefore(m, c)
        /\ \A j \in Defined : Def(j).name = c => m < j
    BY <1>1, <1>3, <2>1, NotFound
  <2> QED
    BY <1>3, <2>2 DEF ByCall
<1>11. SymbolsShape' /\ StartedShape'
  <2>1. \A s \in DOMAIN object'.symbols :
          \/ s \in DOMAIN object.symbols /\ object'.symbols[s] = object.symbols[s]
          \/ s \notin DOMAIN object.symbols /\ object'.symbols[s] = "declared" /\ ByCall(s)'
    BY <1>5, <1>7, <1>8, <1>10
  <2> QED
    BY <1>5, <1>7, <1>8, <1>9, <2>1, SymbolsGrow
<1>12. ImportsShape' /\ TemplatesShape' /\ ShapesShape'
  BY <1>5, <1>7, <1>8, <1>9, ImportsStay, TemplatesStay, ShapesStay
<1>13. ParamsShape'
  <2>1. ASSUME sym \notin DOMAIN object.symbols
        PROVE  \E j \in DOMAIN KeptItems : HasArityOf(sym, ArityOf(c), j)
    <3>1. PICK j : j = Max(DefinesOf(c))
      OBVIOUS
    <3>2. j \in DOMAIN KeptItems /\ Def(j).op = "Define" /\ Def(j).name = c
      BY <1>1, <2>1, <3>1, LastDefine
    <3>3. ArityOf(c) = Arity(Def(j)) /\ Tells(sym, c)
      BY <1>1, <3>1, <3>2, ResolveFacts DEF ArityOf, Arity, Tells, ImportsShape
    <3> QED
      BY <3>2, <3>3 DEF HasArityOf
  <2> QED
    BY <1>5, <1>7, <1>8, <2>1, ParamsStay
<1> QED
  BY <1>5, <1>7, <1>8, <1>9, <1>11, <1>12, <1>13 DEF Grew, UsedShape, IsObject

LEMMA GenValueKeeps ==
  ASSUME Base, ObjectShape, GenValue
  PROVE  (ObjectShape' /\ Still /\ Grew) \/ Aborts
<1>1. SUFFICES ASSUME ~Aborts
               PROVE  ObjectShape' /\ Still /\ Grew
  OBVIOUS
<1>2. PICK sym : sym = Resolve(Reading[Top.at].name, object)
  OBVIOUS
<1>3. /\ pending # <<>> /\ Top.at \in DOMAIN Reading /\ Names(Reading[Top.at])
      /\ sym \in DOMAIN object.symbols /\ object' = Using(object, sym)
      /\ pending' = Advanced /\ Still /\ next' = next
  BY <1>1, <1>2 DEF GenValue, Reads, Still, Aborts, Failures, Names
<1>4. Added(object, sym, "declared", ArityOf(Reading[Top.at].name)) = object
  BY <1>3 DEF Added
<1> QED
  BY <1>2, <1>3, <1>4, UseKeeps

\* A template is pushed; it is before the function that is generated.
LEMMA ExpandKeeps ==
  ASSUME Base, ObjectShape, pending # <<>>, Top.at \in DOMAIN Reading, Still,
         NEW j, j \in Defined, j < next, IsTemplate(j), NEW shapes \in ShapeMaps,
         pending' = Append(Advanced, Frame(j, shapes)), UNCHANGED <<next, object>>
  PROVE  ObjectShape' /\ Still /\ Grew
<1> USE DEF ObjectShape
<1>1. /\ Advanced \in Seq(Frames) /\ Len(Advanced) = Len(pending)
      /\ DOMAIN Advanced = DOMAIN pending
      /\ \A k \in DOMAIN pending : Advanced[k].item = pending[k].item
      /\ \A k \in DOMAIN pending :
           Advanced[k].at \in 1 .. Len(References(Def(pending[k].item))) + 1
  BY AdvancedFacts
<1>2. /\ next \in Nat /\ Len(pending) \in Nat /\ Len(pending) > 0
      /\ DOMAIN pending = 1 .. Len(pending)
  BY TopFacts
<1>3. /\ j \in Nat /\ 1 \in 1 .. Len(References(Def(j))) + 1
      /\ Frame(j, shapes) \in Frames /\ Frame(j, shapes).item = j /\ Frame(j, shapes).at = 1
  <2>1. j \in Nat /\ 1 \in 1 .. Len(References(Def(j))) + 1
    BY DefinedTyped DEF Base
  <2> QED
    BY <2>1, FrameTyped
<1>4. /\ pending' \in Seq(Frames) /\ DOMAIN pending' = 1 .. Len(pending) + 1
      /\ pending'[Len(pending) + 1] = Frame(j, shapes)
      /\ \A k \in DOMAIN pending : pending'[k] = Advanced[k]
  BY <1>1, <1>2, <1>3
<1>5. /\ Defined' = Defined /\ KeptItems' = KeptItems
      /\ \A i : Def(i)' = Def(i) /\ IsTemplate(i)' = IsTemplate(i)
  BY KeptStays DEF Still
<1>6. pending' # <<>> /\ pending'[1].item = next /\ ~IsTemplate(next) /\ Onward
  <2>1. 1 \in DOMAIN pending /\ 1 \in DOMAIN pending'
    BY <1>2, <1>4
  <2> QED
    BY <1>1, <1>2, <1>4, <2>1 DEF FramesShape, Onward
<1>7. ASSUME NEW k \in DOMAIN pending'
      PROVE  /\ pending'[k].item \in Defined
             /\ pending'[k].at \in 1 .. Len(References(Def(pending'[k].item))) + 1
             /\ k # 1 => pending'[k].item < next /\ IsTemplate(pending'[k].item)
  <2>1. CASE k \in DOMAIN pending
    BY <1>1, <1>4, <2>1 DEF FramesShape
  <2>2. CASE k = Len(pending) + 1
    BY <1>3, <1>4, <2>2
  <2> QED
    BY <1>2, <1>4, <2>1, <2>2
<1>8. FramesShape'
  BY <1>4, <1>5, <1>6, <1>7 DEF FramesShape
<1>9. \A i : Started(i)' => Started(i)
  BY <1>5 DEF Started
<1>10. SymbolsShape' /\ StartedShape'
  BY <1>6, <1>9, SymbolsGrow
<1>11. ImportsShape' /\ TemplatesShape' /\ ShapesShape' /\ ParamsShape'
  BY <1>6, ImportsStay, TemplatesStay, ShapesStay, ParamsStay DEF ParamsShape
<1> QED
  BY <1>8, <1>10, <1>11 DEF Grew, UsedShape

\* The shapes of what is passed are by the parameters.
LEMMA PassedTyped ==
  ASSUME Base, FramesShape, pending # <<>>, Top.at \in DOMAIN Reading, NEW define
  PROVE  /\ Passed(Reading[Top.at], define) \in ShapeMaps
         /\ DOMAIN Passed(Reading[Top.at], define) = DOMAIN Reading[Top.at].of \cap DOMAIN define.names
<1>1. PICK call : call = Reading[Top.at]
  OBVIOUS
<1>2. call \in Lookup /\ Top \in Frames
  BY <1>1, TopFacts
<1>3. PICK S : S = DOMAIN call.of \cap DOMAIN define.names
  OBVIOUS
<1>4. S \in SUBSET Nat /\ \A p \in S : call.of[p] \in Sources
  <2>1. PICK of \in Seq(Sources) : of = call.of
    BY <1>2 DEF Lookup
  <2> QED
    BY <1>3, <2>1
<1>5. Top.shapes \in ShapeMaps
  BY <1>2 DEF Frames
<1>6. \A p \in DOMAIN Top.shapes : Top.shapes[p] \in STRING \cup {NoShape}
  BY <1>5 DEF ShapeMaps
<1>7. \A p \in S : ShapeHere(call.of[p]) \in STRING \cup {NoShape}
  BY <1>4, <1>6 DEF ShapeHere, Sources
<1>8. Passed(call, define) = [p \in S |-> ShapeHere(call.of[p])]
  BY <1>3 DEF Passed
<1>9. Passed(call, define) \in [S -> STRING \cup {NoShape}]
  BY <1>7, <1>8
<1> QED
  BY <1>1, <1>3, <1>4, <1>8, <1>9 DEF ShapeMaps

\* A call, a template is expanded or a function is used.
LEMMA GenCallCases ==
  ASSUME GenCall, NEW sym, sym = Resolve(Reading[Top.at].name, object)
  PROVE  /\ stage = "generate" /\ pending # <<>> /\ Top.at \in DOMAIN Reading
         /\ Reading[Top.at].how = "call"
         /\ \/ /\ sym \in DOMAIN object.templates
               /\ \E k \in DOMAIN pending : pending[k].item = object.templates[sym]
               /\ Abort("endless")
            \/ /\ sym \in DOMAIN object.templates
               /\ ~\E k \in DOMAIN pending : pending[k].item = object.templates[sym]
               /\ pending' = Append(Advanced,
                    Frame(object.templates[sym], Passed(Reading[Top.at], Def(object.templates[sym]))))
               /\ UNCHANGED <<pruneVars, stem, module, stage, next, object>>
            \/ /\ sym \notin DOMAIN object.templates /\ sym \notin DOMAIN object.symbols
               /\ DefinesOf(Reading[Top.at].name) = {} /\ Abort("unknown")
            \/ /\ sym \notin DOMAIN object.templates
               /\ sym \in DOMAIN object.symbols \/ DefinesOf(Reading[Top.at].name) # {}
               /\ object' = Using(Added(object, sym, "declared", ArityOf(Reading[Top.at].name)), sym)
               /\ pending' = Advanced
               /\ UNCHANGED <<pruneVars, stem, module, stage, next>>
  BY Zenon DEF GenCall, Reads

LEMMA GenCallKeeps ==
  ASSUME Base, ObjectShape, GenCall
  PROVE  (ObjectShape' /\ Still /\ Grew) \/ Aborts
<1>1. SUFFICES ASSUME ~Aborts
               PROVE  ObjectShape' /\ Still /\ Grew
  OBVIOUS
<1>2. PICK sym : sym = Resolve(Reading[Top.at].name, object)
  OBVIOUS
<1>3. ~Abort("endless") /\ ~Abort("unknown")
  BY <1>1 DEF Aborts, Failures
<1>4. pending # <<>> /\ Top.at \in DOMAIN Reading /\ Names(Reading[Top.at])
  BY <1>2, GenCallCases DEF Names
<1>5. CASE sym \notin DOMAIN object.templates
  <2>1. /\ sym \in DOMAIN object.symbols \/ DefinesOf(Reading[Top.at].name) # {}
        /\ object' = Using(Added(object, sym, "declared", ArityOf(Reading[Top.at].name)), sym)
        /\ pending' = Advanced /\ Still /\ next' = next
    BY <1>2, <1>3, <1>5, GenCallCases DEF Still
  <2> QED
    BY <1>2, <1>4, <2>1, UseKeeps
<1>6. CASE sym \in DOMAIN object.templates
  <2>1. PICK j : j = object.templates[sym]
    OBVIOUS
  <2>2. /\ pending' = Append(Advanced, Frame(j, Passed(Reading[Top.at], Def(j))))
        /\ Still /\ UNCHANGED <<next, object>>
    BY <1>2, <1>3, <1>6, <2>1, GenCallCases DEF Still
  <2>3. j \in Defined /\ j < next /\ IsTemplate(j)
    BY <1>6, <2>1 DEF ObjectShape, TemplatesShape
  <2>4. Passed(Reading[Top.at], Def(j)) \in ShapeMaps
    BY <1>4, PassedTyped DEF ObjectShape
  <2> QED
    BY <1>4, <2>2, <2>3, <2>4, ExpandKeeps
<1> QED
  BY <1>5, <1>6

LEMMA EndBodyFacts ==
  ASSUME Base, FramesShape, EndBody
  PROVE  /\ Still /\ Onward /\ UNCHANGED object /\ FramesShape'
         /\ \A i : Started(i)' => Started(i)
         /\ next' # next => next \in Defined /\ ~IsTemplate(next) /\ Len(pending) = 1 /\ pending' = <<>>
         /\ next' = next => Len(pending) > 1
         /\ pending' \in Seq(Frames) /\ Len(pending') = Len(pending) - 1
         /\ \A k \in 1 .. Len(pending) - 1 : pending'[k] = pending[k]
<1>1. /\ pending # <<>> /\ pending' = SubSeq(pending, 1, Len(pending) - 1)
      /\ next' = IF Len(pending) = 1 THEN next + 1 ELSE next
      /\ Still /\ UNCHANGED object
  BY DEF EndBody, Still
<1>2. /\ pending \in Seq(Frames) /\ next \in Nat /\ Len(pending) \in Nat /\ Len(pending) > 0
      /\ DOMAIN pending = 1 .. Len(pending)
  BY <1>1, TopFacts
<1>3. /\ pending' \in Seq(Frames) /\ Len(pending') = Len(pending) - 1
      /\ DOMAIN pending' = 1 .. Len(pending) - 1
      /\ \A k \in 1 .. Len(pending) - 1 : pending'[k] = pending[k]
  BY <1>1, <1>2
<1>4. /\ Defined' = Defined /\ KeptItems' = KeptItems /\ Defined \subseteq Nat
      /\ \A i : Def(i)' = Def(i) /\ IsTemplate(i)' = IsTemplate(i)
  BY <1>1, KeptStays, DefinedTyped DEF Still, Base
<1>5. next \in Defined /\ ~IsTemplate(next)
  BY <1>1, <1>2 DEF FramesShape
<1>6. next + 1 \in 1 .. Len(KeptItems) + 1 /\ next \in 1 .. Len(KeptItems) + 1
  BY <1>5, DefinedTyped DEF Base
<1>7. CASE Len(pending) = 1
  <2>1. pending' = <<>> /\ next' = next + 1
    BY <1>1, <1>3, <1>7
  <2>2. FramesShape'
    BY <1>4, <1>6, <2>1 DEF FramesShape
  <2>3. \A i : Started(i)' => Started(i)
    BY <1>1, <1>2, <1>4, <2>1 DEF Started
  <2> QED
    BY <1>1, <1>2, <1>3, <1>5, <1>7, <2>1, <2>2, <2>3 DEF Onward
<1>8. CASE Len(pending) # 1
  <2>1. next' = next /\ pending' # <<>> /\ Len(pending) > 1 /\ 1 \in 1 .. Len(pending) - 1
    <3>1. next' = next /\ Len(pending) > 1 /\ 1 \in 1 .. Len(pending) - 1
      BY <1>1, <1>2, <1>8
    <3>2. 1 \in DOMAIN pending'
      BY <1>3, <3>1
    <3> QED
      BY <3>1, <3>2
  <2>2. pending'[1].item = next' /\ ~IsTemplate(next)
    <3>1. pending[1].item = next
      BY <1>1 DEF FramesShape
    <3>2. pending'[1] = pending[1]
      BY <1>3, <2>1
    <3> QED
      BY <1>5, <2>1, <3>1, <3>2
  <2>3. \A k \in DOMAIN pending' :
          /\ pending'[k].item \in Defined
          /\ pending'[k].at \in 1 .. Len(References(Def(pending'[k].item))) + 1
          /\ k # 1 => pending'[k].item < next' /\ IsTemplate(pending'[k].item)
    <3> TAKE k \in DOMAIN pending'
    <3>1. k \in DOMAIN pending /\ pending'[k] = pending[k]
      BY <1>2, <1>3
    <3>2. PICK frame : frame = pending[k]
      OBVIOUS
    <3>3. /\ frame.item \in Defined
          /\ frame.at \in 1 .. Len(References(Def(frame.item))) + 1
          /\ k # 1 => frame.item < next /\ IsTemplate(frame.item)
      BY <1>1, <3>1, <3>2 DEF FramesShape
    <3> QED
      BY <2>1, <3>1, <3>2, <3>3
  <2>4. FramesShape'
    BY <1>3, <1>4, <1>6, <2>1, <2>2, <2>3 DEF FramesShape
  <2>5. \A i : Started(i)' => Started(i)
    BY <1>1, <1>4, <2>1 DEF Started
  <2> QED
    BY <1>1, <1>2, <1>3, <2>1, <2>4, <2>5 DEF Onward
<1> QED
  BY <1>7, <1>8

LEMMA EndBodyKeeps ==
  ASSUME Base, ObjectShape, EndBody
  PROVE  ObjectShape' /\ Still /\ Grew
<1> USE DEF ObjectShape
<1>1. /\ Still /\ Onward /\ UNCHANGED object /\ FramesShape'
      /\ \A i : Started(i)' => Started(i)
      /\ next' # next => next \in Defined /\ ~IsTemplate(next)
  BY EndBodyFacts
<1>2. SymbolsShape' /\ StartedShape'
  BY <1>1, SymbolsGrow
<1>3. next \in Defined => KeptItems[next].op \in {"Define", "Metadata"}
  BY DEF Defined, IsGenerated
<1>4. ImportsShape' /\ TemplatesShape' /\ ShapesShape' /\ ParamsShape'
  BY <1>1, <1>3, ImportsStay, TemplatesStay, ShapesStay, ParamsStay DEF ParamsShape
<1> QED
  BY <1>1, <1>2, <1>4 DEF Grew, UsedShape

\* Only the verdict changes.
LEMMA SameObject ==
  ASSUME ObjectShape, UNCHANGED <<pruneVars, stem, module, next, object, pending>>
  PROVE  ObjectShape'
<1>1. /\ KeptItems' = KeptItems /\ Defined' = Defined
      /\ \A i : Def(i)' = Def(i) /\ IsTemplate(i)' = IsTemplate(i) /\ UsedBy(i)' = UsedBy(i)
      /\ \A i, c : ImportedBefore(i, c)' = ImportedBefore(i, c)
      /\ \A c : Private(c)' = Private(c)
      /\ \A d : SymbolOf(d)' = SymbolOf(d)
  BY KeptStays
<1>2. \A i : Started(i)' = Started(i)
  BY <1>1 DEF Started
<1>3. IsObject(object)' /\ FramesShape' /\ UsedShape'
  BY <1>1 DEF ObjectShape, IsObject, FramesShape, UsedShape
<1>4. SymbolsShape'
  <2>1. \A s : /\ ByFunction(s) => ByFunction(s)'
               /\ ByImport(s) => ByImport(s)'
               /\ ByTemplate(s) => ByTemplate(s)'
               /\ ByCall(s) => ByCall(s)'
    BY <1>1, <1>2 DEF ByFunction, ByImport, ByTemplate, ByCall, Qualified
  <2> QED
    BY <2>1 DEF ObjectShape, SymbolsShape
<1>5. StartedShape'
  BY <1>1, <1>2 DEF ObjectShape, StartedShape
<1>6. ImportsShape'
  BY <1>1 DEF ObjectShape, ImportsShape, Qualified
<1>7. TemplatesShape'
  BY <1>1 DEF ObjectShape, TemplatesShape
<1>8. ShapesShape'
  BY <1>1 DEF ObjectShape, ShapesShape, AsFunction, IsLastShape
<1>9. ParamsShape'
  BY ParamsStay DEF ObjectShape, ParamsShape, Still
<1> QED
  BY <1>3, <1>4, <1>5, <1>6, <1>7, <1>8, <1>9 DEF ObjectShape

\* What is looked up in what is known already: the generator goes on.
ReadsLocally == GenExpand \/ GenField \/ GenMove \/ GenOperator

LEMMA ReadsLocallyCases ==
  ASSUME ReadsLocally
  PROVE  /\ stage = "generate" /\ pending # <<>> /\ Top.at \in DOMAIN Reading
         /\ ~Names(Reading[Top.at])
         /\ \/ Goes
            \/ /\ Reading[Top.at].how = "expand" /\ Abort("arguments")
               /\ Reading[Top.at].of[1].param \notin DOMAIN Top.shapes
            \/ Reading[Top.at].how = "field" /\ Abort("field") /\ ~HasFieldHere(Reading[Top.at])
            \/ Abort("typed")
  BY DEF ReadsLocally, GenExpand, GenField, GenMove, GenOperator, Reads, Names

LEMMA GoesKeeps ==
  ASSUME Base, ObjectShape, pending # <<>>, Top.at \in DOMAIN Reading, Goes
  PROVE  ObjectShape' /\ Still /\ Grew
<1> USE DEF ObjectShape
<1>1. Still /\ next' = next /\ pending' = Advanced /\ object' = object
  BY DEF Goes, Still
<1>2. FramesShape' /\ Onward /\ \A i : Started(i)' => Started(i)
  BY <1>1, ReadOn
<1>3. SymbolsShape' /\ StartedShape'
  BY <1>1, <1>2, SymbolsGrow
<1>4. ImportsShape' /\ TemplatesShape' /\ ShapesShape' /\ ParamsShape'
  BY <1>1, <1>2, ImportsStay, TemplatesStay, ShapesStay, ParamsStay DEF ParamsShape
<1> QED
  BY <1>1, <1>2, <1>3, <1>4 DEF Grew, UsedShape

LEMMA ReadsLocallyKeeps ==
  ASSUME Base, ObjectShape, ReadsLocally
  PROVE  (ObjectShape' /\ Still /\ Grew) \/ Aborts
<1>1. Abort("arguments") \/ Abort("field") \/ Abort("typed") => Aborts
  BY DEF Aborts, Failures
<1> QED
  BY <1>1, ReadsLocallyCases, GoesKeeps

\* A step of the generator that does not abort.
LEMMA GenerateKeeps ==
  ASSUME Base, ObjectShape, Generate, ~Aborts
  PROVE  ObjectShape' /\ Still /\ Grew
<1>1. CASE GenShape
  BY <1>1, GenShapeKeeps
<1>2. CASE GenImport
  BY <1>2, GenImportKeeps
<1>3. ASSUME pending = <<>>, next \in Defined, GenFunction
      PROVE  ObjectShape' /\ Still /\ Grew
  <2>1. StoresTemplate \/ StartsBody
    BY <1>3, GenFunctionCases DEF Aborts, Failures
  <2> QED
    BY <1>3, <2>1, TemplateKeeps, StartKeeps
<1>4. CASE GenDefine
  <2>1. pending = <<>> /\ next \in Defined /\ GenFunction
    BY <1>4 DEF GenDefine, Turn, Defined, IsGenerated
  <2> QED
    BY <1>3, <2>1
<1>5. CASE GenMetadata
  <2>1. /\ pending = <<>> /\ next \in DOMAIN KeptItems /\ KeptItems[next].op = "Metadata"
        /\ IF IsGenerated(next) THEN GenFunction ELSE Generated(object)
    BY <1>5 DEF GenMetadata, Turn
  <2>2. CASE IsGenerated(next)
    BY <1>3, <2>1, <2>2 DEF Defined
  <2>3. CASE ~IsGenerated(next)
    BY <2>1, <2>3, PassKeeps DEF Defined
  <2> QED
    BY <2>2, <2>3
<1>6. CASE GenOther
  <2>1. next \notin Defined
    BY <1>6 DEF GenOther, Defined, IsGenerated
  <2> QED
    BY <1>6, <2>1, PassKeeps DEF GenOther
<1>7. CASE GenCall
  BY <1>7, GenCallKeeps
<1>8. CASE GenValue
  BY <1>8, GenValueKeeps
<1>9. CASE EndBody
  BY <1>9, EndBodyKeeps
<1>10. CASE EmitObject
  BY <1>10, SameObject DEF EmitObject, Still, Grew
<1>11. CASE ReadsLocally
  BY <1>11, ReadsLocallyKeeps
<1>12. ~GenShifted
  BY DEF GenShifted, Aborts, Failures
<1> QED
  BY <1>1, <1>2, <1>4, <1>5, <1>6, <1>7, <1>8, <1>9, <1>10, <1>11, <1>12 DEF Generate, ReadsLocally

-----------------------------------------------------------------------------
(* Without templates.                                                      *)

\* Where a symbol that is not missing can come from.
LEMMA NotOfTheName ==
  ASSUME Base, ObjectShape, NoTemplates, next \in Defined, NEW c, ~Finds(next, c),
         NEW s, s \in DOMAIN object.symbols,
         s = Private(c) \/ s = Plain(c) \/ s = Qualified(stem, c)
  PROVE  s = Private(c) /\ object.symbols[s] = "declared"
<1> USE DEF ObjectShape
<1>1. /\ ~ImportedBefore(next, c)
      /\ \A j \in Defined : Def(j).name = c => ~(j =< next)
  BY DEF Finds, NoTemplates
<1>2. DOMAIN KeptItems = 1 .. Len(KeptItems) /\ Len(KeptItems) \in Nat /\ next \in Nat /\ Defined \subseteq Nat
  BY KeptTyped, DefinedTyped DEF Base, FramesShape
<1>3. ~ByFunction(s)
  <2>1. SUFFICES ASSUME NEW i \in Defined, Started(i), s = SymbolOf(Def(i))
                 PROVE  FALSE
    BY DEF ByFunction
  <2>2. Def(i).name = c
    BY <2>1, SymbolTellsName
  <2>3. i =< next
    BY <1>2, <2>1 DEF Started
  <2> QED
    BY <1>1, <2>2, <2>3
<1>4. ~ByImport(s)
  <2>1. SUFFICES ASSUME NEW j \in DOMAIN KeptItems, j < next, KeptItems[j].op = "Import",
                        s = Qualified(KeptItems[j].names[1], KeptItems[j].name)
                 PROVE  FALSE
    BY DEF ByImport
  <2>2. KeptItems[j].name = c
    BY <2>1, Spelled
  <2>3. j \in 1 .. next - 1
    BY <1>2, <2>1
  <2> QED
    BY <1>1, <2>1, <2>2, <2>3 DEF ImportedBefore
<1>5. ~ByTemplate(s)
  BY DEF ByTemplate, NoTemplates
<1>6. object.symbols[s] = "declared" /\ ByCall(s)
  BY <1>3, <1>4, <1>5 DEF SymbolsShape
<1>7. PICK d : s = Private(d)
  BY <1>6 DEF ByCall
<1>8. s = Private(c)
  BY <1>7, Spelled
<1> QED
  BY <1>6, <1>8

LEMMA ResolvesMissing ==
  ASSUME Base, ObjectShape, NoTemplates, next \in Defined, NEW c, ~Finds(next, c)
  PROVE  /\ Resolve(c, object) = Private(c)
         /\ Private(c) \in DOMAIN object.symbols => object.symbols[Private(c)] = "declared"
<1>1. c \notin DOMAIN object.imports
  BY DEF ObjectShape, ImportsShape, Finds
<1>2. Qualified(stem, c) \in DOMAIN object.symbols => Qualified(stem, c) = Private(c)
  BY NotOfTheName
<1>3. Plain(c) \in DOMAIN object.symbols => Plain(c) = Private(c)
  BY NotOfTheName
<1>4. Private(c) \in DOMAIN object.symbols => object.symbols[Private(c)] = "declared"
  BY NotOfTheName
<1> QED
  BY <1>1, <1>2, <1>3, <1>4 DEF Resolve

\* What is missing stays so: the symbol of a definition of that name, which
\* is exported, is another one.
LEMMA MissingStays ==
  ASSUME Base, ObjectShape, NoTemplates, Still, NEW i \in Defined, NEW c, ~Finds(i, c), Missing(c), Grew
  PROVE  Missing(c)'
<1>1. Private(c)' = Private(c)
  BY KeptStays DEF Still
<1>2. Private(c) \in DOMAIN object.symbols
  BY DEF Missing, ObjectShape, UsedShape
<1>3. ASSUME NEW j \in Defined, Private(c) = SymbolOf(Def(j))
      PROVE  FALSE
  <2>1. Def(j).name = c /\ (Def(j).exported => c = "main")
    BY <1>3, SymbolTellsName
  <2> QED
    BY <2>1 DEF Finds, NoTemplates
<1>4. object'.symbols[Private(c)] = "declared"
  BY <1>2, <1>3 DEF Missing, Grew
<1> QED
  BY <1>1, <1>4 DEF Missing, Grew

\* It is enough that what is read in this step is missing if it is not found.
LEMMA MissingKept ==
  ASSUME Base, ObjectShape, MissingShape, Still, Grew,
         ASSUME NoTemplates, NEW i \in Defined, NEW k \in DOMAIN References(Def(i)), NEW c,
                c = References(Def(i))[k].name, Names(References(Def(i))[k]),
                Read(i, k)', ~Read(i, k), ~Finds(i, c)
         PROVE  Missing(c)'
  PROVE  MissingShape'
<1>1. /\ Defined' = Defined /\ NoTemplates' = NoTemplates /\ \A i : Def(i)' = Def(i)
      /\ \A i, c : Finds(i, c)' = Finds(i, c)
  BY KeptStays DEF Still
<1>2. SUFFICES ASSUME NoTemplates, NEW i \in Defined, NEW k \in DOMAIN References(Def(i)), NEW c,
                      c = References(Def(i))[k].name, Names(References(Def(i))[k]),
                      Read(i, k)', ~Finds(i, c)
               PROVE  Missing(c)'
  BY <1>1 DEF MissingShape
<1>3. CASE Read(i, k)
  <2>1. Missing(c)
    BY <1>2, <1>3 DEF MissingShape
  <2> QED
    BY <1>2, <2>1, MissingStays
<1>4. CASE ~Read(i, k)
  BY <1>2, <1>4
<1> QED
  BY <1>3, <1>4

\* Without templates, a reference is read when it is looked up for the
\* function whose turn it is.
LEMMA ReadInTurn ==
  ASSUME Base, ObjectShape, NoTemplates, Generate, ~Aborts,
         NEW i \in Defined, NEW k \in DOMAIN References(Def(i)), Names(References(Def(i))[k]),
         Read(i, k)', ~Read(i, k)
  PROVE  /\ GenCall \/ GenValue
         /\ i = next /\ Top.item = next /\ k = Top.at
<1> USE DEF ObjectShape
<1>1. /\ Defined \subseteq Nat /\ next \in Nat /\ next \in 1 .. Len(KeptItems) + 1 /\ k \in Nat
      /\ k \in 1 .. Len(References(Def(i)))
  BY DefinedTyped DEF Base, FramesShape
<1>2. ASSUME pending = <<>>, NEW o, Generated(o), next \notin Defined
      PROVE  FALSE
  BY <1>1, <1>2 DEF Generated, Read
<1>3. ~(GenShape \/ GenImport \/ GenOther)
  <2>1. ASSUME GenShape
        PROVE  FALSE
    BY <1>2, <2>1 DEF GenShape, Turn, Defined, IsGenerated
  <2>2. ASSUME GenImport
        PROVE  FALSE
    BY <1>2, <2>2 DEF GenImport, Turn, Defined, IsGenerated
  <2>3. ASSUME GenOther
        PROVE  FALSE
    BY <1>2, <2>3 DEF GenOther, Defined, IsGenerated
  <2> QED
    BY <2>1, <2>2, <2>3
<1>4. ASSUME pending = <<>>, next \in Defined, GenFunction
      PROVE  FALSE
  <2>1. pending' = <<FirstFrame>> /\ next' = next
    BY <1>4, GenFunctionCases DEF NoTemplates, StoresTemplate, StartsBody, Aborts, Failures
  <2>2. pending'[1].at = 1
    BY <1>4, <2>1, FirstFrameTyped
  <2> QED
    BY <1>1, <1>4, <2>1, <2>2 DEF Read
<1>5. ~GenDefine
  BY <1>4 DEF GenDefine, Turn, Defined, IsGenerated
<1>6. ~GenMetadata
  <2>1. SUFFICES ASSUME GenMetadata
                 PROVE  FALSE
    OBVIOUS
  <2>2. /\ pending = <<>> /\ next \in DOMAIN KeptItems
        /\ IF IsGenerated(next) THEN GenFunction ELSE Generated(object)
    BY <2>1 DEF GenMetadata, Turn
  <2> QED
    BY <1>2, <1>4, <2>2 DEF Defined
<1>7. ~EmitObject
  BY DEF EmitObject, Read
<1>8. ASSUME pending # <<>>
      PROVE  /\ Len(pending) = 1 /\ Top = pending[1] /\ Top.item = next
             /\ Top.at \in Nat /\ Reading = References(Def(next))
  <2>1. /\ Len(pending) \in Nat /\ Len(pending) > 0 /\ DOMAIN pending = 1 .. Len(pending)
        /\ Top = pending[Len(pending)] /\ Top.at \in Nat
    BY <1>8, TopFacts
  <2>2. Len(pending) = 1
    <3>1. Len(pending) # 1 => IsTemplate(pending[Len(pending)].item) /\ pending[Len(pending)].item \in Defined
      BY <2>1 DEF FramesShape
    <3> QED
      BY <3>1 DEF NoTemplates
  <2> QED
    BY <1>8, <2>1, <2>2 DEF FramesShape, Reading
<1>9. ~EndBody
  <2>1. SUFFICES ASSUME EndBody
                 PROVE  FALSE
    OBVIOUS
  <2>2. pending # <<>> /\ Top.at \notin DOMAIN Reading /\ next' = next + 1 /\ pending' = <<>>
    BY <1>1, <1>8, <2>1, EndBodyFacts DEF EndBody, Base
  <2>3. i = next
    BY <1>1, <2>2 DEF Read
  <2>4. Top.at \in 1 .. Len(Reading) + 1 /\ DOMAIN Reading = 1 .. Len(Reading) /\ Len(Reading) \in Nat
    BY <2>2, TopFacts
  <2>5. k < Top.at
    BY <1>1, <1>8, <2>2, <2>3, <2>4
  <2> QED
    BY <1>8, <2>2, <2>3, <2>5 DEF Read
<1>10. GenCall \/ GenValue \/ ReadsLocally
  BY <1>3, <1>5, <1>6, <1>7, <1>9 DEF Generate, ReadsLocally, GenShifted, Aborts, Failures
<1>11. pending # <<>> /\ Top.at \in DOMAIN Reading
  BY <1>10, ReadsLocallyCases DEF GenCall, GenValue, Reads
<1>12. pending' = Advanced /\ next' = next
  <2>1. ASSUME NEW s, s \in DOMAIN object.templates
        PROVE  FALSE
    BY <2>1 DEF TemplatesShape, NoTemplates
  <2>2. CASE GenCall
    BY <2>1, <2>2, GenCallCases DEF Aborts, Failures
  <2>3. CASE GenValue
    BY <2>3 DEF GenValue, Aborts, Failures
  <2>4. CASE ReadsLocally
    BY <2>4, ReadsLocallyCases DEF Goes, Aborts, Failures
  <2> QED
    BY <1>10, <2>2, <2>3, <2>4
<1>13. Advanced[1].at = Top.at + 1
  BY <1>8, <1>11, AdvancedFacts DEF Base
<1>14. i = next /\ Top.item = next /\ k = Top.at
  BY <1>1, <1>8, <1>11, <1>12, <1>13 DEF Read
<1>15. ~ReadsLocally
  BY <1>8, <1>11, <1>14, ReadsLocallyCases
<1> QED
  BY <1>10, <1>14, <1>15

LEMMA GenerateMisses ==
  ASSUME Base, ObjectShape, MissingShape, Generate, ~Aborts
  PROVE  MissingShape'
<1> USE DEF ObjectShape
<1>1. Still /\ Grew
  BY GenerateKeeps
<1>2. ASSUME NoTemplates, NEW i \in Defined, NEW k \in DOMAIN References(Def(i)), NEW c,
             c = References(Def(i))[k].name, Names(References(Def(i))[k]),
             Read(i, k)', ~Read(i, k), ~Finds(i, c)
      PROVE  Missing(c)'
  <2>1. /\ GenCall \/ GenValue
        /\ i = next /\ Top.item = next /\ k = Top.at
    BY <1>2, ReadInTurn
  <2>2. Reading[Top.at].name = c /\ next \in Defined /\ ~Finds(next, c)
    BY <1>2, <2>1 DEF Reading
  <2>3. /\ Resolve(c, object) = Private(c)
        /\ Private(c) \in DOMAIN object.symbols => object.symbols[Private(c)] = "declared"
    BY <1>2, <2>2, ResolvesMissing
  <2>4. Private(c) \notin DOMAIN object.templates
    BY <1>2 DEF TemplatesShape, NoTemplates
  <2>5. PICK o : o = Added(object, Private(c), "declared", ArityOf(c))
    OBVIOUS
  <2>6. IsObject(o) /\ o.symbols[Private(c)] = "declared"
    BY <2>3, <2>5, AddedFacts DEF ParamsShape
  <2>7. object' = Using(o, Private(c))
    <3>1. CASE GenCall
      BY <2>2, <2>3, <2>4, <2>5, <3>1, GenCallCases DEF Aborts, Failures
    <3>2. CASE GenValue
      BY <2>2, <2>3, <2>5, <3>2 DEF GenValue, Added, Aborts, Failures
    <3> QED
      BY <2>1, <3>1, <3>2
  <2>8. object'.used = o.used \cup {Private(c)} /\ object'.symbols = o.symbols
    BY <2>6, <2>7, UsingFacts
  <2>9. Private(c)' = Private(c)
    BY <1>1, KeptStays DEF Still
  <2> QED
    BY <2>6, <2>8, <2>9 DEF Missing
<1> QED
  BY <1>1, <1>2, MissingKept

-----------------------------------------------------------------------------
(* In order.                                                               *)

Judged ==
  \A p \in Positions :
    Unwrap(module[p]).op = "Define" => JudgedByNames(Unwrap(module[p]), Tables, STRING)

\* What a definition refers to is before it or is imported; a template, only
\* the former.
LEMMA OrderFacts ==
  ASSUME Base, InOrder, NEW i \in Defined, NEW c \in UsedBy(i), NEW j \in Defined,
         IsTemplate(j), Def(j).name = c
  PROVE  j < i /\ c \notin ValuesOf(i)
<1>1. /\ Defined \subseteq DOMAIN KeptItems /\ IsGenerated(i) /\ IsGenerated(j)
      /\ \A l \in Defined : Def(l).op = "Define"
  BY DefinedTyped DEF Base, Defined
<1>2. DOMAIN KeptItems = 1 .. Len(KeptItems) /\ Len(KeptItems) \in Nat
  BY KeptTyped DEF Base
<1>3. ASSUME NEW l \in DOMAIN KeptItems, Def(l).op \in {"Define", "Import"}, Def(l).name = c
      PROVE  l = j
  BY <1>1, <1>3 DEF InOrder
<1>4. \A l \in Defined : Def(l).name = c => l = j
  BY <1>1, <1>3
<1>5. ~ImportedBefore(i, c)
  <2>1. SUFFICES ASSUME NEW l \in 1 .. i - 1, KeptItems[l].op = "Import", KeptItems[l].name = c
                 PROVE  FALSE
    BY DEF ImportedBefore
  <2>2. l \in DOMAIN KeptItems
    BY <1>1, <1>2
  <2>3. Def(l) = KeptItems[l]
    BY <2>1 DEF Def, Unwrap
  <2>4. l = j
    BY <1>3, <2>1, <2>2, <2>3
  <2> QED
    BY <1>1, <2>1, <2>3, <2>4
<1>6. ~Finds(i, c)
  BY <1>4, <1>5 DEF Finds
<1> QED
  BY <1>1, <1>4, <1>5, <1>6 DEF InOrder

\* A value that is used is there.
LEMMA ValueThere ==
  ASSUME Base, ObjectShape, InOrder, NEW i \in Defined, Started(i), NEW c \in ValuesOf(i), c \in UsedBy(i)
  PROVE  Resolve(c, object) \in DOMAIN object.symbols
<1>1. SUFFICES ASSUME Resolve(c, object) \notin DOMAIN object.symbols
               PROVE  FALSE
  OBVIOUS
<1>2. ~ImportedBefore(i, c) /\ \A j \in Defined : Def(j).name = c => i < j
  BY <1>1, NotFound
<1>3. IsGenerated(i) /\ i \in DOMAIN KeptItems /\ Defined \subseteq Nat
  BY DefinedTyped DEF Defined, Base
<1>4. \E j \in Defined : j =< i /\ Def(j).name = c /\ ~IsTemplate(j)
  BY <1>2, <1>3 DEF InOrder
<1> QED
  BY <1>2, <1>3, <1>4

\* A reference to a template is to the template of that name.
LEMMA TemplateNamed ==
  ASSUME Base, ObjectShape, NEW c, NEW j, Resolve(c, object) = SymbolOf(Def(j))
  PROVE  Def(j).name = c
<1>1. \/ Resolve(c, object) = Private(c) \/ Resolve(c, object) = Plain(c)
      \/ \E x : Resolve(c, object) = Qualified(x, c)
  BY ResolveFacts DEF ObjectShape, ImportsShape
<1> QED
  BY <1>1, SymbolTellsName

\* What is parsed has names for what it names.
LEMMA NamesTyped ==
  ASSUME NEW e, WellParsed(e)
  PROVE  /\ Unwrap(e).name \in STRING /\ Calls(Unwrap(e)) \in SUBSET STRING
         /\ Unwrap(e).op = "Shape" => Unwrap(e).names \in Seq(STRING)
<1>1. AsItem(e) \in Item
  BY DEF WellParsed
<1>2. AsItem(e).name = Unwrap(e).name /\ AsItem(e).calls = Calls(e)
  BY DEF AsItem
<1>3. Unwrap(e).name \in STRING /\ Calls(e) \in SUBSET STRING
  BY <1>1, <1>2 DEF Item
<1> QED
  BY <1>3 DEF WellParsed

NamedShapes(list, n) == {i \in DOMAIN list : Unwrap(list[i]).op = "Shape" /\ Unwrap(list[i]).name = n}

LEMMA ShapesOfFacts ==
  ASSUME NEW list, NEW len \in Nat, DOMAIN list = 1 .. len,
         \A i \in DOMAIN list : WellParsed(list[i])
  PROVE  /\ ShapesOf(list) \in Tables
         /\ \A n : n \in DOMAIN ShapesOf(list) <=> NamedShapes(list, n) # {}
         /\ \A n \in DOMAIN ShapesOf(list) :
              /\ Max(NamedShapes(list, n)) \in NamedShapes(list, n)
              /\ \A i \in NamedShapes(list, n) : i =< Max(NamedShapes(list, n))
              /\ \A i \in NamedShapes(list, n) : (\A j \in NamedShapes(list, n) : j =< i) => i = Max(NamedShapes(list, n))
              /\ ShapesOf(list)[n] = Unwrap(list[Max(NamedShapes(list, n))]).names
<1> DEFINE at == {i \in DOMAIN list : Unwrap(list[i]).op = "Shape"}
           names == {Unwrap(list[i]).name : i \in at}
<1>1. ShapesOf(list) = [n \in names |-> Unwrap(list[Max(NamedShapes(list, n))]).names]
  <2>1. \A n : {i \in at : Unwrap(list[i]).name = n} = NamedShapes(list, n)
    BY DEF NamedShapes
  <2> QED
    BY <2>1 DEF ShapesOf
<1>2. \A n : n \in names <=> NamedShapes(list, n) # {}
  BY DEF NamedShapes
<1> HIDE DEF names
<1>3. ASSUME NEW n, NamedShapes(list, n) # {}
      PROVE  /\ Max(NamedShapes(list, n)) \in NamedShapes(list, n)
             /\ \A i \in NamedShapes(list, n) : i =< Max(NamedShapes(list, n))
             /\ \A i \in NamedShapes(list, n) : (\A j \in NamedShapes(list, n) : j =< i) => i = Max(NamedShapes(list, n))
  <2>1. NamedShapes(list, n) \in SUBSET (1 .. len)
    BY DEF NamedShapes
  <2>2. IsFiniteSet(1 .. len)
    BY FS_Interval
  <2>3. NamedShapes(list, n) \in SUBSET Nat /\ IsFiniteSet(NamedShapes(list, n))
    BY <2>1, <2>2, FS_Subset
  <2> QED
    BY <1>3, <2>3, MaxFacts
<1>4. \A n \in names : Unwrap(list[Max(NamedShapes(list, n))]).names \in Seq(STRING)
  <2>1. ASSUME NEW n \in names, NEW i, i \in NamedShapes(list, n)
        PROVE  Unwrap(list[i]).names \in Seq(STRING)
    <3>1. WellParsed(list[i]) /\ Unwrap(list[i]).op = "Shape"
      BY <2>1 DEF NamedShapes
    <3> QED
      BY <3>1, NamesTyped
  <2> QED
    BY <1>2, <1>3, <2>1
<1>5. names \in SUBSET STRING
  BY NamesTyped DEF names
<1>6. ShapesOf(list) \in [names -> Seq(STRING)]
  BY <1>1, <1>4
<1> QED
  BY <1>1, <1>2, <1>3, <1>5, <1>6 DEF Tables

LEMMA KeptShapes ==
  ASSUME Base
  PROVE  /\ ShapesOf(KeptItems) \in Tables
         /\ \A ops : NamesOf(KeptItems, ops) \in SUBSET STRING
         /\ \A i \in DOMAIN KeptItems : Def(i).name \in STRING /\ Calls(Def(i)) \in SUBSET STRING
<1>1. /\ DOMAIN KeptItems = 1 .. Len(KeptItems) /\ Len(KeptItems) \in Nat
      /\ \A i \in DOMAIN KeptItems : WellParsed(KeptItems[i])
  BY KeptTyped, DefinedTyped DEF Base
<1>2. \A i \in DOMAIN KeptItems : Def(i).name \in STRING /\ Calls(Def(i)) \in SUBSET STRING
  BY <1>1, NamesTyped DEF Def
<1>3. \A ops : NamesOf(KeptItems, ops) \in SUBSET STRING
  BY <1>2 DEF NamesOf, Def
<1>4. ShapesOf(KeptItems) \in Tables
  BY <1>1, ShapesOfFacts
<1> QED
  BY <1>2, <1>3, <1>4

\* When the first definition is generated, so are the shapes of all.
LEMMA ShapesGenerated ==
  ASSUME Base, ObjectShape, InOrder, next \in Defined
  PROVE  object.shapes = ShapesOf(KeptItems)
<1>1. /\ DOMAIN KeptItems = 1 .. Len(KeptItems) /\ Len(KeptItems) \in Nat
      /\ \A i \in DOMAIN KeptItems : WellParsed(KeptItems[i])
  BY KeptTyped, DefinedTyped DEF Base
<1>2. PICK t : t = ShapesOf(KeptItems)
  OBVIOUS
<1>3. /\ t \in Tables
      /\ \A n : n \in DOMAIN t <=> NamedShapes(KeptItems, n) # {}
      /\ \A n \in DOMAIN t :
           /\ \A i \in NamedShapes(KeptItems, n) :
                (\A j \in NamedShapes(KeptItems, n) : j =< i) => i = Max(NamedShapes(KeptItems, n))
           /\ t[n] = Unwrap(KeptItems[Max(NamedShapes(KeptItems, n))]).names
  BY <1>1, <1>2, ShapesOfFacts
<1>4. \A n : NamedShapes(KeptItems, n) =
               {i \in DOMAIN KeptItems : i < next /\ KeptItems[i].op = "Shape" /\ KeptItems[i].name = n}
  <2>1. \A i \in DOMAIN KeptItems : Def(i).op = "Shape" => KeptItems[i].op = "Shape" /\ i < next
    BY DEF InOrder
  <2>2. \A i \in DOMAIN KeptItems : KeptItems[i].op = "Shape" => Def(i) = KeptItems[i]
    BY DEF Def, Unwrap
  <2> QED
    BY <2>1, <2>2 DEF NamedShapes, Def
<1>5. DOMAIN object.shapes = DOMAIN t
  <2>1. ASSUME NEW n \in DOMAIN object.shapes
        PROVE  NamedShapes(KeptItems, n) # {}
    BY <1>4 DEF ObjectShape, ShapesShape, IsLastShape
  <2>2. ASSUME NEW n, NamedShapes(KeptItems, n) # {}
        PROVE  n \in DOMAIN object.shapes
    <3>1. PICK i \in DOMAIN KeptItems : i < next /\ KeptItems[i].op = "Shape" /\ KeptItems[i].name = n
      BY <1>4, <2>2
    <3> QED
      BY <3>1 DEF ObjectShape, ShapesShape
  <2> QED
    BY <1>3, <2>1, <2>2
<1>6. ASSUME NEW n \in DOMAIN object.shapes
      PROVE  object.shapes[n] = t[n]
  <2>1. PICK i \in DOMAIN KeptItems : IsLastShape(n, i)
    BY DEF ObjectShape, ShapesShape
  <2>2. i \in NamedShapes(KeptItems, n) /\ Unwrap(KeptItems[i]) = KeptItems[i]
    BY <1>4, <2>1 DEF IsLastShape, Unwrap
  <2>3. ASSUME NEW j \in NamedShapes(KeptItems, n)
        PROVE  j =< i
    BY <1>1, <1>4, <2>1 DEF IsLastShape
  <2>4. i = Max(NamedShapes(KeptItems, n))
    BY <1>3, <1>5, <2>2, <2>3
  <2> QED
    BY <1>3, <1>5, <2>1, <2>2, <2>4 DEF IsLastShape
<1>7. t = [n \in DOMAIN t |-> t[n]]
  BY <1>3 DEF Tables
<1>8. AsFunction(object.shapes)
  BY DEF ObjectShape, ShapesShape
<1> QED
  BY <1>2, <1>5, <1>6, <1>7, <1>8 DEF AsFunction

LEMMA KeptJudged ==
  ASSUME Base, Judged, NEW i \in DOMAIN KeptItems, Def(i).op = "Define"
  PROVE  JudgedByNames(Def(i), Tables, STRING)
<1>1. Nth(KeptAt, i) \in KeptAt /\ KeptItems[i] = module[Nth(KeptAt, i)]
  BY KeptTyped DEF Base
<1> QED
  BY <1>1 DEF Judged, KeptAt, Def

\* The generator knows all functions that the body mentions.
LEMMA FunctionsKnown ==
  ASSUME Base, ObjectShape, InOrder, next \in Defined
  PROVE  /\ NamesOf(KeptItems, {"Define", "Import"}) \cap Calls(Def(next)) \subseteq KnownFunctions(Def(next), object)
         /\ KnownFunctions(Def(next), object) \in SUBSET STRING
<1>1. next \in DOMAIN KeptItems /\ IsGenerated(next)
  BY DEF Defined
<1>2. KnownFunctions(Def(next), object) \in SUBSET STRING
  BY <1>1, KeptShapes DEF KnownFunctions
<1>3. ASSUME NEW c \in Calls(Def(next)), NEW i \in DOMAIN KeptItems,
             Def(i).op \in {"Define", "Import"}, Def(i).name = c
      PROVE  c \in KnownFunctions(Def(next), object)
  <2>1. CASE Def(i).op = "Define"
    <3>1. c \in NamesOf(KeptItems, {"Define"})
      BY <1>3, <2>1 DEF NamesOf, Def
    <3> QED
      BY <3>1 DEF KnownFunctions
  <2>2. CASE Def(i).op = "Import"
    <3>1. KeptItems[i].op = "Import" /\ i < next
      BY <2>2 DEF InOrder
    <3>2. KeptItems[i].name = c
      BY <1>3, <3>1 DEF Def, Unwrap
    <3>3. c \in DOMAIN object.imports /\ Qualified(object.imports[c], c) \in DOMAIN object.symbols
      BY <3>1, <3>2 DEF ObjectShape, ImportsShape
    <3>4. Resolve(c, object) \in DOMAIN object.symbols
      BY <3>3 DEF Resolve
    <3> QED
      BY <3>4 DEF KnownFunctions
  <2> QED
    BY <1>3, <2>1, <2>2
<1> QED
  BY <1>2, <1>3 DEF NamesOf, Def

LEMMA BodyVerified ==
  ASSUME Base, ObjectShape, InOrder, Judged, ModuleOK(KeptItems), next \in Defined
  PROVE  BodyOK(Def(next), object.shapes, KnownFunctions(Def(next), object))
<1>1. next \in DOMAIN KeptItems /\ Def(next).op = "Define"
  BY DefinedTyped DEF Defined, Base
<1>2. PICK d : d = Def(next)
  OBVIOUS
<1>3. PICK t : t = ShapesOf(KeptItems)
  OBVIOUS
<1>4. PICK F : F = NamesOf(KeptItems, {"Define", "Import"})
  OBVIOUS
<1>5. PICK G : G = KnownFunctions(d, object)
  OBVIOUS
<1>6. BodyOK(d, t, F)
  BY <1>1, <1>2, <1>3, <1>4 DEF ModuleOK, Def
<1>7. JudgedByNames(d, Tables, STRING)
  BY <1>1, <1>2, KeptJudged
<1>8. t \in Tables /\ F \in SUBSET STRING /\ G \in SUBSET STRING /\ F \cap Calls(d) \subseteq G
  BY <1>2, <1>3, <1>4, <1>5, KeptShapes, FunctionsKnown
<1>9. AgreeOn(Calls(d), t, t)
  BY DEF AgreeOn
<1>10. Guessed(d) \subseteq FieldsOf(t)
  BY <1>6, <1>7, <1>8, <1>9 DEF JudgedByNames
<1>11. BodyOK(d, t, G)
  BY <1>6, <1>7, <1>8, <1>9, <1>10 DEF JudgedByNames
<1> QED
  BY <1>2, <1>3, <1>5, <1>11, ShapesGenerated

-----------------------------------------------------------------------------
(* The order of expansion.                                                 *)

\* The generator goes on with the frames it has, or with fewer.
SameFrames ==
  /\ DOMAIN pending' \subseteq DOMAIN pending
  /\ \A k \in DOMAIN pending' : /\ pending'[k].item = pending[k].item
                                /\ pending'[k].shapes = pending[k].shapes

LEMMA AdvancedSame ==
  ASSUME Base, FramesShape, pending # <<>>, Top.at \in DOMAIN Reading, pending' = Advanced
  PROVE  SameFrames
  BY AdvancedFacts DEF SameFrames

\* What is called is there, or a definition of its name is to come.
LEMMA CalledThere ==
  ASSUME Base, ObjectShape, InOrder, NEW i \in Defined, Started(i), NEW c \in UsedBy(i),
         Resolve(c, object) \notin DOMAIN object.symbols
  PROVE  DefinesOf(c) # {}
<1>1. ~ImportedBefore(i, c)
  BY NotFound
<1>2. i \in DOMAIN KeptItems /\ IsGenerated(i)
  BY DEF Defined
<1>3. PICK j \in Defined : Def(j).name = c
  BY <1>1, <1>2 DEF InOrder, Finds
<1>4. j \in DOMAIN KeptItems /\ Def(j).op = "Define"
  BY DefinedTyped DEF Base, Defined
<1> QED
  BY <1>3, <1>4 DEF DefinesOf

LEMMA CallInOrder ==
  ASSUME Base, ObjectShape, InOrder, Descending, NoneOfTemplates(object.used), GenCall
  PROVE  stage' = "generate" /\ Descending' /\ NoneOfTemplates(object.used)'
<1> USE DEF ObjectShape
<1>1. PICK c : c = Reading[Top.at].name
  OBVIOUS
<1>2. PICK sym : sym = Resolve(c, object)
  OBVIOUS
<1>3. PICK m : m = Top.item
  OBVIOUS
<1>4. pending # <<>> /\ Top.at \in DOMAIN Reading /\ stage = "generate" /\ Names(Reading[Top.at])
  BY DEF GenCall, Reads, Names
<1>5. /\ m \in Defined /\ Started(m) /\ c \in UsedBy(m) /\ m =< next /\ next \in Nat /\ Defined \subseteq Nat
      /\ Len(pending) \in Nat /\ Len(pending) > 0 /\ DOMAIN pending = 1 .. Len(pending)
      /\ m = pending[Len(pending)].item
  BY <1>1, <1>3, <1>4, TopFacts, DefinedTyped DEF Base
<1>6. \A j \in Defined : IsTemplate(j) /\ sym = SymbolOf(Def(j)) => j < m
  BY <1>2, <1>5, TemplateNamed, OrderFacts
<1>7. \A k \in DOMAIN pending : pending[k].item \in Nat /\ m =< pending[k].item
  <2>1. \A k \in DOMAIN pending : pending[k].item \in Defined
    BY DEF FramesShape
  <2>2. \A k \in DOMAIN pending : pending[k].item \in Nat
    BY <1>5, <2>1
  <2>3. ASSUME NEW k \in DOMAIN pending, k # Len(pending)
        PROVE  m < pending[k].item
    BY <1>5, <2>3 DEF Descending
  <2> QED
    BY <1>5, <2>2, <2>3
<1>8. CASE sym \notin DOMAIN object.templates
  <2>1. ~(sym \notin DOMAIN object.symbols /\ DefinesOf(c) = {})
    BY <1>2, <1>5, CalledThere
  <2>2. /\ object' = Using(Added(object, sym, "declared", ArityOf(c)), sym)
        /\ pending' = Advanced /\ Still /\ next' = next /\ stage' = "generate"
    BY <1>1, <1>2, <1>4, <1>8, <2>1, GenCallCases DEF Still
  <2>3. object'.used = object.used \cup {sym}
    BY <2>2, AddedFacts, UsingFacts DEF ParamsShape
  <2>4. /\ Defined' = Defined /\ \A i : Def(i)' = Def(i) /\ IsTemplate(i)' = IsTemplate(i)
        /\ \A d : SymbolOf(d)' = SymbolOf(d)
    BY <2>2, KeptStays DEF Still
  <2>5. Descending'
    BY <1>4, <2>2, AdvancedFacts DEF Descending
  <2>6. \A j \in Defined : IsTemplate(j) => sym # SymbolOf(Def(j))
    BY <1>5, <1>6, <1>8 DEF TemplatesShape
  <2>7. NoneOfTemplates(object.used)'
    BY <2>3, <2>4, <2>6 DEF NoneOfTemplates
  <2> QED
    BY <2>2, <2>5, <2>7
<1>9. CASE sym \in DOMAIN object.templates
  <2>1. PICK j : j = object.templates[sym]
    OBVIOUS
  <2>2. j \in Defined /\ IsTemplate(j) /\ j < m
    BY <1>6, <1>9, <2>1 DEF TemplatesShape
  <2>3. ~\E k \in DOMAIN pending : pending[k].item = j
    BY <1>5, <1>7, <2>2
  <2>4. PICK shapes : shapes = Passed(Reading[Top.at], Def(j))
    OBVIOUS
  <2>5. /\ pending' = Append(Advanced, Frame(j, shapes))
        /\ Still /\ UNCHANGED <<next, object>> /\ stage' = "generate"
    BY <1>1, <1>2, <1>4, <1>9, <2>1, <2>3, <2>4, GenCallCases DEF Still
  <2>6. /\ Defined' = Defined /\ \A i : Def(i)' = Def(i) /\ IsTemplate(i)' = IsTemplate(i)
        /\ \A d : SymbolOf(d)' = SymbolOf(d)
    BY <2>5, KeptStays DEF Still
  <2>7. NoneOfTemplates(object.used)'
    BY <2>5, <2>6 DEF NoneOfTemplates
  <2>8. /\ Advanced \in Seq(Frames) /\ Len(Advanced) = Len(pending) /\ DOMAIN Advanced = DOMAIN pending
        /\ \A k \in DOMAIN pending : Advanced[k].item = pending[k].item
    BY <1>4, AdvancedFacts
  <2>9. Frame(j, shapes) \in Frames /\ Frame(j, shapes).item = j
    BY <1>4, <1>5, <2>2, <2>4, PassedTyped, FrameTyped
  <2>10. /\ DOMAIN pending' = 1 .. Len(pending) + 1
         /\ pending'[Len(pending) + 1].item = j
         /\ \A k \in DOMAIN pending : pending'[k].item = pending[k].item
    BY <1>5, <2>5, <2>8, <2>9
  <2>11. ASSUME NEW k \in DOMAIN pending', NEW l \in DOMAIN pending', k < l
         PROVE  pending'[l].item < pending'[k].item
    <3>1. k \in DOMAIN pending
      BY <1>5, <2>10, <2>11
    <3>2. CASE l \in DOMAIN pending
      BY <2>10, <2>11, <3>1, <3>2 DEF Descending
    <3>3. CASE l = Len(pending) + 1
      <4>1. j \in Nat /\ m \in Nat /\ pending'[l].item = j /\ pending'[k].item = pending[k].item
        BY <1>5, <2>2, <2>10, <3>1, <3>3
      <4> QED
        BY <1>7, <2>2, <3>1, <4>1
    <3> QED
      BY <1>5, <2>10, <3>2, <3>3
  <2> QED
    BY <2>5, <2>7, <2>11 DEF Descending
<1> QED
  BY <1>8, <1>9

LEMMA ValueInOrder ==
  ASSUME Base, ObjectShape, InOrder, Descending, NoneOfTemplates(object.used), GenValue
  PROVE  stage' = "generate" /\ SameFrames /\ Descending' /\ NoneOfTemplates(object.used)'
<1> USE DEF ObjectShape
<1>1. PICK c : c = Reading[Top.at].name
  OBVIOUS
<1>2. PICK sym : sym = Resolve(c, object)
  OBVIOUS
<1>3. PICK m : m = Top.item
  OBVIOUS
<1>4. /\ pending # <<>> /\ Top.at \in DOMAIN Reading /\ Reading[Top.at].how = "value" /\ stage = "generate"
      /\ Names(Reading[Top.at])
  BY DEF GenValue, Reads, Names
<1>5. m \in Defined /\ Started(m) /\ c \in UsedBy(m) /\ Reading \in Seq(Lookup)
  BY <1>1, <1>3, <1>4, TopFacts
<1>6. c \in ValuesOf(m)
  BY <1>1, <1>3, <1>4, <1>5 DEF ValuesOf, Found, Reading, ToSet
<1>7. sym \in DOMAIN object.symbols
  BY <1>2, <1>5, <1>6, ValueThere
<1>8. /\ object' = Using(object, sym) /\ pending' = Advanced /\ Still /\ next' = next /\ stage' = stage
  BY <1>1, <1>2, <1>7 DEF GenValue, Still
<1>9. object'.used = object.used \cup {sym}
  BY <1>8, UsingFacts
<1>10. \A j \in Defined : IsTemplate(j) => sym # SymbolOf(Def(j))
  BY <1>2, <1>5, <1>6, TemplateNamed, OrderFacts
<1>11. /\ Defined' = Defined /\ \A i : Def(i)' = Def(i) /\ IsTemplate(i)' = IsTemplate(i)
       /\ \A d : SymbolOf(d)' = SymbolOf(d)
  BY <1>8, KeptStays DEF Still
<1>12. NoneOfTemplates(object.used)'
  BY <1>9, <1>10, <1>11 DEF NoneOfTemplates
<1>13. Descending' /\ SameFrames
  BY <1>4, <1>8, AdvancedFacts, AdvancedSame DEF Descending
<1> QED
  BY <1>4, <1>8, <1>12, <1>13

\* The other steps refer to nothing.
LEMMA UsedStays ==
  ASSUME Base, ObjectShape, Generate, ~Aborts, ~GenCall, ~GenValue
  PROVE  /\ object'.used = object.used /\ Still
         /\ SameFrames \/ (pending' = <<FirstFrame>> /\ next \in Defined)
<1> USE DEF ObjectShape
<1>1. ASSUME pending = <<>>, NEW o, Generated(o), o.used = object.used
      PROVE  object'.used = object.used /\ Still /\ SameFrames
  BY <1>1 DEF Generated, Still, SameFrames
<1>2. CASE GenShape
  <2>1. PICK o : /\ o = [object EXCEPT !.shapes = Inserted(@, KeptItems[next].name, KeptItems[next].names)]
                 /\ Generated(o)
    BY <1>2 DEF GenShape
  <2> QED
    BY <1>1, <1>2, <2>1 DEF GenShape, Turn, IsObject
<1>3. CASE GenImport
  <2>1. PICK item, mod : item = KeptItems[next] /\ mod = item.names[1]
    OBVIOUS
  <2>2. PICK t : t = [object EXCEPT !.imports = Inserted(@, item.name, mod)]
    OBVIOUS
  <2>3. IsObject(t) /\ t.used = object.used /\ DOMAIN t.params = DOMAIN t.symbols
    BY <2>2 DEF IsObject, ParamsShape
  <2>4. Generated(Added(t, Qualified(mod, item.name), "extern", item.n))
    BY <1>3, <2>1, <2>2 DEF GenImport
  <2> QED
    BY <1>1, <1>3, <2>3, <2>4, AddedFacts DEF GenImport, Turn
<1>4. ASSUME next \in Defined, pending = <<>>, GenFunction
      PROVE  /\ object'.used = object.used /\ Still
             /\ SameFrames \/ (pending' = <<FirstFrame>> /\ next \in Defined)
  <2>1. PICK sym : sym = SymbolOf(Def(next))
    OBVIOUS
  <2>2. CASE StoresTemplate
    <3>1. PICK t : t = Added(object, sym, "declared", 0)
      OBVIOUS
    <3>2. PICK o : o = [t EXCEPT !.templates = Inserted(@, sym, next)]
      OBVIOUS
    <3>3. IsObject(t) /\ t.used = object.used
      BY <3>1, AddedFacts DEF ParamsShape
    <3>4. o.used = object.used
      BY <3>2, <3>3 DEF IsObject
    <3> QED
      BY <1>1, <1>4, <2>1, <2>2, <3>1, <3>2, <3>4 DEF StoresTemplate
  <2>3. CASE StartsBody
    <3>1. PICK t : t = Added(object, sym, "defined", Len(Def(next).names))
      OBVIOUS
    <3>2. IsObject(t) /\ t.used = object.used
      BY <3>1, AddedFacts DEF ParamsShape
    <3>3. object' = [t EXCEPT !.symbols = Inserted(@, sym, "defined")]
      BY <2>1, <2>3, <3>1 DEF StartsBody
    <3>4. object'.used = object.used
      BY <3>2, <3>3 DEF IsObject
    <3> QED
      BY <1>4, <2>3, <3>4 DEF StartsBody, Still
  <2> QED
    BY <1>4, <2>2, <2>3, GenFunctionCases DEF Aborts, Failures
<1>5. CASE GenDefine
  BY <1>4, <1>5 DEF GenDefine, Turn, Defined, IsGenerated
<1>6. CASE GenMetadata
  BY <1>1, <1>4, <1>6 DEF GenMetadata, Turn, Defined
<1>7. CASE GenOther
  BY <1>1, <1>7 DEF GenOther
<1>8. CASE EndBody
  <2>1. /\ Still /\ UNCHANGED object
        /\ pending' \in Seq(Frames) /\ Len(pending') = Len(pending) - 1
        /\ \A k \in 1 .. Len(pending) - 1 : pending'[k] = pending[k]
    BY <1>8, EndBodyFacts
  <2>2. Len(pending) \in Nat /\ DOMAIN pending = 1 .. Len(pending)
    BY DEF FramesShape
  <2> QED
    BY <2>1, <2>2 DEF SameFrames
<1>9. CASE EmitObject
  BY <1>9 DEF EmitObject, Still, SameFrames
<1>10. CASE ReadsLocally
  <2>1. Goes /\ pending # <<>> /\ Top.at \in DOMAIN Reading
    BY <1>10, ReadsLocallyCases DEF Aborts, Failures
  <2> QED
    BY <2>1, AdvancedSame DEF Goes, Still
<1>11. ~GenShifted
  BY DEF GenShifted, Aborts, Failures
<1> QED
  BY <1>2, <1>3, <1>5, <1>6, <1>7, <1>8, <1>9, <1>10, <1>11 DEF Generate, ReadsLocally

-----------------------------------------------------------------------------
(* Where all fits.                                                         *)

\* A symbol that is there has the parameters of the function of its name.
LEMMA ParametersThere ==
  ASSUME Base, ObjectShape, InOrder, Fitting, next \in Defined
  PROVE  ~Unfitting
<1>1. SUFFICES ASSUME Unfitting
               PROVE  FALSE
  OBVIOUS
<1>2. PICK s : s = SymbolOf(Def(next))
  OBVIOUS
<1>3. /\ ~IsTemplate(next) /\ s \in DOMAIN object.symbols
      /\ object.params[s] < Len(Def(next).names)
  BY <1>1, <1>2 DEF Unfitting
<1>4. /\ next \in DOMAIN KeptItems /\ Def(next).op = "Define" /\ Def(next).names \in Seq(STRING)
  BY DefinedTyped DEF Base, Defined, WellParsed, Def
<1>5. PICK j \in DOMAIN KeptItems : HasArityOf(s, object.params[s], j)
  BY <1>3 DEF ObjectShape, ParamsShape
<1>6. Def(j).op \in {"Define", "Import"} /\ Def(j).name = Def(next).name
  BY <1>2, <1>5, SymbolTellsName DEF HasArityOf, Tells
<1>7. CASE j \in Templates
  <2>1. j \in Defined /\ IsTemplate(j) /\ IsGenerated(j) /\ next # j
    BY <1>3, <1>7 DEF Templates, Defined
  <2> QED
    BY <1>4, <1>6, <2>1 DEF InOrder
<1>8. CASE object.params[s] = Arity(Def(j))
  <2>1. Arity(Def(next)) = Len(Def(next).names) /\ Len(Def(next).names) \in Nat
    BY <1>4 DEF Arity
  <2>2. Arity(Def(j)) = Arity(Def(next))
    BY <1>4, <1>6 DEF Fitting
  <2> QED
    BY <1>3, <1>8, <2>1, <2>2
<1> QED
  BY <1>5, <1>7, <1>8 DEF HasArityOf

\* What a verified body looks up locally, under the shapes of the module.
LEMMA BodyFinds ==
  ASSUME Base, Judged, ModuleOK(KeptItems), NEW i \in Defined
  PROVE  /\ FindsAll(Def(i), ShapesOf(KeptItems))
         /\ Guessed(Def(i)) \subseteq FieldsOf(ShapesOf(KeptItems))
<1>1. i \in DOMAIN KeptItems /\ Def(i).op = "Define"
  BY DefinedTyped DEF Defined, Base
<1>2. PICK d, t, F : /\ d = Def(i) /\ t = ShapesOf(KeptItems)
                     /\ F = NamesOf(KeptItems, {"Define", "Import"})
  OBVIOUS
<1>3. BodyOK(d, t, F)
  BY <1>1, <1>2 DEF ModuleOK, Def
<1>4. JudgedByNames(d, Tables, STRING)
  BY <1>1, <1>2, KeptJudged
<1>5. t \in Tables /\ F \in SUBSET STRING
  BY <1>2, KeptShapes
<1>6. AgreeOn(Calls(d), t, t)
  BY DEF AgreeOn
<1>7. Guessed(d) \subseteq FieldsOf(t)
  BY <1>3, <1>4, <1>5, <1>6 DEF JudgedByNames
<1>8. FindsAll(d, t)
  BY <1>3, <1>4, <1>5 DEF JudgedByNames
<1> QED
  BY <1>2, <1>7, <1>8

LEMMA ParameterPassed ==
  ASSUME Base, ObjectShape, PassedShape, Judged, ModuleOK(KeptItems),
         pending # <<>>, Top.at \in DOMAIN Reading, Reading[Top.at].how = "expand"
  PROVE  Reading[Top.at].of[1].param \in DOMAIN Top.shapes
<1>1. /\ Top.item \in Defined /\ Reading = References(Def(Top.item))
      /\ Len(pending) \in DOMAIN pending /\ Top = pending[Len(pending)] /\ Reading \in Seq(Lookup)
  BY TopFacts DEF ObjectShape, Reading
<1>2. DOMAIN Top.shapes = DOMAIN Def(Top.item).names
  BY <1>1 DEF PassedShape
<1>3. Reading[Top.at] \in ToSet(References(Def(Top.item)))
  BY <1>1 DEF ToSet
<1>4. FindsAll(Def(Top.item), ShapesOf(KeptItems))
  BY <1>1, BodyFinds
<1> QED
  BY <1>2, <1>3, <1>4 DEF FindsAll

LEMMA FieldThere ==
  ASSUME Base, ObjectShape, PassedShape, InOrder, Judged, ModuleOK(KeptItems),
         pending # <<>>, Top.at \in DOMAIN Reading, Reading[Top.at].how = "field"
  PROVE  HasFieldHere(Reading[Top.at])
<1>1. PICK m, n : m = Top.item /\ n = Len(pending)
  OBVIOUS
<1>2. /\ m \in Defined /\ Reading = References(Def(m)) /\ Reading \in Seq(Lookup)
      /\ n \in DOMAIN pending /\ Top = pending[n] /\ 1 \in DOMAIN pending
  BY <1>1, TopFacts DEF ObjectShape, Reading
<1>3. PICK r : r = Reading[Top.at]
  OBVIOUS
<1>4. PICK t : t = ShapesOf(KeptItems)
  OBVIOUS
<1>5. object.shapes = t
  <2>1. next \in Defined
    BY <1>2 DEF ObjectShape, FramesShape
  <2> QED
    BY <1>4, <2>1, ShapesGenerated
<1>6. r \in ToSet(References(Def(m)))
  BY <1>2, <1>3 DEF ToSet
<1>7. /\ r.of[1].shape # NoShape => r.name \in FieldIn(t, r.of[1].shape)
      /\ r.of[1].shape = NoShape => r.name \in Guessed(Def(m))
      /\ Guessed(Def(m)) \subseteq FieldsOf(t)
  BY <1>2, <1>3, <1>4, <1>6, BodyFinds DEF FindsAll
<1>8. CASE r.of[1].shape # NoShape
  BY <1>3, <1>5, <1>7, <1>8 DEF HasFieldHere, ShapeHere
<1>9. CASE r.of[1].shape = NoShape
  <2>1. PICK here : here = ShapeHere(r.of[1])
    OBVIOUS
  <2>2. CASE here = NoShape
    <3>1. \E s \in DOMAIN t : r.name \in ToSet(t[s])
      BY <1>7, <1>9 DEF FieldsOf
    <3> QED
      BY <1>3, <1>5, <2>1, <2>2, <3>1 DEF HasFieldHere
  <2>3. CASE here # NoShape
    <3>1. r.of[1].param \in DOMAIN Top.shapes /\ here = Top.shapes[r.of[1].param]
      BY <1>9, <2>1, <2>3 DEF ShapeHere
    <3>2. /\ n # 1
          /\ \A u \in Templates : Guessed(Def(u)) \subseteq FieldIn(t, here)
      BY <1>2, <1>4, <2>3, <3>1 DEF PassedShape
    <3>3. m \in Templates
      BY <1>1, <1>2, <3>2 DEF ObjectShape, FramesShape, Templates
    <3>4. r.name \in FieldIn(object.shapes, here)
      BY <1>5, <1>7, <1>9, <3>2, <3>3
    <3> QED
      BY <1>3, <2>1, <2>3, <3>4 DEF HasFieldHere
  <2> QED
    BY <2>2, <2>3
<1> QED
  BY <1>8, <1>9

\* What is passed along stays as it is.
LEMMA PassedAlong ==
  ASSUME Still, PassedShape, SameFrames
  PROVE  PassedShape'
<1>1. /\ KeptItems' = KeptItems /\ Templates' = Templates /\ \A i : Def(i)' = Def(i)
      /\ ShapesOf(KeptItems)' = ShapesOf(KeptItems)
  BY KeptStays DEF Still, ShapesOf
<1>2. ASSUME NEW k \in DOMAIN pending'
      PROVE  /\ DOMAIN pending'[k].shapes = DOMAIN Def(pending'[k].item).names
             /\ \A p \in DOMAIN pending'[k].shapes :
                  \/ pending'[k].shapes[p] = NoShape
                  \/ k # 1 /\ \A u \in Templates :
                       Guessed(Def(u)) \subseteq FieldIn(ShapesOf(KeptItems), pending'[k].shapes[p])
  BY DEF SameFrames, PassedShape
<1> QED
  BY <1>1, <1>2 DEF PassedShape

LEMMA FirstPassed ==
  ASSUME Base, Still, next \in Defined, pending' = <<FirstFrame>>
  PROVE  PassedShape'
<1>1. \A i : Def(i)' = Def(i)
  BY KeptStays DEF Still
<1>2. DOMAIN pending' = {1} /\ pending'[1] = FirstFrame
  OBVIOUS
<1> QED
  BY <1>1, <1>2, FirstFrameTyped DEF PassedShape

\* A call passes all parameters, and shapes that fit.
LEMMA CallPasses ==
  ASSUME Base, ObjectShape, Fitting, PassedShape, GenCall, stage' = "generate"
  PROVE  PassedShape'
<1>1. PICK call : call = Reading[Top.at]
  OBVIOUS
<1>2. PICK sym : sym = Resolve(call.name, object)
  OBVIOUS
<1>3. PICK m : m = Top.item
  OBVIOUS
<1>4. /\ pending # <<>> /\ Top.at \in DOMAIN Reading /\ call.how = "call"
      /\ \A why \in Failures : ~Abort(why)
  BY <1>1, <1>2, GenCallCases DEF Abort, Failures
<1>5. /\ m \in Defined /\ Reading = References(Def(m)) /\ Reading \in Seq(Lookup)
      /\ Len(pending) \in Nat /\ Len(pending) > 0 /\ DOMAIN pending = 1 .. Len(pending)
      /\ Top = pending[Len(pending)]
  BY <1>3, <1>4, TopFacts DEF ObjectShape, Reading
<1>6. CASE sym \notin DOMAIN object.templates
  <2>1. pending' = Advanced /\ Still
    BY <1>1, <1>2, <1>4, <1>6, GenCallCases DEF Still, Failures
  <2> QED
    BY <1>4, <2>1, AdvancedSame, PassedAlong DEF ObjectShape
<1>7. CASE sym \in DOMAIN object.templates
  <2>1. PICK j, shapes : j = object.templates[sym] /\ shapes = Passed(call, Def(j))
    OBVIOUS
  <2>2. pending' = Append(Advanced, Frame(j, shapes)) /\ Still
    BY <1>1, <1>2, <1>4, <1>7, <2>1, GenCallCases DEF Still, Failures
  <2>3. j \in Templates /\ j \in Nat /\ call.name = Def(j).name
    <3>1. j \in Defined /\ IsTemplate(j) /\ sym = SymbolOf(Def(j))
      BY <1>7, <2>1 DEF ObjectShape, TemplatesShape
    <3>2. Def(j).name = call.name
      BY <1>2, <3>1, TemplateNamed
    <3>3. j \in Nat
      BY <3>1, DefinedTyped DEF Base
    <3> QED
      BY <3>1, <3>2, <3>3 DEF Templates
  <2>4. call \in Found(m, {"call"})
    BY <1>1, <1>4, <1>5 DEF Found, ToSet
  <2>5. /\ DOMAIN Def(j).names \subseteq DOMAIN call.of
        /\ \A p \in DOMAIN call.of : call.of[p].shape # NoShape =>
             \A u \in Templates : Guessed(Def(u)) \subseteq FieldIn(ShapesOf(KeptItems), call.of[p].shape)
    BY <1>5, <2>3, <2>4 DEF Fitting
  <2>6. shapes \in ShapeMaps /\ DOMAIN shapes = DOMAIN Def(j).names
    BY <1>1, <1>4, <2>1, <2>5, PassedTyped DEF ObjectShape
  <2>7. ASSUME NEW p \in DOMAIN shapes
        PROVE  \/ shapes[p] = NoShape
               \/ \A u \in Templates : Guessed(Def(u)) \subseteq FieldIn(ShapesOf(KeptItems), shapes[p])
    <3>1. p \in DOMAIN call.of /\ shapes[p] = ShapeHere(call.of[p])
      BY <2>1, <2>5, <2>6 DEF Passed
    <3>2. CASE call.of[p].shape # NoShape
      BY <2>5, <3>1, <3>2 DEF ShapeHere
    <3>3. CASE call.of[p].shape = NoShape
      BY <1>5, <3>1, <3>3 DEF ShapeHere, PassedShape
    <3> QED
      BY <3>2, <3>3
  <2>8. /\ Frame(j, shapes) \in Frames /\ Frame(j, shapes).item = j /\ Frame(j, shapes).shapes = shapes
    BY <2>3, <2>6, FrameTyped
  <2>9. /\ DOMAIN pending' = 1 .. Len(pending) + 1 /\ pending'[Len(pending) + 1] = Frame(j, shapes)
        /\ \A k \in DOMAIN pending : /\ pending'[k].item = pending[k].item
                                     /\ pending'[k].shapes = pending[k].shapes
    <3>1. /\ Advanced \in Seq(Frames) /\ Len(Advanced) = Len(pending)
          /\ \A k \in DOMAIN pending : /\ Advanced[k].item = pending[k].item
                                       /\ Advanced[k].shapes = pending[k].shapes
      BY <1>4, AdvancedFacts DEF ObjectShape
    <3>2. /\ DOMAIN pending' = 1 .. Len(pending) + 1 /\ pending'[Len(pending) + 1] = Frame(j, shapes)
          /\ \A k \in DOMAIN pending : pending'[k] = Advanced[k]
      BY <1>5, <2>2, <2>8, <3>1
    <3> QED
      BY <3>1, <3>2
  <2>10. ASSUME NEW k \in DOMAIN pending'
         PROVE  /\ DOMAIN pending'[k].shapes = DOMAIN Def(pending'[k].item).names
                /\ \A p \in DOMAIN pending'[k].shapes :
                     \/ pending'[k].shapes[p] = NoShape
                     \/ k # 1 /\ \A u \in Templates :
                          Guessed(Def(u)) \subseteq FieldIn(ShapesOf(KeptItems), pending'[k].shapes[p])
    <3>1. CASE k \in DOMAIN pending
      BY <2>9, <3>1 DEF PassedShape
    <3>2. CASE k = Len(pending) + 1
      <4>1. k # 1 /\ pending'[k].shapes = shapes /\ pending'[k].item = j
        BY <1>5, <2>8, <2>9, <3>2
      <4> QED
        BY <2>6, <2>7, <4>1
    <3> QED
      BY <1>5, <2>9, <3>1, <3>2
  <2>11. /\ Templates' = Templates /\ \A i : Def(i)' = Def(i)
         /\ ShapesOf(KeptItems)' = ShapesOf(KeptItems)
    BY <2>2, KeptStays DEF Still, ShapesOf
  <2> QED
    BY <2>10, <2>11 DEF PassedShape
<1> QED
  BY <1>6, <1>7

-----------------------------------------------------------------------------
(* How a module that is in order can fail.                                 *)

OnlyFits == stage' \in {"parameters", "arguments", "field"} => ~(Fitting /\ PassedShape)

LEMMA StageInOrder ==
  ASSUME Base, ObjectShape, InOrder, Judged, ModuleOK(KeptItems), Generate,
         Descending, NoneOfTemplates(object.used)
  PROVE  stage' \notin {"unverified", "unknown", "endless"} /\ OnlyFits
<1>1. ASSUME stage' \in {"generate", "done", "moved", "typed", "output"}
      PROVE  stage' \notin {"unverified", "unknown", "endless"} /\ OnlyFits
  BY <1>1 DEF OnlyFits
<1>2. ASSUME stage = "generate", NEW o, Generated(o)
      PROVE  stage' = "generate"
  BY <1>2 DEF Generated
<1>3. ASSUME next \in Defined, stage = "generate", GenFunction
      PROVE  stage' = "generate" \/ (stage' = "parameters" /\ ~Fitting)
  <2>1. ~Unverified
    BY <1>3, BodyVerified DEF Unverified
  <2>2. Unfitting => ~Fitting
    BY <1>3, ParametersThere
  <2>3. StoresTemplate \/ StartsBody => stage' = "generate"
    BY <1>2, <1>3 DEF StoresTemplate, StartsBody
  <2> QED
    BY <1>3, <2>1, <2>2, <2>3, GenFunctionCases DEF Abort
<1>4. CASE GenDefine \/ GenMetadata
  <2>1. stage' = "generate" \/ (stage' = "parameters" /\ ~Fitting)
    BY <1>2, <1>3, <1>4 DEF GenDefine, GenMetadata, Turn, Defined, IsGenerated
  <2> QED
    BY <2>1 DEF OnlyFits
<1>5. CASE GenShape \/ GenImport \/ GenOther
  <2>1. stage' = "generate"
    BY <1>2, <1>5 DEF GenShape, GenImport, GenOther, Turn
  <2> QED
    BY <1>1, <2>1
<1>6. CASE GenCall \/ GenValue
  <2>1. stage' = "generate"
    BY <1>6, CallInOrder, ValueInOrder
  <2> QED
    BY <1>1, <2>1
<1>7. CASE ReadsLocally
  <2>1. stage' = "arguments" => ~PassedShape
    BY <1>7, ReadsLocallyCases, ParameterPassed DEF Goes, Abort
  <2>2. stage' = "field" => ~PassedShape
    BY <1>7, ReadsLocallyCases, FieldThere DEF Goes, Abort
  <2>3. stage' \in {"generate", "arguments", "field", "typed"}
    BY <1>7, ReadsLocallyCases DEF Goes, Abort
  <2> QED
    BY <2>1, <2>2, <2>3 DEF OnlyFits
<1>8. CASE GenShifted \/ EndBody \/ EmitObject
  <2>1. stage' \in {"generate", "done", "moved", "output"}
    BY <1>8 DEF GenShifted, EndBody, EmitObject, Abort
  <2> QED
    BY <1>1, <2>1
<1> QED
  BY <1>4, <1>5, <1>6, <1>7, <1>8 DEF Generate, ReadsLocally

LEMMA OrderStays ==
  ASSUME Base, ObjectShape, InOrder, Descending, NoneOfTemplates(object.used), Generate, ~Aborts
  PROVE  /\ Descending' /\ NoneOfTemplates(object.used)'
         /\ Fitting /\ PassedShape => PassedShape'
<1>1. Still
  BY GenerateKeeps
<1>2. CASE GenCall
  BY <1>2, CallInOrder, CallPasses
<1>3. CASE GenValue
  BY <1>1, <1>3, ValueInOrder, PassedAlong
<1>4. CASE ~GenCall /\ ~GenValue
  <2>1. /\ object'.used = object.used
        /\ SameFrames \/ (pending' = <<FirstFrame>> /\ next \in Defined)
    BY <1>4, UsedStays
  <2>2. /\ Defined' = Defined /\ \A i : Def(i)' = Def(i) /\ IsTemplate(i)' = IsTemplate(i)
        /\ \A d : SymbolOf(d)' = SymbolOf(d)
    BY <1>1, KeptStays DEF Still
  <2>3. NoneOfTemplates(object.used)'
    BY <2>1, <2>2 DEF NoneOfTemplates
  <2>4. CASE SameFrames
    <3>1. Descending'
      BY <2>4 DEF Descending, SameFrames
    <3> QED
      BY <1>1, <2>3, <2>4, <3>1, PassedAlong
  <2>5. CASE pending' = <<FirstFrame>> /\ next \in Defined
    <3>1. Descending'
      BY <2>5 DEF Descending
    <3> QED
      BY <1>1, <2>3, <2>5, <3>1, FirstPassed
  <2> QED
    BY <2>1, <2>4, <2>5
<1> QED
  BY <1>2, <1>3, <1>4

\* The order of what is generated only depends on what is kept.
LEMMA SameOrder ==
  ASSUME UNCHANGED <<pruneVars, stem, module, object, pending>>,
         Descending, NoneOfTemplates(object.used)
  PROVE  /\ Descending' /\ NoneOfTemplates(object.used)'
         /\ PassedShape => PassedShape'
<1>1. /\ Defined' = Defined /\ \A i : Def(i)' = Def(i) /\ IsTemplate(i)' = IsTemplate(i)
      /\ \A d : SymbolOf(d)' = SymbolOf(d)
  BY KeptStays
<1>2. Still /\ SameFrames
  BY DEF Still, SameFrames
<1> QED
  BY <1>1, <1>2, PassedAlong DEF Descending, NoneOfTemplates

LEMMA GenerateInOrder ==
  ASSUME Base, ObjectShape, OrderShape, Judged, ModuleOK(KeptItems), InOrder, Generate
  PROVE  OrderShape'
<1>1. /\ Descending /\ NoneOfTemplates(object.used) /\ (Fitting => PassedShape)
  BY DEF OrderShape
<1>2. stage' \notin {"unverified", "unknown", "endless"} /\ OnlyFits
  BY <1>1, StageInOrder
<1>3. /\ Descending' /\ NoneOfTemplates(object.used)'
      /\ Fitting => PassedShape'
  <2>1. CASE Aborts
    <3>1. UNCHANGED <<pruneVars, stem, module, object, pending>>
      BY <2>1 DEF Aborts, Abort
    <3> QED
      BY <1>1, <3>1, SameOrder
  <2>2. CASE ~Aborts
    BY <1>1, <2>2, OrderStays
  <2> QED
    BY <2>1, <2>2
<1>4. Fitting' = Fitting
  <2>1. Still
    BY GenerateKeeps DEF Aborts, Abort, Still
  <2> QED
    BY <2>1, KeptStays DEF Still
<1> QED
  BY <1>1, <1>2, <1>3, <1>4 DEF OrderShape, OnlyFits

-----------------------------------------------------------------------------
(* What the invariant says of the object.                                  *)

BuildInv ==
  /\ PruneInv /\ ModuleInv /\ Judged /\ StageShape
  /\ Generating => ObjectShape /\ MissingShape /\ OrderShape

\* The linker finds the definition of what a call declared before it.
LEMMA CallFound ==
  ASSUME Base, ObjectShape, next \notin DOMAIN KeptItems, NEW m \in Defined, NEW c,
         ~ImportedBefore(m, c), \A j \in Defined : Def(j).name = c => m < j, Finds(m, c),
         Private(c) \in DOMAIN object.symbols
  PROVE  object.symbols[Private(c)] = "defined"
<1>1. Defined \subseteq Nat /\ Defined \subseteq 1 .. Len(KeptItems) /\ Len(KeptItems) \in Nat
  BY DefinedTyped DEF Base
<1>2. PICK j \in Defined : /\ Def(j).name = c /\ ~IsTemplate(j)
                           /\ j =< m \/ ~Def(j).exported \/ c = "main"
  BY DEF Finds
<1>3. ~Def(j).exported \/ c = "main"
  BY <1>1, <1>2
<1>4. SymbolOf(Def(j)) = Private(c)
  BY <1>2, <1>3, SymbolTellsName
<1>5. Started(j)
  <2>1. next \in 1 .. Len(KeptItems) + 1
    BY DEF ObjectShape, FramesShape
  <2>2. next \notin 1 .. Len(KeptItems)
    BY KeptTyped DEF Base
  <2>3. next = Len(KeptItems) + 1
    BY <1>1, <2>1, <2>2
  <2> QED
    BY <1>1, <2>3 DEF Started
<1> QED
  BY <1>2, <1>4, <1>5 DEF ObjectShape, StartedShape

\* An undefined symbol is a template's, or of a call that is not found.
LEMMA UndefinedFacts ==
  ASSUME Base, ObjectShape, next \notin DOMAIN KeptItems, NEW s \in Undefined
  PROVE  \/ ByTemplate(s)
         \/ \E m \in Defined : \E c \in UsedBy(m) :
              /\ ~Finds(m, c) /\ \A j \in Defined : Def(j).name = c => m < j
<1>1. s \in DOMAIN object.symbols /\ object.symbols[s] = "declared"
  BY DEF Undefined, ObjectShape, UsedShape
<1>2. ByTemplate(s) \/ ByCall(s)
  BY <1>1 DEF ObjectShape, SymbolsShape
<1>3. ASSUME ByCall(s)
      PROVE  \E m \in Defined : \E c \in UsedBy(m) :
               /\ ~Finds(m, c) /\ \A j \in Defined : Def(j).name = c => m < j
  <2>1. PICK m \in Defined : \E c \in UsedBy(m) :
               /\ Started(m) /\ s = Private(c) /\ ~ImportedBefore(m, c)
               /\ \A j \in Defined : Def(j).name = c => m < j
    BY <1>3 DEF ByCall
  <2>2. PICK c \in UsedBy(m) :
               /\ s = Private(c) /\ ~ImportedBefore(m, c)
               /\ \A j \in Defined : Def(j).name = c => m < j
    BY <2>1
  <2>3. ~Finds(m, c)
    BY <1>1, <2>2, CallFound
  <2> QED
    BY <2>2, <2>3
<1> QED
  BY <1>2, <1>3

LEMMA BuildInvLinks == BuildInv => LinksExactly
<1>1. SUFFICES ASSUME BuildInv, stage = "done", ~(\E i \in Defined : IsTemplate(i))
               PROVE  Undefined = {} <=> \A i \in Defined : \A c \in UsedBy(i) : Finds(i, c)
  BY DEF LinksExactly
<1>2. Base /\ ObjectShape /\ MissingShape /\ NoTemplates /\ next \notin DOMAIN KeptItems
  BY <1>1 DEF BuildInv, Base, PruneInv, PruneTypeOK, Generating, StageShape, NoTemplates
<1>3. ASSUME NEW s \in Undefined
      PROVE  \E i \in Defined : \E c \in UsedBy(i) : ~Finds(i, c)
  BY <1>2, <1>3, UndefinedFacts DEF ByTemplate, NoTemplates
<1>4. ASSUME NEW i \in Defined, NEW c \in UsedBy(i), ~Finds(i, c)
      PROVE  Undefined # {}
  <2>1. PICK k \in DOMAIN References(Def(i)) :
               References(Def(i))[k].name = c /\ Names(References(Def(i))[k])
    BY <1>2, <1>4, DefinedTyped DEF UsedBy, Found, Names, ToSet, Base
  <2>2. i < next
    <3>1. /\ Defined \subseteq 1 .. Len(KeptItems) /\ DOMAIN KeptItems = 1 .. Len(KeptItems)
          /\ Len(KeptItems) \in Nat
      BY <1>2, DefinedTyped, KeptTyped DEF Base
    <3>2. next = Len(KeptItems) + 1
      BY <1>2, <3>1 DEF ObjectShape, FramesShape
    <3> QED
      BY <3>1, <3>2
  <2>3. Missing(c)
    BY <1>2, <1>4, <2>1, <2>2 DEF MissingShape, Read
  <2> QED
    BY <2>3 DEF Missing, Undefined
<1> QED
  BY <1>3, <1>4

LEMMA BuildInvVerified == BuildInv => VerifiedBuilds
<1>1. SUFFICES ASSUME BuildInv, Generating, InOrder
               PROVE  /\ stage \notin {"unverified", "unknown", "endless"}
                      /\ Fitting => stage \notin {"parameters", "arguments", "field"}
                      /\ stage = "done" => Undefined = {}
  BY DEF VerifiedBuilds, Generating
<1>2. /\ Base /\ ObjectShape /\ NoneOfTemplates(object.used)
      /\ stage \notin {"unverified", "unknown", "endless"}
      /\ Fitting => stage \notin {"parameters", "arguments", "field"}
  BY <1>1 DEF BuildInv, Base, PruneInv, PruneTypeOK, OrderShape
<1>3. ASSUME stage = "done", NEW s \in Undefined
      PROVE  FALSE
  <2>1. next \notin DOMAIN KeptItems
    BY <1>1, <1>3 DEF BuildInv, StageShape
  <2>2. ~ByTemplate(s)
    BY <1>2, <1>3 DEF ByTemplate, NoneOfTemplates, Undefined
  <2>3. \E m \in Defined : \E c \in UsedBy(m) :
          /\ ~Finds(m, c) /\ \A j \in Defined : Def(j).name = c => m < j
    BY <1>2, <1>3, <2>1, <2>2, UndefinedFacts
  <2>4. PICK m \in Defined : \E c \in UsedBy(m) :
               /\ ~Finds(m, c) /\ \A j \in Defined : Def(j).name = c => m < j
    BY <2>3
  <2>5. PICK c \in UsedBy(m) : ~Finds(m, c) /\ \A j \in Defined : Def(j).name = c => m < j
    BY <2>4
  <2>6. m \in DOMAIN KeptItems /\ IsGenerated(m) /\ Defined \subseteq Nat
    BY <1>2, DefinedTyped DEF Defined, Base
  <2>7. \E j \in Defined : j < m /\ Def(j).name = c
    BY <1>1, <2>5, <2>6 DEF InOrder
  <2> QED
    BY <2>5, <2>6, <2>7
<1> QED
  BY <1>2, <1>3

LEMMA BuildInvTyped == BuildInv => BuildTypeOK
<1>1. SUFFICES ASSUME BuildInv
               PROVE  BuildTypeOK
  OBVIOUS
<1>2. Base /\ PruneTypeOK
  BY <1>1 DEF BuildInv, Base, PruneInv, PruneTypeOK
<1>3. CASE ~Generating
  BY <1>1, <1>2, <1>3, KeptTyped DEF BuildInv, StageShape, BuildTypeOK, Base
<1>4. CASE Generating
  <2>1. FramesShape
    BY <1>1, <1>4 DEF BuildInv, ObjectShape
  <2>2. next \in 1 .. Len(items) + 1 /\ next \in Nat
    BY <1>2, <2>1, KeptTyped DEF FramesShape, Base
  <2>3. ASSUME NEW k \in DOMAIN pending
        PROVE  pending[k].item \in 1 .. next /\ pending[k].at \in Nat
    <3>1. Defined \subseteq 1 .. Len(KeptItems) /\ Len(KeptItems) \in Nat
      BY <1>2, DefinedTyped DEF Base
    <3>2. pending[k].item \in Defined /\ pending[k] \in Frames
      BY <2>1, <2>3 DEF FramesShape
    <3>3. pending[k].item = next \/ pending[k].item < next
      BY <2>1, <2>3 DEF FramesShape
    <3> QED
      BY <2>2, <3>1, <3>2, <3>3 DEF Frames
  <2> QED
    BY <1>2, <2>2, <2>3 DEF BuildTypeOK
<1> QED
  BY <1>3, <1>4

-----------------------------------------------------------------------------
(* Pruning and the verdict.                                                *)

\* All items of a name are kept if it is reached.
LEMMA KeptNames ==
  ASSUME Base, NEW c \in reachable, NEW q \in Positions,
         Unwrap(module[q]).op \in {"Define", "Import", "Shape"}, Unwrap(module[q]).name = c
  PROVE  q \in KeptAt
<1>1. items[q] = AsItem(module[q])
  BY DEF Base, ModuleInv
<1>2. items[q].kind \in {"define", "import", "shape"} /\ items[q].name = c
  BY <1>1 DEF AsItem
<1> QED
  BY <1>2 DEF KeptAt, Kept

LEMMA CallsReached ==
  ASSUME Base, ClosedUnderCalls(reachable), NEW p \in KeptAt, Unwrap(module[p]).op = "Define"
  PROVE  Calls(Unwrap(module[p])) \subseteq reachable
<1>1. p \in Positions /\ Kept(p)
  BY DEF KeptAt
<1>2. items[p] = AsItem(module[p]) /\ WellParsed(module[p])
  BY <1>1 DEF Base, ModuleInv
<1>3. items[p].kind = "define" /\ items[p].calls = Calls(module[p])
  BY <1>2 DEF AsItem
<1>4. items[p].name \in reachable
  BY <1>1, <1>3 DEF Kept
<1>5. Calls(module[p]) \subseteq reachable
  BY <1>1, <1>3, <1>4 DEF ClosedUnderCalls, IsDefine
<1> QED
  BY <1>2, <1>5 DEF WellParsed

\* Positions in the module and in what is kept of it.
LEMMA KeptRanks ==
  ASSUME Base
  PROVE  /\ \A q \in KeptAt : /\ Rank(KeptAt, q) \in DOMAIN KeptItems
                              /\ KeptItems[Rank(KeptAt, q)] = module[q]
         /\ \A k \in DOMAIN KeptItems : /\ Nth(KeptAt, k) \in KeptAt
                                        /\ KeptItems[k] = module[Nth(KeptAt, k)]
                                        /\ Rank(KeptAt, Nth(KeptAt, k)) = k
         /\ \A p, q \in KeptAt : p =< q => Rank(KeptAt, p) =< Rank(KeptAt, q)
<1>1. /\ KeptAt \in SUBSET Nat /\ IsFiniteSet(KeptAt)
      /\ DOMAIN KeptItems = 1 .. Len(KeptItems) /\ Len(KeptItems) = Cardinality(KeptAt)
  BY KeptTyped DEF Base
<1>2. \A k \in DOMAIN KeptItems : Nth(KeptAt, k) \in KeptAt /\ KeptItems[k] = module[Nth(KeptAt, k)]
  BY KeptTyped DEF Base
<1>3. /\ \A i \in KeptAt : Rank(KeptAt, i) \in DOMAIN KeptItems /\ Nth(KeptAt, Rank(KeptAt, i)) = i
      /\ \A i, j \in KeptAt : i < j => Rank(KeptAt, i) < Rank(KeptAt, j)
      /\ \A k \in DOMAIN KeptItems : Rank(KeptAt, Nth(KeptAt, k)) = k
      /\ \A i \in KeptAt : Rank(KeptAt, i) \in Nat
  BY <1>1, Ranks
<1>4. ASSUME NEW p \in KeptAt, NEW q \in KeptAt, p =< q
      PROVE  Rank(KeptAt, p) =< Rank(KeptAt, q)
  <2>1. p = q \/ p < q
    BY <1>1, <1>4
  <2>2. Rank(KeptAt, p) \in Nat /\ Rank(KeptAt, q) \in Nat
    BY <1>3
  <2> QED
    BY <1>3, <2>1, <2>2
<1> QED
  BY <1>2, <1>3, <1>4

\* A name that is reached means what it meant before.
LEMMA SameShapes ==
  ASSUME Base, NEW c \in reachable
  PROVE  /\ c \in DOMAIN ShapesOf(module) <=> c \in DOMAIN ShapesOf(KeptItems)
         /\ c \in DOMAIN ShapesOf(module) => ShapesOf(module)[c] = ShapesOf(KeptItems)[c]
<1> DEFINE all  == NamedShapes(module, c)
           kept == NamedShapes(KeptItems, c)
<1>1. /\ DOMAIN module = Positions /\ \A p \in Positions : WellParsed(module[p])
      /\ Positions = 1 .. Len(items) /\ Len(items) \in Nat
  BY LenProperties DEF Base, ModuleInv, Positions
<1>2. /\ DOMAIN KeptItems = 1 .. Len(KeptItems) /\ Len(KeptItems) \in Nat
      /\ \A i \in DOMAIN KeptItems : WellParsed(KeptItems[i])
  BY KeptTyped, DefinedTyped DEF Base
<1>3. \A q \in all : q \in KeptAt /\ Rank(KeptAt, q) \in kept
  <2>1. ASSUME NEW q \in all
        PROVE  q \in KeptAt
    BY <1>1, <2>1, KeptNames DEF NamedShapes
  <2> QED
    BY <2>1, KeptRanks DEF NamedShapes
<1>4. \A k \in kept : Nth(KeptAt, k) \in all /\ k \in DOMAIN KeptItems
  <2>1. ASSUME NEW k \in kept
        PROVE  k \in DOMAIN KeptItems /\ Nth(KeptAt, k) \in all
    <3>1. k \in DOMAIN KeptItems /\ Nth(KeptAt, k) \in KeptAt /\ KeptItems[k] = module[Nth(KeptAt, k)]
      BY KeptRanks DEF NamedShapes
    <3>2. Nth(KeptAt, k) \in DOMAIN module
      BY <1>1, <3>1 DEF KeptAt
    <3> QED
      BY <3>1, <3>2 DEF NamedShapes
  <2> QED
    BY <2>1
<1>5. all # {} <=> kept # {}
  BY <1>3, <1>4
<1>6. c \in DOMAIN ShapesOf(module) <=> all # {}
  BY <1>1, ShapesOfFacts
<1>7. c \in DOMAIN ShapesOf(KeptItems) <=> kept # {}
  BY <1>2, ShapesOfFacts
<1>8. ASSUME c \in DOMAIN ShapesOf(module)
      PROVE  ShapesOf(module)[c] = ShapesOf(KeptItems)[c]
  <2>1. PICK M : M = Max(all)
    OBVIOUS
  <2>2. /\ M \in all /\ \A q \in all : q =< M
        /\ ShapesOf(module)[c] = Unwrap(module[M]).names
    BY <1>1, <1>8, <2>1, ShapesOfFacts
  <2>3. /\ M \in KeptAt /\ Rank(KeptAt, M) \in kept
        /\ KeptItems[Rank(KeptAt, M)] = module[M]
    BY <1>3, <2>2, KeptRanks
  <2>4. ASSUME NEW k \in kept
        PROVE  k =< Rank(KeptAt, M)
    <3>1. Nth(KeptAt, k) \in all /\ Nth(KeptAt, k) \in KeptAt /\ Rank(KeptAt, Nth(KeptAt, k)) = k
      BY <1>4, KeptRanks
    <3> QED
      BY <2>2, <2>3, <3>1, KeptRanks
  <2>5. c \in DOMAIN ShapesOf(KeptItems)
    BY <1>5, <1>6, <1>7, <1>8
  <2>6. /\ \A i \in kept : (\A j \in kept : j =< i) => i = Max(kept)
        /\ ShapesOf(KeptItems)[c] = Unwrap(KeptItems[Max(kept)]).names
    BY <1>2, <2>5, ShapesOfFacts
  <2> QED
    BY <2>2, <2>3, <2>4, <2>6
<1> QED
  BY <1>5, <1>6, <1>7, <1>8

LEMMA SameFunctions ==
  ASSUME Base, NEW ops \in SUBSET {"Define", "Import"}
  PROVE  NamesOf(module, ops) \cap reachable \subseteq NamesOf(KeptItems, ops)
<1>1. SUFFICES ASSUME NEW c \in reachable, NEW q \in DOMAIN module,
                      Unwrap(module[q]).op \in ops, Unwrap(module[q]).name = c
               PROVE  c \in NamesOf(KeptItems, ops)
  BY DEF NamesOf
<1>2. q \in KeptAt
  BY <1>1, KeptNames DEF Base, ModuleInv
<1>3. Rank(KeptAt, q) \in DOMAIN KeptItems /\ KeptItems[Rank(KeptAt, q)] = module[q]
  BY <1>2, KeptRanks
<1> QED
  BY <1>1, <1>3 DEF NamesOf

LEMMA BuildInvVerdict == BuildInv => PruneKeepsVerdict
<1>1. SUFFICES ASSUME BuildInv, phase = "kept", RootsAgree, ModuleOK(module)
               PROVE  ModuleOK(KeptItems) <=>
                        \A i \in DOMAIN KeptItems :
                          Def(i).op = "Define" => Guessed(Def(i)) \subseteq FieldsOf(ShapesOf(KeptItems))
  BY DEF PruneKeepsVerdict
<1>2. Base /\ Judged
  BY <1>1 DEF BuildInv, Base, PruneInv, PruneTypeOK
<1>3. ClosedUnderCalls(reachable)
  BY <1>1, PruneInvMeans DEF BuildInv, KeepsExactlyReachable
<1>4. PICK s, t, F, G : /\ s = ShapesOf(module) /\ t = ShapesOf(KeptItems)
                        /\ F = NamesOf(module, {"Define", "Import"})
                        /\ G = NamesOf(KeptItems, {"Define", "Import"})
  OBVIOUS
<1>5. t \in Tables /\ G \in SUBSET STRING
  BY <1>2, <1>4, KeptShapes
<1>6. s \in Tables /\ F \in SUBSET STRING
  <2>1. /\ DOMAIN module = 1 .. Len(items) /\ Len(items) \in Nat
        /\ \A p \in DOMAIN module : WellParsed(module[p])
    BY <1>2, LenProperties DEF Base, ModuleInv, Positions
  <2>2. s \in Tables
    BY <1>4, <2>1, ShapesOfFacts
  <2>3. \A p \in DOMAIN module : Unwrap(module[p]).name \in STRING
    BY <2>1, NamesTyped
  <2> QED
    BY <1>4, <2>2, <2>3 DEF NamesOf
<1>7. ASSUME NEW i \in DOMAIN KeptItems, Def(i).op = "Define"
      PROVE  BodyOK(Def(i), t, G) <=> Guessed(Def(i)) \subseteq FieldsOf(t)
  <2>1. PICK p \in KeptAt : KeptItems[i] = module[p]
    BY <1>2, KeptRanks
  <2>2. PICK d : d = Def(i)
    OBVIOUS
  <2>3. d = Unwrap(module[p]) /\ p \in DOMAIN module
    BY <1>2, <2>1, <2>2 DEF Def, KeptAt, Base, ModuleInv
  <2>4. BodyOK(d, s, F)
    BY <1>1, <1>4, <1>7, <2>2, <2>3 DEF ModuleOK
  <2>5. JudgedByNames(d, Tables, STRING)
    BY <1>2, <1>7, <2>2, KeptJudged
  <2>6. Calls(d) \subseteq reachable
    BY <1>2, <1>3, <1>7, <2>2, <2>3, CallsReached
  <2>7. AgreeOn(Calls(d), s, t)
    BY <1>2, <1>4, <2>6, SameShapes DEF AgreeOn
  <2>8. F \cap Calls(d) \subseteq G
    BY <1>2, <1>4, <2>6, SameFunctions
  <2> QED
    BY <1>5, <1>6, <2>2, <2>4, <2>5, <2>7, <2>8 DEF JudgedByNames
<1> QED
  BY <1>4, <1>7 DEF ModuleOK, Def

-----------------------------------------------------------------------------
(* The invariant.                                                          *)

LEMMA NothingKept ==
  ASSUME Begin, items = <<>>, module = <<>>
  PROVE  PruneInv /\ ModuleInv /\ Judged
<1>1. PruneInv
  BY InitHolds DEF PruneInit
<1>2. Positions = {} /\ DOMAIN module = {} /\ \E S : module \in Seq(S)
  <2>1. module \in Seq({}) /\ Len(items) = 0
    OBVIOUS
  <2> QED
    BY <2>1 DEF Positions
<1> QED
  BY <1>1, <1>2 DEF ModuleInv, Judged

LEMMA BuildBegins == BuildInit /\ stage \in {"idle", "unused"} => BuildInv
<1>1. SUFFICES ASSUME BuildInit, stage \in {"idle", "unused"}
               PROVE  BuildInv
  OBVIOUS
<1>2. PruneInv /\ ModuleInv /\ Judged
  BY <1>1, NothingKept DEF BuildInit
<1>3. StageShape /\ ~Generating
  BY <1>1 DEF BuildInit, StageShape, Generating, Failures
<1> QED
  BY <1>2, <1>3 DEF BuildInv

LEMMA InitHoldsNext == PruneInit' => PruneInv'
  BY InitHolds, PTL

LEMMA StartBuildKeeps ==
  ASSUME BuildInv, NEW parsed, ParsedWell(parsed, Tables, STRING), StartBuild(parsed)
  PROVE  BuildInv'
<1>1. stage = "idle" /\ module = <<>> /\ items = <<>> /\ Begin
      /\ next = 1 /\ pending = <<>> /\ object = NothingGenerated
  BY DEF StartBuild, BuildInv, StageShape, Generating, Failures
<1>2. /\ Begin' /\ next' = 1 /\ pending' = <<>> /\ object' = NothingGenerated
      /\ stage' \in {"rejected", "prune"}
  BY <1>1 DEF StartBuild, Begin
<1>3. StageShape' /\ ~Generating'
  BY <1>2 DEF StageShape, Generating, NothingGenerated, Failures
<1>4. CASE parsed.err # ""
  <2>1. UNCHANGED <<items, module, pruneVars>>
    BY <1>4 DEF StartBuild, pruneVars
  <2>2. PruneInv' /\ ModuleInv' /\ Judged'
    <3>1. PruneInv'
      BY <2>1, PruneKeeps DEF BuildInv
    <3> QED
      BY <2>1, <3>1 DEF BuildInv, ModuleInv, Judged, Positions
  <2> QED
    BY <1>3, <2>2 DEF BuildInv
<1>5. CASE parsed.err = ""
  <2>1. PICK list : list = parsed.items
    OBVIOUS
  <2>2. /\ module' = list
        /\ items' = [p \in DOMAIN list |-> AsItem(list[p])]
    BY <1>5, <2>1 DEF StartBuild
  <2>3. PICK S : list \in Seq(S)
    BY <1>5, <2>1 DEF ParsedWell
  <2>4. DOMAIN list = 1 .. Len(list) /\ Len(list) \in Nat
    BY <2>3
  <2>5. \A p \in DOMAIN list :
          /\ WellParsed(list[p])
          /\ Unwrap(list[p]).op = "Define" => JudgedByNames(Unwrap(list[p]), Tables, STRING)
    BY <1>5, <2>1 DEF ParsedWell
  <2>6. items' \in Seq(Item) /\ Len(items') = Len(list)
    <3>1. \A p \in DOMAIN list : AsItem(list[p]) \in Item
      BY <2>5 DEF WellParsed
    <3> QED
      BY <2>2, <2>4, <3>1
  <2>7. Positions' = DOMAIN list
    BY <2>4, <2>6 DEF Positions
  <2>8. PruneInv'
    BY <1>2, <2>6, InitHoldsNext DEF PruneInit
  <2>9. ModuleInv' /\ Judged'
    BY <2>2, <2>3, <2>5, <2>7 DEF ModuleInv, Judged
  <2> QED
    BY <1>3, <2>8, <2>9 DEF BuildInv
<1> QED
  BY <1>4, <1>5

LEMMA PruneStepKeeps ==
  ASSUME BuildInv, PruneStep
  PROVE  BuildInv'
<1>1. /\ stage = "prune" /\ stage' = stage /\ PruneNext
      /\ UNCHANGED <<items, stem, module, next, object, pending>>
  BY DEF PruneStep, PruneNext, CollectRoot, RootsCollected, Visit, Rescan, Rescanned, NothingToVisit
<1>2. PruneInv'
  BY <1>1, PruneKeeps DEF BuildInv
<1>3. ModuleInv' /\ Judged'
  BY <1>1 DEF BuildInv, ModuleInv, Judged, Positions
<1>4. StageShape' /\ ~Generating'
  BY <1>1 DEF BuildInv, StageShape, Generating, NothingGenerated, Failures
<1> QED
  BY <1>2, <1>3, <1>4 DEF BuildInv

\* Before the first item, all is as the invariant says.
LEMMA NothingYet ==
  ASSUME Base, next = 1, pending = <<>>, object = NothingGenerated, stage \notin Failures
  PROVE  ObjectShape /\ MissingShape /\ OrderShape
<1>1. /\ IsObject(object) /\ object.shapes = <<>> /\ object.imports = <<>>
      /\ object.symbols = <<>> /\ object.params = <<>> /\ object.templates = <<>> /\ object.used = {}
  BY DEF NothingGenerated, IsObject
<1>2. DOMAIN <<>> = {} /\ AsFunction(<<>>)
  BY DEF AsFunction
<1>3. Defined \subseteq 1 .. Len(KeptItems) /\ Len(KeptItems) \in Nat /\ DOMAIN KeptItems = 1 .. Len(KeptItems)
  BY DefinedTyped, KeptTyped DEF Base
<1>4. \A i \in DOMAIN KeptItems : ~(i < next)
  BY <1>3
<1>5. \A i \in Defined : ~Started(i) /\ ~(i < next)
  BY <1>3 DEF Started
<1>6. FramesShape
  <2>1. pending \in Seq(Frames) /\ DOMAIN pending = {}
    OBVIOUS
  <2> QED
    BY <1>3, <2>1 DEF FramesShape
<1>7. SymbolsShape /\ StartedShape /\ UsedShape /\ ParamsShape
  BY <1>1, <1>2, <1>5 DEF SymbolsShape, StartedShape, UsedShape, ParamsShape
<1>8. ImportsShape /\ TemplatesShape /\ ShapesShape
  BY <1>1, <1>2, <1>4, <1>5 DEF ImportsShape, TemplatesShape, ShapesShape
<1>9. MissingShape
  BY <1>5 DEF MissingShape, Read
<1>10. OrderShape
  <2>1. DOMAIN pending = {}
    OBVIOUS
  <2> QED
    BY <1>1, <2>1 DEF OrderShape, Descending, NoneOfTemplates, PassedShape, Failures
<1> QED
  BY <1>1, <1>6, <1>7, <1>8, <1>9, <1>10 DEF ObjectShape

\* When the verdict only changes, the missing are the same.
LEMMA SameMissing ==
  ASSUME Base, ObjectShape, MissingShape, UNCHANGED <<pruneVars, stem, module, next, object, pending>>
  PROVE  MissingShape'
<1>1. Still /\ Grew
  BY DEF Still, Grew
<1>2. \A i, k : Read(i, k)' = Read(i, k)
  BY DEF Read
<1> QED
  BY <1>1, <1>2, MissingKept

\* The parts of the invariant that a step of the generator leaves alone.
LEMMA StillKeeps ==
  ASSUME BuildInv, Still
  PROVE  /\ PruneInv' /\ ModuleInv' /\ Judged'
         /\ KeptItems' = KeptItems /\ ModuleOK(KeptItems)' = ModuleOK(KeptItems)
         /\ phase' = phase /\ items' = items /\ module' = module
<1>1. UNCHANGED pruneVars /\ UNCHANGED module /\ KeptItems' = KeptItems
  BY KeptStays DEF Still
<1>2. PruneInv'
  BY <1>1, PruneKeeps DEF BuildInv
<1>3. ModuleInv' /\ Judged'
  BY <1>1 DEF BuildInv, ModuleInv, Judged, Positions, pruneVars
<1>4. ModuleOK(KeptItems)' = ModuleOK(KeptItems)
  BY <1>1 DEF ModuleOK
<1> QED
  BY <1>1, <1>2, <1>3, <1>4 DEF pruneVars

LEMMA VerifyModuleKeeps ==
  ASSUME BuildInv, VerifyModule
  PROVE  BuildInv'
<1>1. /\ stage = "prune" /\ phase = "kept" /\ Still
      /\ UNCHANGED <<pruneVars, stem, module, next, object, pending>>
      /\ stage' = IF ModuleOK(KeptItems) THEN "generate" ELSE "rejected"
  BY DEF VerifyModule, Still
<1>2. next = 1 /\ pending = <<>> /\ object = NothingGenerated
  BY <1>1 DEF BuildInv, StageShape, Generating, Failures
<1>3. /\ PruneInv' /\ ModuleInv' /\ Judged' /\ phase' = phase
      /\ ModuleOK(KeptItems)' = ModuleOK(KeptItems)
  BY <1>1, StillKeeps
<1>4. StageShape'
  <2>1. stage' \in {"generate", "rejected"} /\ (stage' = "generate" => ModuleOK(KeptItems)')
    BY <1>1, <1>3
  <2>2. next' = 1 /\ pending' = <<>> /\ object' = NothingGenerated' /\ phase' = "kept"
    BY <1>1, <1>2, <1>3 DEF NothingGenerated
  <2> QED
    BY <2>1, <2>2 DEF StageShape, Generating, Failures
<1>5. Base /\ ObjectShape /\ MissingShape /\ OrderShape
  <2>1. Base
    BY DEF BuildInv, Base, PruneInv, PruneTypeOK
  <2> QED
    BY <1>1, <1>2, <2>1, NothingYet DEF Failures
<1>6. ObjectShape' /\ MissingShape'
  BY <1>1, <1>5, SameObject, SameMissing
<1>7. OrderShape'
  <2>1. DOMAIN pending' = {}
    BY <1>1, <1>2
  <2>2. Descending' /\ NoneOfTemplates(object.used)' /\ PassedShape'
    BY <1>1, <1>2, <2>1 DEF Descending, NoneOfTemplates, NothingGenerated, PassedShape
  <2>3. stage' \in {"generate", "rejected"}
    BY <1>1
  <2> QED
    BY <2>2, <2>3 DEF OrderShape
<1> QED
  BY <1>3, <1>4, <1>6, <1>7 DEF BuildInv

LEMMA GenerateStage ==
  ASSUME Generate
  PROVE  /\ stage = "generate" /\ stage' \in {"generate", "done"} \cup Failures
         /\ stage' = "done" => EmitObject
<1>1. ASSUME NEW o, Generated(o), stage = "generate"
      PROVE  stage' = "generate"
  BY <1>1 DEF Generated
<1>2. ASSUME GenFunction, stage = "generate"
      PROVE  stage' = "generate" \/ stage' \in {"unverified", "parameters"}
  BY <1>1, <1>2, GenFunctionCases DEF Abort, StoresTemplate, StartsBody
<1>3. CASE GenShape \/ GenImport \/ GenOther
  BY <1>1, <1>3 DEF GenShape, GenImport, GenOther, Turn
<1>4. CASE GenDefine \/ GenMetadata
  BY <1>1, <1>2, <1>4 DEF GenDefine, GenMetadata, Turn, Failures
<1>5. CASE GenCall
  BY <1>5, GenCallCases DEF Abort, Failures
<1>6. CASE GenValue
  BY <1>6 DEF GenValue, Reads, Abort, Failures
<1>7. CASE ReadsLocally
  BY <1>7, ReadsLocallyCases DEF Goes, Abort, Failures
<1>8. CASE GenShifted \/ EndBody \/ EmitObject
  BY <1>8 DEF GenShifted, EndBody, EmitObject, Abort, Failures
<1> QED
  BY <1>3, <1>4, <1>5, <1>6, <1>7, <1>8 DEF Generate, ReadsLocally, Failures

LEMMA GenerateStepKeeps ==
  ASSUME BuildInv, Generate
  PROVE  BuildInv'
<1>1. /\ stage = "generate" /\ stage' \in {"generate", "done"} \cup Failures
      /\ stage' = "done" => EmitObject
  BY GenerateStage
<1>2. /\ Base /\ Judged /\ ObjectShape /\ MissingShape /\ OrderShape
      /\ phase = "kept" /\ ModuleOK(KeptItems)
  BY <1>1 DEF BuildInv, Base, PruneInv, PruneTypeOK, Generating, StageShape
<1>3. Still /\ ObjectShape' /\ MissingShape'
  <2>1. CASE Aborts
    <3>1. UNCHANGED <<pruneVars, stem, module, next, object, pending>>
      BY <2>1 DEF Aborts, Abort
    <3> QED
      BY <1>2, <3>1, SameObject, SameMissing DEF Still
  <2>2. CASE ~Aborts
    BY <1>2, <2>2, GenerateKeeps, GenerateMisses
  <2> QED
    BY <2>1, <2>2
<1>4. /\ PruneInv' /\ ModuleInv' /\ Judged' /\ phase' = phase /\ KeptItems' = KeptItems
      /\ ModuleOK(KeptItems)' = ModuleOK(KeptItems)
  BY <1>3, StillKeeps
<1>5. OrderShape'
  <2>1. InOrder' = InOrder
    BY <1>3, KeptStays DEF Still
  <2>2. CASE InOrder
    BY <1>2, <2>2, GenerateInOrder
  <2>3. CASE ~InOrder
    BY <2>1, <2>3 DEF OrderShape
  <2> QED
    BY <2>2, <2>3
<1>6. StageShape'
  <2>1. stage' = "done" => next' \notin DOMAIN KeptItems
    BY <1>1 DEF EmitObject
  <2>2. Generating' /\ stage' \notin {"unused", "idle"}
    BY <1>1 DEF Generating, Failures
  <2> QED
    BY <1>2, <1>4, <2>1, <2>2 DEF StageShape
<1> QED
  BY <1>3, <1>4, <1>5, <1>6 DEF BuildInv

LEMMA BuildStepKeeps == BuildInv /\ BuildStep => BuildInv'
  BY PruneStepKeeps, VerifyModuleKeeps, GenerateStepKeeps DEF BuildStep

LEMMA BuildStutters == BuildInv /\ UNCHANGED buildVars => BuildInv'
<1>1. SUFFICES ASSUME BuildInv, UNCHANGED buildVars
               PROVE  BuildInv'
  OBVIOUS
<1>2. /\ Still /\ UNCHANGED <<pruneVars, stem, module, next, object, pending>> /\ stage' = stage
  BY <1>1 DEF buildVars, Still
<1>3. /\ PruneInv' /\ ModuleInv' /\ Judged' /\ phase' = phase /\ KeptItems' = KeptItems
      /\ ModuleOK(KeptItems)' = ModuleOK(KeptItems) /\ items' = items
  BY <1>1, <1>2, StillKeeps
<1>4. StageShape'
  BY <1>1, <1>2, <1>3 DEF BuildInv, StageShape, Generating, Begin, NothingGenerated, pruneVars
<1>5. ASSUME Generating
      PROVE  ObjectShape' /\ MissingShape' /\ OrderShape'
  <2>1. Base /\ ObjectShape /\ MissingShape /\ OrderShape
    BY <1>1, <1>5 DEF BuildInv, Base, PruneInv, PruneTypeOK
  <2>2. ObjectShape' /\ MissingShape'
    BY <1>2, <2>1, SameObject, SameMissing
  <2>3. InOrder' = InOrder /\ Fitting' = Fitting
    BY <1>2, KeptStays
  <2>4. OrderShape'
    BY <1>2, <2>1, <2>3, SameOrder DEF OrderShape
  <2> QED
    BY <2>2, <2>4
<1>6. Generating' = Generating
  BY <1>2 DEF Generating
<1> QED
  BY <1>3, <1>4, <1>5, <1>6 DEF BuildInv
=============================================================================
