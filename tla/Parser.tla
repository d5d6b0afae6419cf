------------------------------- MODULE Parser -------------------------------
(***************************************************************************)
(* The parser of src/compiler/parser/mod.rs, by recursive descent over a   *)
(* sequence of tokens.  Its state is a record:                             *)
(*   toks       what is left to read                                       *)
(*   scopes     the names in scope, a sequence per Define being parsed     *)
(*   imported   the shapes imported so far, <<name, module>>               *)
(*   generated  the functions made for routers in this top-level item      *)
(*   err        the error code, "" while there is none                     *)
(* After an error the rest of the result is meaningless.                   *)
(***************************************************************************)
EXTENDS Syntax, FiniteSets, TLC

CONSTANTS Signatures,    \* module -> [shapes : name -> fields, funcs : name -> arity]
          Segments,      \* a router's path, split at "/" -> its segments
          PathParams     \* the segments that are written with a colon

Start(toks) == [toks |-> toks, scopes |-> <<>>, imported |-> <<>>, generated |-> <<>>, err |-> ""]

Result(p, e)  == [p |-> p, e |-> e]
Fail(p, code) == [p EXCEPT !.err = IF @ = "" THEN code ELSE @]
Failure(p, code) == Result(Fail(p, code), Blank)
Token(p)      == IF p.toks = <<>> THEN Tok("EOF") ELSE Head(p.toks)
Advance(p)    == IF p.toks = <<>> THEN p ELSE [p EXCEPT !.toks = Tail(@)]
Expect(p, k)  == IF Token(p).k = k THEN Advance(p) ELSE Fail(p, "E002")

-----------------------------------------------------------------------------
(* Scopes.  A Let outside of every Define binds nothing.                   *)
AddVariable(p, name) ==
  IF p.scopes = <<>> THEN p ELSE [p EXCEPT !.scopes[Len(p.scopes)] = Append(@, name)]

DropVariable(p) ==
  IF p.scopes = <<>> THEN p ELSE [p EXCEPT !.scopes[Len(p.scopes)] = Front(@)]

\* The innermost variable of that name, counted from the end; else a name.
ResolveVariable(env, name) ==
  LET bound == {i \in DOMAIN env : env[i] = name}
  IN  IF bound = {} THEN Identifier(name)
      ELSE DeBruijn(Len(env) - CHOOSE i \in bound : \A j \in bound : j <= i)

ResolveShapeName(imported, name) ==
  LET found == SelectSeq(imported, LAMBDA s : s[1] = name)
  IN  IF found = <<>> THEN name ELSE found[1][2] \o "_" \o name

-----------------------------------------------------------------------------
(* Most forms are an operator followed by a fixed number of slots: an      *)
(* expression, an identifier or a string.                                  *)
Form(op, slots) == [op |-> op, slots |-> slots]

PrefixForms ==
  ">" :> Form("Move", <<E>>) @@ "$" :> Form("Borrow", <<E>>) @@
  "~" :> Form("MutBorrow", <<E>>) @@ "sl" :> Form("Len", <<E>>) @@
  "ss" :> Form("Sub", <<E, E, E>>) @@ "sc" :> Form("Cat", <<E, E>>)

ShapeForms ==
  "N" :> Form("New", <<"id", E>>) @@ "G" :> Form("Get", <<E, "id", E>>) @@
  "S" :> Form("Set", <<E, "id", E, E>>) @@ "?" :> Form("If", <<E, E, E>>)

TextForms ==
  "sf" :> Form("Loc", <<E, E>>) @@ "sr" :> Form("Reg", <<E, E>>) @@
  "(" :> Form("Read", <<E>>) @@ ")" :> Form("Write", <<E, E>>) @@
  "str" :> Form("Str", <<E>>) @@ "sp" :> Form("Split", <<E, E, E>>) @@
  "jp" :> Form("Pack", <<E>>) @@ "ju" :> Form("Unpack", <<E, "string">>) @@
  "oe" :> Form("OtelEmit", <<E, E, E, E>>) @@
  "map" :> Form("Map", <<E, "string", E>>) @@ "flt" :> Form("Filter", <<E, E>>) @@
  "!" :> Form("Panic", <<E>>) @@ "^" :> Form("Trap", <<E, E>>)

SystemForms ==
  "tz" :> Form("TimeZone", <<>>) @@ "tns" :> Form("TimeNano", <<>>) @@
  "tg" :> Form("TimeGet", <<E, E>>) @@ "ts" :> Form("TimeSet", <<E, E, E, E, E, E>>) @@
  "env" :> Form("Env", <<E>>) @@ "fo" :> Form("FileOpen", <<E, E>>) @@
  "http" :> Form("HttpClient", <<E, E, E>>) @@ "srv" :> Form("HttpServer", <<E, E>>) @@
  "hdr" :> Form("HttpHeader", <<E, E>>) @@ "." :> Form("Seq", <<E, E>>)

Forms == PrefixForms @@ ShapeForms @@ TextForms @@ SystemForms

\* The parser of an expression, by its first token.
RECURSIVE ParseExpr(_)

RECURSIVE ParseSlots(_, _)
ParseSlots(p, slots) ==
  IF slots = <<>> \/ p.err # "" THEN [p |-> p, kids |-> <<>>, name |-> ""]
  ELSE IF Head(slots) = E
       THEN LET one  == ParseExpr(p)
                rest == ParseSlots(one.p, Tail(slots))
            IN  [rest EXCEPT !.kids = <<one.e>> \o @]
       ELSE [ParseSlots(Expect(p, Head(slots)), Tail(slots)) EXCEPT !.name = Token(p).name]

ParseMany(p, n) == ParseSlots(p, [i \in 1 .. n |-> E])

ParseForm(p, form) ==
  LET r == ParseSlots(p, form.slots)
      name == IF form.op \in {"New", "Unpack"}
              THEN ResolveShapeName(p.imported, r.name) ELSE r.name
  IN  Result(r.p, Named(form.op, name, r.kids))

ParseOperation(p, op) ==
  LET r == ParseMany(Advance(p), 2) IN Result(r.p, Named(op, Token(p).k, r.kids))

-----------------------------------------------------------------------------
ParseLet(p) ==
  LET val  == ParseExpr(Expect(p, "id"))
      body == ParseExpr(AddVariable(val.p, Token(p).name))
  IN  Result(DropVariable(body.p), Named("Let", Token(p).name, <<val.e, body.e>>))

\* Every identifier after the name is a parameter, with a ` if it expands.
RECURSIVE ParseParams(_, _, _)
ParseParams(p, names, marked) ==
  IF Token(p).k # "id" THEN [p |-> p, names |-> names, marked |-> marked]
  ELSE LET q     == AddVariable(Advance(p), Token(p).name)
           all   == Append(names, Token(p).name)
       IN  IF Token(q).k = "tick" THEN ParseParams(Advance(q), all, marked \cup {Len(all)})
           ELSE ParseParams(q, all, marked)

ParseDefine(p) ==
  LET q      == [Expect(p, "id") EXCEPT !.scopes = Append(@, <<>>)]
      params == ParseParams(q, <<>>, {})
      body   == ParseExpr(params.p)
  IN  Result([body.p EXCEPT !.scopes = Front(@)],
             DefineOf(Token(p).name, params.names, params.marked, body.e))

ParseShape(p) ==
  LET n == Cardinality({i \in DOMAIN p.toks : \A j \in 1 .. i : p.toks[j].k = "id"})
  IN  Result([Expect(p, "id") EXCEPT !.toks = SubSeq(p.toks, n + 1, Len(p.toks))],
             ShapeOf(Token(p).name, [i \in 1 .. n - 1 |-> p.toks[i + 1].name]))

\* A definition marked "test" must be one, under whatever other metadata.
RECURSIVE Innermost(_)
Innermost(e) == IF e.op = "Metadata" THEN Innermost(e.kids[3]) ELSE e

ParseMetadata(p) ==
  LET r == ParseMany(p, 3)
      e == Expr("Metadata", r.kids)
  IN  IF r.p.err = "" /\ e.kids[1] = Text("test") /\ Innermost(e).op # "Define"
      THEN Failure(r.p, "E019") ELSE Result(r.p, e)

ParseExport(p) ==
  LET r == ParseExpr(p)
  IN  IF r.e.op \in {"Define", "Shape"} THEN Result(r.p, [r.e EXCEPT !.exported = TRUE])
      ELSE Failure(r.p, "E015")

ParseMoney(p) ==
  LET k == Token(p).k
  IN  CASE k = "str" -> LET r == ParseExpr(Advance(p)) IN Result(r.p, Expr("MoneyStr", <<r.e>>))
        [] k \in {"+", "-", "*", "/"} -> ParseOperation(p, "MoneyOp")
        [] k = "int" -> Result(Advance(p), Integer(Token(p).n * 10000))
        [] OTHER -> Failure(p, "E002")

\* An imported shape becomes a Shape under its full name, not an Import.
ParseImport(p) ==
  LET isModule == Token(p).k \in {"id", "http"}
      module == IF Token(p).k = "http" THEN "http" ELSE Token(p).name
      q      == Advance(p)
      symbol == Token(q).name
      sig    == Signatures[module]
      known  == module \in DOMAIN Signatures
  IN  IF ~isModule \/ Token(q).k # "id" THEN Failure(p, "E002")
      ELSE IF ~known THEN Failure(p, "E017")
      ELSE IF symbol \in DOMAIN sig.shapes
      THEN Result([Advance(q) EXCEPT !.imported = Append(@, <<symbol, module>>)],
                  ShapeOf(module \o "_" \o symbol, sig.shapes[symbol]))
      ELSE IF symbol \in DOMAIN sig.funcs
      THEN Result(Advance(q), ImportOf(module, symbol, sig.funcs[symbol]))
      ELSE Failure(p, "E018")

ParseApply(p, arity) ==
  LET r == ParseMany(p, arity + 1) IN Result(r.p, Expr("Apply", r.kids))

-----------------------------------------------------------------------------
(* A router becomes a server loop of its own, pushed on generated, and a   *)
(* call of it.  Inside the loop the innermost variables are, from the      *)
(* inside, the method, the path, the raw path, the request and the server. *)
(* What the loop prints for debugging is left out.                         *)
Lent(i)   == Expr("Borrow", <<DeBruijn(i)>>)
Given(i)  == Expr("Move", <<DeBruijn(i)>>)
Seq2(a, b) == Expr("Seq", <<a, b>>)
Let(name, val, body) == Named("Let", name, <<val, body>>)

IsParam(segment) == segment \in PathParams
Join(parts) == FoldLeft(LAMBDA s, t : s \o "/" \o t, Head(parts), Tail(parts))

PathPattern(path) ==
  "^" \o Join([i \in DOMAIN Segments[path] |->
              IF IsParam(Segments[path][i]) THEN "[^/]+" ELSE Segments[path][i]]) \o "$"

\* A parameter's position counts the segments before it that are not empty.
PathArguments(path) ==
  LET parts == SelectSeq(Segments[path], LAMBDA s : s # "")
      params == SelectSeq([i \in DOMAIN parts |-> i], LAMBDA i : IsParam(parts[i]))
  IN  [i \in DOMAIN params |-> Expr("Split", <<Lent(1), Text("/"), Integer(params[i] - 1)>>)]

\* routes holds three expressions per route: method, path and handler.
RouterDispatch(loop, routes, fallback) ==
  LET again == Apply(Identifier(loop), <<Given(4)>>)
      Answer(handler, args) == Seq2(Apply(handler, <<Given(3)>> \o args), again)
      Route(i, otherwise) ==
        LET method == routes[3 * i - 2].name
            path   == routes[3 * i - 1].name
            matches == Named("BinaryOp", "&",
                         <<Expr("Reg", <<Lent(0), Text("^" \o method \o "$")>>),
                           Expr("Reg", <<Lent(1), Text(PathPattern(path))>>)>>)
        IN  Expr("If", <<matches, Answer(routes[3 * i], PathArguments(path)), otherwise>>)
  IN  FoldRight(Route, [i \in 1 .. Len(routes) \div 3 |-> i], Answer(fallback, <<>>))

RouterLoop(loop, dispatch) ==
  DefineOf(loop, <<"server">>, {},
    Let("req", Expr("Read", <<Lent(0)>>),
    Let("raw_path", Expr("HttpServer", <<Integer(2), Lent(0)>>),
    Let("path", Expr("Split", <<Lent(0), Text("?"), Integer(0)>>),
    Let("method", Expr("HttpServer", <<Integer(1), Lent(2)>>), dispatch)))))

ParseRouter(p) ==
  LET port  == ParseExpr(p)
      count == Token(port.p)
      rest  == ParseMany(IF count.k = "int" THEN Advance(port.p) ELSE Fail(port.p, "E001"),
                         3 * count.n + 1)
      routes == Front(rest.kids)
      loop  == "_rt_loop_" \o ToString(Len(rest.p.generated) + 1)
      start == Let("s", Expr("HttpServer", <<Integer(0), port.e>>),
                   Apply(Identifier(loop), <<Given(0)>>))
      define == RouterLoop(loop, RouterDispatch(loop, routes, Last(rest.kids)))
  IN  IF rest.p.err # "" THEN Failure(rest.p, rest.p.err)
      ELSE IF \E i \in DOMAIN routes : i % 3 # 0 /\ routes[i].op # "String"
      THEN Failure(rest.p, "E001")
      ELSE Result([rest.p EXCEPT !.generated = Append(@, define)], start)

-----------------------------------------------------------------------------
ParseExpr(p) ==
  LET tok == Token(p)
      k   == tok.k
      q   == Advance(p)
  IN  IF p.err # "" THEN Result(p, Blank) ELSE
      CASE k = "int"       -> Result(q, Integer(tok.n))
        [] k = "id"        -> Result(q, ResolveVariable(FlattenSeq(p.scopes), tok.name))
        [] k = "string"    -> Result(q, Text(tok.name))
        [] k = "^n"        -> Result(q, DeBruijn(tok.n))
        [] k \in DOMAIN Forms -> ParseForm(q, Forms[k])
        [] k \in BinaryOperators -> ParseOperation(p, "BinaryOp")
        [] k = "L"         -> ParseLet(q)
        [] k = ":"         -> ParseDefine(q)
        [] k = "#"         -> ParseShape(q)
        [] k = "tick"         -> Result(Expect(q, "id"), Named("Expand", Token(q).name, <<>>))
        [] k = "M"         -> ParseMetadata(q)
        [] k = "X"         -> ParseExport(q)
        [] k = "%"         -> ParseMoney(q)
        [] k = "I"         -> ParseImport(q)
        [] k = "@"         -> ParseApply(q, tok.n)
        [] k = "tn"        -> IF Token(q).k \in {"+", "-"} THEN ParseOperation(q, "TimeOp")
                              ELSE Result(q, Expr("TimeNow", <<>>))
        [] k = "rt"        -> ParseRouter(q)
        [] OTHER           -> Failure(p, "E001")

\* The functions an item generates come before it.
RECURSIVE ParseItems(_, _)
ParseItems(p, items) ==
  IF p.toks = <<>> \/ p.err # "" THEN [err |-> p.err, items |-> items]
  ELSE LET r == ParseExpr(p)
       IN  ParseItems([r.p EXCEPT !.generated = <<>>],
                      Append(items \o r.p.generated, r.e))

Parse(toks) == ParseItems(Start(toks), <<>>)
=============================================================================
