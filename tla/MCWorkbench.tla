----------------------------- MODULE MCWorkbench ----------------------------
(* Constants for checking Toolchain: source texts, files and requests.     *)
EXTENDS Toolchain

CONSTANTS r1, r2, r3, a, b, Absent

Op(k)        == <<Tok(k)>>
Id(s)        == <<IdTok(s)>>
Str(s)       == <<StrTok(s)>>
Num(i)       == <<IntTok(i)>>
Fn(name, params, body) == Op(":") \o Id(name) \o params \o body
Call(f, arg) == <<ApplyTok(1)>> \o Id(f) \o arg
Lend(s)      == Op("$") \o Id(s)
Tagged(tag, e) == Op("M") \o Str(tag) \o Str("note") \o e
Route(h)     == Str("GET") \o Str("/u/:id") \o Id(h)
Router(h)    == Op("rt") \o Num(80) \o Num(1) \o Route(h) \o Id(h)

MCSignatures == [geo |-> [shapes |-> [Point |-> <<"v", "y">>], funcs |-> [area |-> 1]],
                 http |-> [shapes |-> <<>>, funcs |-> [get |-> 1]]]
MCSegments   == "/u/:id" :> <<"", "u", ":id">>
MCPathParams == {":id"}

-----------------------------------------------------------------------------
(* Items that need one another, in any order and number up to three.       *)
Core == {
  Fn("main", Id("x"), Call("f", Id("x"))),
  Fn("f", Id("x"), Op("+") \o Lend("x") \o Num(1)),
  Op("X") \o Fn("f", Id("x"), Call("g", Id("x"))),
  Fn("g", Id("x") \o Op("tick"), Op("tick") \o Id("x")),
  Fn("g", Id("x"), Op("L") \o Id("y") \o Op(">") \o Id("x") \o Call("f", Id("y"))),
  Op("#") \o Id("P") \o Id("v"),
  Op("X") \o Op("#") \o Id("f") \o Id("w"),
  Op("X") \o Fn("k", Id("x"), Op("G") \o Lend("x") \o Id("v") \o Num(0)),
  Op("X") \o Fn("k", Id("x"), Op("?") \o Id("f") \o Op("N") \o Id("P") \o Id("x") \o Id("x")),
  Op("X") \o Fn("k", Id("x"), Call("area", Call("f", Id("x")))),
  Tagged("otel", Fn("f", Id("x"), Id("x"))),
  Op("I") \o Id("geo") \o Id("Point"),
  Op("I") \o Id("geo") \o Id("area") }

\* Items that show one thing each, alone and before or after every other.
More == Core \cup {
  Tagged("doc", Fn("f", Id("x"), Id("x"))),
  Tagged("test", Fn("f", <<>>, Num(1))),
  Tagged("test", Num(1)),
  Fn("main", Id("x"), Router("f")),
  Op("X") \o Fn("k", Id("x"), Router("req")),
  Op("X") \o Fn("m", Id("x"), Op("map") \o Op("N") \o Id("P") \o Id("x") \o Str("v") \o Id("f")),
  Op("X") \o Fn("m", Id("x"), Op("flt") \o Op("ju") \o Id("x") \o Str("Point") \o Id("area")),
  Op("X") \o Fn("m", Id("x"), Op("jp") \o Op("N") \o Id("Point") \o Id("x")),
  Op("X") \o Fn("m", Id("x"), Op("map") \o Op("N") \o Id("P") \o Id("x") \o Str("v")
                               \o Op("G") \o Id("x") \o Id("w") \o Num(0)),
  Op("X") \o Fn("g", Id("x"), Op("tick") \o Id("x")),
  Fn("g", Id("x") \o Op("tick"), Call("g", Id("x"))),
  Op("X") \o Fn("main", <<>>, Num(1)),
  Op("X") \o Fn("k", Id("x"), <<ApplyTok(0)>> \o Id("main")),
  Op("X") \o Fn("q", Id("x"), Op("S") \o Op("N") \o Id("P") \o Id("x") \o Id("w") \o Num(0) \o Num(1)),
  Op("L") \o Id("y") \o Id("x") \o Id("y"),
  Op("tn"), Op("tn") \o Op("+") \o Op("tn") \o Num(5), Op("-") \o Num(1) \o Num(2),
  Op("%") \o Num(5), Op("%") \o Op("str") \o Num(5), Op("%") \o Op("*") \o Num(1) \o Num(2),
  Id("x"), <<IndexTok(0)>>,
  Op("%") \o Id("x"), Op("X") \o Num(1), Op("rt") \o Num(80) \o Num(1) \o Id("x"),
  Op("rt") \o Num(80) \o Num(1) \o Id("x") \o Str("/u/:id") \o Id("f") \o Id("f"),
  Op("I") \o Id("nowhere") \o Id("f"), Op("I") \o Id("geo") \o Id("f"), Op("I") \o Num(1),
  Op("I") \o Op("http") \o Id("get"), <<Tok("EOF")>> }

\* What nobody verifies: parameters of calls and of definitions of one name.
Loose == {
  Op("X") \o Fn("k", Id("x"), <<ApplyTok(0)>> \o Id("g")),
  Op("X") \o Fn("k", Id("x"), <<ApplyTok(2)>> \o Id("g") \o Lend("x") \o Num(1)),
  Op("X") \o Fn("f", <<>>, Num(1)) \o Op("X") \o Fn("f", Id("x") \o Id("y"), Num(2)),
  Op("X") \o Fn("f", Id("x") \o Id("y"), Num(2)) \o Op("X") \o Fn("f", Id("x"), Num(1)) }

\* Templates with a field of what is passed, read or handed on, and what
\* passes it a shape that has the field, one that does not, or none.
Shapes  == Op("X") \o Op("#") \o Id("P") \o Id("v") \o Op("#") \o Id("Q") \o Id("w")
Field   == Fn("t", Id("p") \o Op("tick"), Op("G") \o Lend("p") \o Id("v") \o Num(0))
Relay   == Fn("u", Id("p") \o Op("tick") \o Id("q"), Call("t", Lend("p")))
Give    == Fn("u", Id("p") \o Op("tick") \o Id("q"), Call("t", Op(">") \o Op("tick") \o Id("p")))
Passing == {Shapes \o Field \o t \o Op("X") \o Fn("k", Id("x"), <<ApplyTok(n)>> \o Id(f) \o e \o extra) :
              t \in {Relay, Give}, <<f, n, extra>> \in {<<"t", 1, <<>>>>, <<"u", 1, <<>>>>, <<"u", 2, Num(1)>>},
              e \in {Op("N") \o Id("P") \o Num(1), Op("N") \o Id("Q") \o Num(1), Op(">") \o Id("x"),
                     Op("L") \o Id("y") \o Op("N") \o Id("Q") \o Num(1) \o Op(">") \o Id("y")}}
           \cup {Shapes \o Fn("t", Id("p") \o Op("tick") \o Id("q") \o Op("tick"),
                              Op("G") \o Lend("q") \o Id("v") \o Num(0))
                   \o Op("X") \o Fn("k", Id("x"), Op("L") \o Id("y") \o Op("N") \o Id(first) \o Num(1)
                        \o <<ApplyTok(2)>> \o Id("t") \o Op("N") \o Id(second) \o Num(1) \o Lend("y")) :
                   first \in {"P", "Q"}, second \in {"P", "Q"}}

\* One expression of every form that has only slots.
Filled(slots) == FlattenSeq([i \in DOMAIN slots |->
                   IF slots[i] = E THEN Num(1) ELSE IF slots[i] = "id" THEN Id("P") ELSE Str("P")])
EveryForm == {Op(k) \o Filled(Forms[k].slots) : k \in DOMAIN Forms}

Texts == {<<>>} \cup EveryForm \cup More \cup {x \o y : x \in More, y \in More}
           \cup {x \o y \o z : x \in Core, y \in Core, z \in Core}
           \cup Loose \cup {x \o y : x \in Loose, y \in Core} \cup {x \o y : x \in Core, y \in Loose}
           \cup Passing

-----------------------------------------------------------------------------
MCTarget == "a.llm" :> a @@ "./a.llm" :> a @@ "b.llm" :> b
MCWalk   == "a.llm" :> {"a.llm"} @@ "./a.llm" :> {"./a.llm"} @@ "b.llm" :> {"b.llm"}
              @@ "." :> {"./a.llm", "b.llm"}

Free == Ask("analyze", "a.llm", "", Integer(0))
Asks(x, y, z) == r1 :> x @@ r2 :> y @@ r3 :> z
NoAsk   == [Free EXCEPT !.pc = "answered"]
Session(x, y, asks, n, builds) ==
  [disk |-> IF y = Absent THEN a :> x ELSE a :> x @@ b :> y, asks |-> asks, edits |-> n, builds |-> builds]

Analyze(path)           == Ask("analyze", path, "", Integer(0))
Patch(name, path, body) == Ask("patch", path, name, body)

Solo == {Session(t, Absent, Asks(NoAsk, NoAsk, NoAsk), 0, TRUE) : t \in Texts}

\* Bodies a client may send: names, a negative integer, what binds names.
Bodies == {Integer(-1), Integer(2), Identifier("x"), DeBruijn(0), Named("Expand", "x", <<>>),
           Expr("TimeNow", <<>>), Let("f", Identifier("x"), Identifier("f"))}

PatchTexts == {x \o y : x \in {t \in Core : Head(t).k = ":"}, y \in Core \cup {Op("+") \o Num(1) \o Num(2)}}

Patching == {Session(t, Absent,
               Asks(Analyze("a.llm"), Patch("f", NoPath, e), Patch("g", "./a.llm", e)), 0, FALSE) :
               t \in PatchTexts, e \in Bodies}

One == Op("#") \o Id("P") \o Id("v") \o Fn("f", Id("x"), Id("x"))
Two == Op("#") \o Id("P") \o Id("w") \o Fn("f", Id("x"), Call("g", Id("x"))) \o Fn("g", Id("x"), Num(1))
MCEditTexts == {One, Op("X")}

Team == {Session(x, y, Asks(Analyze("."), q, r), n, FALSE) :
           x \in {One, Two}, y \in {One, Absent},
           q \in {Analyze("a.llm"), Patch("f", NoPath, Integer(2))},
           r \in {Patch("f", "a.llm", Integer(3)), Patch("g", NoPath, Integer(4))}, n \in {0, 1}}

Together == {Session(Two, Absent, Asks(Analyze("a.llm"), Patch("f", NoPath, DeBruijn(0)), NoAsk), 1, TRUE)}

MCSessions == Solo \cup Patching \cup Team \cup Together

\* What the theorems ask of the parser, on small sets of texts, tables and names.
MCTables == UNION {[S -> {<<"v">>, <<"w", "v">>}] : S \in SUBSET {"P", "Point"}}

ASSUME ParserFitsHere == ParserFits({<<>>} \cup EveryForm \cup More \cup Loose \cup Passing, MCTables, {"f", "g", "area"})
=============================================================================
