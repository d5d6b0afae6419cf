------------------------------- MODULE Display ------------------------------
(***************************************************************************)
(* The printer of src/compiler/ast/display.rs, as the tokens that the      *)
(* lexer makes of its output: layout and escapes are left out, and a       *)
(* negative integer is read back as a minus and a number.                  *)
(***************************************************************************)
EXTENDS Syntax, FiniteSets, TLC

\* How an expression is laid out: its operator, then its kids and name.
Layout(word, slots) == [word |-> word, slots |-> slots]

Layouts ==
  "Move" :> Layout(">", <<E>>) @@ "Borrow" :> Layout("$", <<E>>) @@
  "MutBorrow" :> Layout("~", <<E>>) @@ "New" :> Layout("N", <<"id", E>>) @@
  "Get" :> Layout("G", <<E, "id", E>>) @@ "Set" :> Layout("S", <<E, "id", E, E>>) @@
  "If" :> Layout("?", <<E, E, E>>) @@ "Expand" :> Layout("tick", <<"id">>) @@
  "Let" :> Layout("L", <<"id", E, E>>) @@ "Len" :> Layout("sl", <<E>>) @@
  "Cat" :> Layout("sc", <<E, E>>) @@ "Sub" :> Layout("ss", <<E, E, E>>) @@
  "Loc" :> Layout("sf", <<E, E>>) @@ "Reg" :> Layout("sr", <<E, E>>) @@
  "Read" :> Layout("(", <<E>>) @@ "Write" :> Layout(")", <<E, E>>) @@
  "Str" :> Layout("str", <<E>>) @@ "Split" :> Layout("sp", <<E, E, E>>) @@
  "TimeNow" :> Layout("tn", <<>>) @@ "TimeNano" :> Layout("tns", <<>>) @@
  "TimeGet" :> Layout("tg", <<E, E>>) @@ "TimeSet" :> Layout("ts", <<E, E, E, E, E, E>>) @@
  "Env" :> Layout("env", <<E>>) @@ "Seq" :> Layout(".", <<E, E>>) @@
  "Pack" :> Layout("jp", <<E>>) @@ "Metadata" :> Layout("M", <<E, E, E>>) @@
  "OtelEmit" :> Layout("oe", <<E, E, E, E>>) @@ "Unpack" :> Layout("ju", <<E, "string">>) @@
  "Map" :> Layout("map", <<E, "string", E>>) @@ "Filter" :> Layout("flt", <<E, E>>) @@
  "TimeZone" :> Layout("tz", <<>>) @@ "Panic" :> Layout("!", <<E>>) @@
  "Trap" :> Layout("^", <<E, E>>) @@ "HttpClient" :> Layout("http", <<E, E, E>>) @@
  "HttpServer" :> Layout("srv", <<E, E>>) @@ "HttpHeader" :> Layout("hdr", <<E, E>>) @@
  "FileOpen" :> Layout("fo", <<E, E>>)

Words(e)  == [i \in DOMAIN e.names |-> IdTok(e.names[i])]
Export(e) == IF e.exported THEN <<Tok("X")>> ELSE <<>>
ParamsUnmarked(e) == Words(e)
Params(e) == FlattenSeq([i \in DOMAIN e.names |->
               IF i \in e.marked THEN <<IdTok(e.names[i]), Tok("tick")>> ELSE <<IdTok(e.names[i])>>])

(* Mutants: a negative literal written as one token, parameters without    *)
(* their ticks.                                                            *)
LiteralSigned(i) == <<IntTok(i)>>
Literal(i)       == IF i < 0 THEN <<Tok("-"), IntTok(-i)>> ELSE <<IntTok(i)>>

RECURSIVE Show(_)
Show(e) ==
  LET kids == FlattenSeq([i \in DOMAIN e.kids |-> Show(e.kids[i])])
      Slot(i, slots) ==
        CASE slots[i] = E        -> Show(e.kids[Cardinality({j \in 1 .. i : slots[j] = E})])
          [] slots[i] = "id"     -> <<IdTok(e.name)>>
          [] slots[i] = "string" -> <<StrTok(e.name)>>
  IN  CASE e.op \in DOMAIN Layouts ->
             LET slots == Layouts[e.op].slots
             IN  <<Tok(Layouts[e.op].word)>>
                   \o FlattenSeq([i \in DOMAIN slots |-> Slot(i, slots)])
        [] e.op = "Integer"    -> Literal(e.n)
        [] e.op = "DeBruijn"   -> <<IndexTok(e.n)>>
        [] e.op = "Identifier" -> <<IdTok(e.name)>>
        [] e.op = "String"     -> <<StrTok(e.name)>>
        [] e.op = "BinaryOp"   -> <<Tok(e.name)>> \o kids
        [] e.op = "MoneyOp"    -> <<Tok("%"), Tok(e.name)>> \o kids
        [] e.op = "TimeOp"     -> <<Tok("tn"), Tok(e.name)>> \o kids
        [] e.op = "MoneyStr"   -> <<Tok("%"), Tok("str")>> \o kids
        [] e.op = "Apply"      -> <<ApplyTok(Len(e.kids) - 1)>> \o kids
        [] e.op = "Define"     -> Export(e) \o <<Tok(":"), IdTok(e.name)>> \o Params(e) \o kids
        [] e.op = "Shape"      -> Export(e) \o <<Tok("#"), IdTok(e.name)>> \o Words(e)
        [] e.op = "Import"     -> <<Tok("I")>> \o Words(e) \o <<IdTok(e.name)>>

ShowModule(items) == FlattenSeq([i \in DOMAIN items |-> Show(items[i])])
=============================================================================
