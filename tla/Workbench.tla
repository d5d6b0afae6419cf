------------------------------ MODULE Workbench -----------------------------
(***************************************************************************)
(* Work on a set of files: the MCP server indexes and patches them, an     *)
(* editor changes them, and the compiler builds what it finds.  The three  *)
(* share nothing but the files, which none of them locks.  The parser, the *)
(* printer and the verifier are parameters, as in Build and McpServer.     *)
(***************************************************************************)
EXTENDS Build, McpServer

CONSTANT Sessions    \* what the files hold at first and what is done to them

ASSUME WorkbenchAssumption ==
  /\ EditTexts \subseteq SourceText
  /\ \A s \in Sessions : \A f \in DOMAIN s.disk : s.disk[f] \in SourceText

vars == <<buildVars, serverVars>>

WorkbenchInit ==
  /\ BuildInit
  /\ \E s \in Sessions :
       /\ disk = s.disk
       /\ request = s.asks
       /\ edits = s.edits
       /\ stage = IF s.builds THEN "idle" ELSE "unused"
  /\ ServerInit

\* The command is run on one of the files, at any time.
RunCompiler ==
  /\ \E f \in DOMAIN disk : StartBuild(Parsed(disk[f]))
  /\ UNCHANGED serverVars

Compile == BuildStep /\ UNCHANGED serverVars
Serve   == (\E r \in Requests : ServerStep(r)) /\ UNCHANGED buildVars
Change  == EditorStep /\ UNCHANGED buildVars

WorkbenchNext == RunCompiler \/ Compile \/ Serve \/ Change

(* The compiler runs on and the server's executor runs every task that is  *)
(* ready: weak fairness of either, with ENABLED spelled out.  Nobody has   *)
(* to run the compiler or to edit.                                         *)
CanCompile  == stage \in {"prune", "generate"}
CanServe(r) == /\ ~Answered(r)
               /\ At(r, "find") => writer = Nobody
               /\ At(r, "lock") => writer = Nobody /\ readers = {}

WorkbenchFairness ==
  /\ []<>~CanCompile \/ []<><<Compile>>_vars
  /\ \A r \in Requests : []<>~CanServe(r) \/ []<><<ServerStep(r) /\ UNCHANGED buildVars>>_vars

WorkbenchSpec == WorkbenchInit /\ [][WorkbenchNext]_vars /\ WorkbenchFairness

-----------------------------------------------------------------------------
TypeOK ==
  /\ BuildTypeOK
  /\ stage \in {"unused", "idle", "prune", "generate", "done", "rejected"} \cup Failures
  /\ ServerTypeOK

(* No request waits at the lock for ever: while one is unanswered, one     *)
(* need not wait.                                                          *)
SomeRequestMoves == (\E r \in Requests : ~Answered(r)) => \E r \in Requests : CanServe(r)

(* The command ends: the worklist gets empty, however often a definition   *)
(* is put on it, and no template is expanded without end.                  *)
BuildEnds == stage = "prune" ~> stage \in {"done", "rejected"} \cup Failures

-----------------------------------------------------------------------------
(* What the theorems ask of the parser, the verifier and the printer: of   *)
(* every text, and of every patch that a client asks for.                  *)
ParserFits(texts, tables, names) == \A text \in texts : ParsedWell(Parsed(text), tables, names)

Demands == {s.asks[r] : s \in Sessions, r \in Requests}

PrinterFits(texts) ==
  \A ask \in Demands : \A text \in texts :
    LET exprs == Parsed(text).items
    IN  Parsed(text).err = "" /\ Defines(exprs, ask.name) =>
          Printed(Replaced(exprs, ask.name, ask.body)) \in SourceText

ToolsFit == ParserFits(SourceText, Tables, STRING) /\ PrinterFits(SourceText)
=============================================================================
