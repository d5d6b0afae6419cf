------------------------------ MODULE McpServer -----------------------------
(***************************************************************************)
(* The MCP server, src/bin/mcp_server.rs: an index of the definitions in a *)
(* set of files, behind a read-write lock, under concurrent requests to    *)
(* analyze a path and to patch a function, while an editor changes the     *)
(* files.  A request that only queries the index changes nothing and does  *)
(* not wait while it holds the lock, so it is left out.  The server works  *)
(* with any parser and printer: Workbench gives it those of the compiler.  *)
(***************************************************************************)
EXTENDS Subsequence, SequencesExt

CONSTANTS Requests,     \* the requests
          Files,        \* the files, whatever they are called
          Paths,        \* the paths they are called by, and directories
          Target,       \* path of a file -> the file it leads to
          Walk,         \* path -> the paths of files a walk of it reports
          EditTexts,    \* what the editor may write
          Parsed(_),    \* text -> its items, and what is wrong with it or ""
          Printed(_),   \* items -> the text that prints them
          NoPath, Nobody

FilePaths == DOMAIN Target

\* The walk of a file reports the file.
ASSUME McpAssumption ==
  /\ Target \in [FilePaths -> Files]
  /\ Walk \in [Paths -> SUBSET FilePaths]
  /\ \A p \in FilePaths : p \in Paths /\ Walk[p] = {p}

VARIABLES disk,        \* file that exists -> its text, as tokens
          edits,       \* how often the editor may still change a file
          edited,      \* history: the files it changed
          functions,   \* the indexed definitions, in the order of indexing
          shapes,      \* name of a shape -> its fields and its path
          readers, writer,   \* who holds the lock
          request,     \* what a request asks, and how far it has come
          seen,        \* history: path indexed -> the module last read from it
          contested    \* history: shapes that two paths defined at a time

\* What a file holds, as the lexer's tokens.
SourceText == Seq([k : STRING, name : STRING, n : Nat])

indexVars  == <<functions, shapes, seen, contested>>
editorVars == <<edits, edited>>
serverVars == <<disk, editorVars, indexVars, readers, writer, request>>

(* tool : "analyze" or "patch"       path : where, or NoPath               *)
(* name : the function to patch      body : what to put in its place       *)
(* pc   : the next step              todo : the paths left to walk         *)
(* exprs: the module as patched                                            *)
Ask(tool, path, name, body) ==
  [tool |-> tool, path |-> path, name |-> name, body |-> body, todo |-> {}, exprs |-> <<>>,
   pc |-> IF tool = "analyze" THEN "lock" ELSE "find"]

Answered(r) == request[r].pc \in {"answered", "refused"}
At(r, pc)   == request[r].pc = pc
Go(r, pc)   == request' = [request EXCEPT ![r].pc = pc]

-----------------------------------------------------------------------------
(* The index.  A mutant purges no functions.                               *)
PurgeNoFunctions(path) == functions
PurgeFunctions(path) == Keeping(functions, {i \in DOMAIN functions : functions[i].path # path})
PurgeShapes(path)    == [n \in {k \in DOMAIN shapes : shapes[k].path # path} |-> shapes[n]]

Definitions(path, exprs) ==
  LET defines == Keeping(exprs, {i \in DOMAIN exprs : exprs[i].op = "Define"})
  IN  [i \in DOMAIN defines |->
        [name |-> defines[i].name, path |-> path, body |-> defines[i].kids[1]]]

\* Of two shapes of a name in one file the last one counts.
ShapesIn(path, exprs) ==
  LET at == {i \in DOMAIN exprs : exprs[i].op = "Shape"}
      final(n) == Max({i \in at : exprs[i].name = n})
  IN  [n \in {exprs[i].name : i \in at} |-> [fields |-> exprs[final(n)].names, path |-> path]]

IndexExprs(path, exprs) ==
  LET found == ShapesIn(path, exprs)
      kept  == PurgeShapes(path)
  IN  /\ functions' = PurgeFunctions(path) \o Definitions(path, exprs)
      /\ shapes' = [n \in DOMAIN found \cup DOMAIN kept |->
                       IF n \in DOMAIN found THEN found[n] ELSE kept[n]]
      /\ seen' = [p \in DOMAIN seen \cup {path} |-> IF p = path THEN exprs ELSE seen[p]]
      /\ contested' = contested \cup {n \in DOMAIN found :
           \E q \in DOMAIN seen \ {path} : n \in DOMAIN ShapesIn(q, seen[q])}

\* The same path, or two paths of a file that exists.
PathsMatch(a, b) ==
  \/ a = b
  \/ {a, b} \subseteq FilePaths /\ Target[a] = Target[b] /\ Target[a] \in DOMAIN disk

\* The path of the one definition of a name, or of the first in a file.
ResolveFunction(name, path) ==
  LET metas == {i \in DOMAIN functions : functions[i].name = name}
      there == {i \in metas : PathsMatch(functions[i].path, path)}
  IN  IF path # NoPath THEN IF there = {} THEN NoPath ELSE functions[Nth(there, 1)].path
      ELSE IF Cardinality(metas) = 1 THEN functions[Nth(metas, 1)].path ELSE NoPath

-----------------------------------------------------------------------------
\* What can be read of a file.
Parses(f) == f \in DOMAIN disk /\ Parsed(disk[f]).err = ""
Items(f)  == Parsed(disk[f]).items

(* analyze_path holds the write lock over the whole walk.                  *)
StartWalk(r) ==
  /\ At(r, "lock")
  /\ writer = Nobody /\ readers = {}
  /\ writer' = r
  /\ request' = [request EXCEPT ![r].pc = "walk", ![r].todo = Walk[request[r].path]]
  /\ UNCHANGED <<disk, editorVars, indexVars, readers>>

\* A file that cannot be read or parsed keeps what is indexed of it.
WalkFile(r) ==
  /\ At(r, "walk")
  /\ \E path \in request[r].todo :
       /\ request' = [request EXCEPT ![r].todo = @ \ {path}]
       /\ IF Parses(Target[path]) THEN IndexExprs(path, Items(Target[path]))
          ELSE UNCHANGED indexVars
  /\ UNCHANGED <<disk, editorVars, readers, writer>>

EndWalk(r) ==
  /\ At(r, "walk") /\ request[r].todo = {}
  /\ writer' = Nobody
  /\ Go(r, "answered")
  /\ UNCHANGED <<disk, editorVars, indexVars, readers>>

(* patch_symbol finds the file under the read lock, which it releases      *)
(* before it reads, writes and analyzes the file.                          *)
ReadLock(r) ==
  /\ At(r, "find")
  /\ writer = Nobody
  /\ readers' = readers \cup {r}
  /\ Go(r, "resolve")
  /\ UNCHANGED <<disk, editorVars, indexVars, writer>>

\* A mutant returns the error without releasing the lock.
FindFileLeaking(r) ==
  /\ At(r, "resolve")
  /\ LET path == ResolveFunction(request[r].name, request[r].path)
     IN  IF path = NoPath THEN Go(r, "refused") /\ UNCHANGED readers
         ELSE /\ request' = [request EXCEPT ![r].pc = "read", ![r].path = path]
              /\ readers' = readers \ {r}
  /\ UNCHANGED <<disk, editorVars, indexVars, writer>>

FindFile(r) ==
  /\ At(r, "resolve")
  /\ LET path == ResolveFunction(request[r].name, request[r].path)
     IN  IF path = NoPath THEN Go(r, "refused")
         ELSE request' = [request EXCEPT ![r].pc = "read", ![r].path = path]
  /\ readers' = readers \ {r}
  /\ UNCHANGED <<disk, editorVars, indexVars, writer>>

\* The first definition of that name gets the new body; others may remain.
Replaced(exprs, name, body) ==
  LET at == SelectInSeq(exprs, LAMBDA e : e.op = "Define" /\ e.name = name)
  IN  [exprs EXCEPT ![at].kids = <<body>>]

Defines(exprs, name) == \E i \in DOMAIN exprs : exprs[i].op = "Define" /\ exprs[i].name = name

ReadAndReplace(r) ==
  /\ At(r, "read")
  /\ LET file == Target[request[r].path]
     IN  IF ~Parses(file) \/ ~Defines(Items(file), request[r].name) THEN Go(r, "refused")
         ELSE request' = [request EXCEPT ![r].pc = "truncate",
                ![r].exprs = Replaced(Items(file), request[r].name, request[r].body)]
  /\ UNCHANGED <<disk, editorVars, indexVars, readers, writer>>

\* The files after f was written.
Holding(f, text) == [g \in DOMAIN disk \cup {f} |-> IF g = f THEN text ELSE disk[g]]

\* fs::write opens the file, which empties or creates it, and then fills it.
Truncate(r) ==
  /\ At(r, "truncate")
  /\ disk' = Holding(Target[request[r].path], <<>>)
  /\ Go(r, "write")
  /\ UNCHANGED <<editorVars, indexVars, readers, writer>>

\* The mutant answers without analyzing the file again.
WriteFileOnly(r) ==
  /\ At(r, "write")
  /\ disk' = Holding(Target[request[r].path], Printed(request[r].exprs))
  /\ request' = [request EXCEPT ![r].pc = "answered", ![r].exprs = <<>>]
  /\ UNCHANGED <<editorVars, indexVars, readers, writer>>

WriteFile(r) ==
  /\ At(r, "write")
  /\ disk' = Holding(Target[request[r].path], Printed(request[r].exprs))
  /\ request' = [request EXCEPT ![r].pc = "lock", ![r].exprs = <<>>]
  /\ UNCHANGED <<editorVars, indexVars, readers, writer>>

-----------------------------------------------------------------------------
(* The editor.                                                             *)
Edit(f) ==
  /\ edits > 0
  /\ edits' = edits - 1
  /\ edited' = edited \cup {f}
  /\ \/ \E text \in EditTexts : disk' = Holding(f, text)
     \/ disk' = [g \in DOMAIN disk \ {f} |-> disk[g]]
  /\ UNCHANGED <<indexVars, readers, writer, request>>

ServerStep(r) ==
  \/ StartWalk(r) \/ WalkFile(r) \/ EndWalk(r)
  \/ ReadLock(r) \/ FindFile(r) \/ ReadAndReplace(r) \/ Truncate(r) \/ WriteFile(r)

EditorStep == \E f \in Files : Edit(f)

\* A request that was just made, or none.
Asked(q) ==
  /\ DOMAIN q = {"tool", "path", "name", "body", "todo", "exprs", "pc"}
  /\ q.pc \in {"lock", "find", "answered"}
  /\ q.pc = "lock" => q.path \in Paths

ServerInit ==
  /\ DOMAIN disk \subseteq Files /\ edits \in Nat
  /\ DOMAIN request = Requests /\ \A r \in Requests : Asked(request[r])
  /\ edited = {}
  /\ functions = <<>> /\ shapes = <<>> /\ seen = <<>> /\ contested = {}
  /\ readers = {} /\ writer = Nobody

-----------------------------------------------------------------------------
ServerTypeOK ==
  /\ DOMAIN disk \subseteq Files
  /\ \A f \in DOMAIN disk : disk[f] \in SourceText
  /\ \A f \in DOMAIN functions : functions[f].path \in FilePaths
  /\ DOMAIN seen \subseteq FilePaths
  /\ readers \subseteq Requests /\ writer \in Requests \cup {Nobody}

(* For every path, the index holds the definitions of the module that was  *)
(* last read from it, in its order, and nothing else: an interrupted walk, *)
(* a second path of one file or a patch leaves no duplicate behind.        *)
FunctionsExact ==
  \A p \in FilePaths :
    Keeping(functions, {i \in DOMAIN functions : functions[i].path = p})
      = IF p \in DOMAIN seen THEN Definitions(p, seen[p]) ELSE <<>>

(* A shape is indexed as the module last read from its path defines it     *)
(* last, and no shape is missing but one that two paths once defined.      *)
ShapesExact ==
  /\ \A n \in DOMAIN shapes :
       LET p == shapes[n].path
       IN  /\ p \in DOMAIN seen /\ n \in DOMAIN ShapesIn(p, seen[p])
           /\ ShapesIn(p, seen[p])[n] = shapes[n]
  /\ \A p \in DOMAIN seen :
       DOMAIN ShapesIn(p, seen[p]) \subseteq DOMAIN shapes \cup contested

(* The whole index says of every path what was last read from it.          *)
IndexExact == FunctionsExact /\ ShapesExact

(* When all requests are answered, the index says what the file says, for  *)
(* a path that no other path of that file competes with, if the file can   *)
(* be parsed and no editor changed it.                                     *)
FreshAtRest ==
  (\A r \in Requests : Answered(r)) =>
    \A p \in DOMAIN seen :
      /\ Target[p] \notin edited
      /\ \A q \in DOMAIN seen \ {p} : Target[q] # Target[p]
      /\ Parsed(disk[Target[p]]).err = ""
      => seen[p] = Items(Target[p])

(* Every request is answered: no request waits for a lock that is never    *)
(* released, its own included.                                             *)
EveryRequestAnswered == \A r \in Requests : <>Answered(r)
=============================================================================
