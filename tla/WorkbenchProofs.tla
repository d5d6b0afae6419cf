---------------------------- MODULE WorkbenchProofs -------------------------
(***************************************************************************)
(* The index of the MCP server, and all safety properties of the compiler  *)
(* and the server at work on the same files, for a parser, a verifier and  *)
(* a printer that are as ToolsFit says.                                    *)
(*                                                                         *)
(* Most of the server's invariant says who is to do what: a file whose     *)
(* indexed module is out of date is due to be read by some request, but if *)
(* an editor changed it or a second path of the file is indexed too.       *)
(***************************************************************************)
EXTENDS Workbench, BuildProofs

\* The entries of the path p in a list of definitions.
Of(s, p)    == Keeping(s, {i \in DOMAIN s : s[i].path = p})
NotOf(s, p) == Keeping(s, {i \in DOMAIN s : s[i].path # p})

\* When the entries of p are replaced by t, p has t and other paths what they had.
LEMMA Replacing ==
  ASSUME NEW S, NEW s \in Seq(S), NEW t \in Seq(S), NEW p,
         \A i \in 1 .. Len(t) : t[i].path = p
  PROVE  /\ NotOf(s, p) \o t \in Seq(S)
         /\ \A i \in DOMAIN (NotOf(s, p) \o t) :
              \/ (NotOf(s, p) \o t)[i].path = p
              \/ \E j \in DOMAIN s : (NotOf(s, p) \o t)[i] = s[j]
         /\ Of(NotOf(s, p) \o t, p) = t
         /\ \A q : q # p => Of(NotOf(s, p) \o t, q) = Of(s, q)
<1> DEFINE I == {i \in DOMAIN s : s[i].path # p}
           r == Keeping(s, I)
           n == Cardinality(I)
           u == r \o t
<1>1. /\ I \in SUBSET Nat /\ IsFiniteSet(I) /\ n \in Nat
      /\ r \in Seq(S) /\ Len(r) = n
      /\ \A k \in 1 .. n : Nth(I, k) \in I /\ r[k] = s[Nth(I, k)]
  <2>1. I \in SUBSET DOMAIN s
    OBVIOUS
  <2> HIDE DEF I
  <2> QED
    BY <2>1, Sublist
<1>2. Len(t) \in Nat /\ DOMAIN t = 1 .. Len(t)
  BY LenProperties
<1>3. /\ u \in Seq(S) /\ DOMAIN u = 1 .. n + Len(t)
      /\ \A k \in 1 .. n : u[k] = s[Nth(I, k)]
      /\ \A k \in 1 .. Len(t) : u[n + k] = t[k]
  <2> HIDE DEF I, r, n
  <2>1. /\ u \in Seq(S) /\ Len(u) = n + Len(t)
        /\ \A i \in 1 .. n + Len(t) : u[i] = IF i =< n THEN r[i] ELSE t[i - n]
    BY <1>1, ConcatProperties
  <2>2. DOMAIN u = 1 .. n + Len(t)
    BY <2>1, LenProperties
  <2>3. \A k \in 1 .. n : k \in 1 .. n + Len(t) /\ k =< n
    BY <1>1, <1>2
  <2>4. ASSUME NEW k \in 1 .. n
        PROVE  u[k] = s[Nth(I, k)]
    <3>1. u[k] = r[k]
      BY <2>1, <2>3
    <3> QED
      BY <1>1, <3>1
  <2>5. ASSUME NEW k \in 1 .. Len(t)
        PROVE  u[n + k] = t[k]
    <3>1. \A i \in 1 .. n + Len(t) : ~ (i =< n) => u[i] = t[i - n]
      BY <2>1
    <3>2. n \in Nat /\ Len(t) \in Nat
      BY <1>1, <1>2
    <3>3. PICK i \in 1 .. n + Len(t) : i = n + k
      BY <3>2
    <3>4. ~ (i =< n) /\ i - n = k
      BY <3>2, <3>3
    <3>5. u[i] = t[i - n]
      BY <3>1, <3>4
    <3> HIDE DEF u
    <3> QED
      BY <3>3, <3>4, <3>5
  <2> HIDE DEF u
  <2> QED
    BY <2>1, <2>2, <2>4, <2>5
<1>4. \A i \in DOMAIN u : i \in 1 .. n \/ \E k \in 1 .. Len(t) : i = n + k
  <2> HIDE DEF I, n, u
  <2> SUFFICES ASSUME NEW i \in 1 .. n + Len(t), i \notin 1 .. n
               PROVE  \E k \in 1 .. Len(t) : i = n + k
    BY <1>3
  <2>1. i - n \in 1 .. Len(t) /\ i = n + (i - n)
    BY <1>1, <1>2
  <2> QED
    BY <2>1
<1>5. \A i \in DOMAIN u : u[i].path = p \/ \E j \in DOMAIN s : u[i] = s[j]
  <2>1. \A k \in 1 .. n : Nth(I, k) \in DOMAIN s
    BY <1>1
  <2> HIDE DEF I, n, u
  <2> QED
    BY <1>3, <1>4, <2>1
<1>6. Of(u, p) = t
  <2> DEFINE J == {i \in DOMAIN u : u[i].path = p}
             m == Len(t)
             h == [k \in 1 .. m |-> n + k]
  <2>1. J \in SUBSET Nat /\ IsFiniteSet(J)
    <3>1. J \in SUBSET DOMAIN u
      OBVIOUS
    <3> HIDE DEF J, u
    <3> QED
      BY <1>3, <3>1, Sublist
  <2>2. \A k \in 1 .. m : n + k \in J
    <3> HIDE DEF I, n, u
    <3>1. \A k \in 1 .. m : n + k \in 1 .. n + Len(t)
      BY <1>1, <1>2
    <3> QED
      BY <1>3, <3>1
  <2>3. \A i \in J : \E k \in 1 .. m : h[k] = i
    <3> TAKE i \in J
    <3>1. i \notin 1 .. n
      BY <1>1, <1>3
    <3> QED
      BY <1>4, <3>1
  <2>4. Increasing(h, m)
    <3> HIDE DEF I, n
    <3> QED
      BY <1>1, <1>2 DEF Increasing
  <2>5. h \in [1 .. m -> J]
    <3> HIDE DEF J
    <3> QED
      BY <2>2
  <2>6. Keeping(u, J) = [k \in 1 .. m |-> u[h[k]]]
    <3>1. m \in Nat
      BY <1>2
    <3>2. Increasing(h, m) /\ \A i \in J : \E k \in 1 .. m : h[k] = i
      BY <2>3, <2>4
    <3> HIDE DEF J, u, h, m, I, n, r
    <3> QED
      BY <2>1, <2>5, <3>1, <3>2, Filtered
  <2>7. \A k \in 1 .. m : u[h[k]] = t[k]
    BY <1>3
  <2>8. Keeping(u, J) = t
    <3> HIDE DEF J, u, h
    <3> QED
      BY <1>2, <2>6, <2>7, LenProperties
  <2> QED
    BY <2>8 DEF Of
<1>7. ASSUME NEW q, q # p
      PROVE  Of(u, q) = Of(s, q)
  <2> DEFINE A == {i \in DOMAIN s : s[i].path = q}
             J == {i \in DOMAIN u : u[i].path = q}
             m == Cardinality(A)
             h == [k \in 1 .. m |-> Rank(I, Nth(A, k))]
  <2>1. /\ A \in SUBSET Nat /\ IsFiniteSet(A) /\ m \in Nat
        /\ \A k \in 1 .. m : Nth(A, k) \in A
    <3>1. A \in SUBSET DOMAIN s
      OBVIOUS
    <3> HIDE DEF A
    <3> QED
      BY <3>1, Sublist
  <2>2. J \in SUBSET Nat /\ IsFiniteSet(J)
    <3>1. J \in SUBSET DOMAIN u
      OBVIOUS
    <3> HIDE DEF J, u
    <3> QED
      BY <1>3, <3>1, Sublist
  <2>3. A \subseteq I
    BY <1>7
  <2>4. /\ \A i \in I : Rank(I, i) \in 1 .. n /\ Nth(I, Rank(I, i)) = i
        /\ \A i, j \in I : i < j => Rank(I, i) < Rank(I, j)
        /\ \A k \in 1 .. n : Rank(I, Nth(I, k)) = k
    <3> HIDE DEF I
    <3> QED
      BY <1>1, Ranks
  <2>5. /\ \A i \in A : Rank(A, i) \in 1 .. m /\ Nth(A, Rank(A, i)) = i
        /\ \A i, j \in A : i < j => Rank(A, i) < Rank(A, j)
        /\ \A k \in 1 .. m : Rank(A, Nth(A, k)) = k
    <3> HIDE DEF A
    <3> QED
      BY <2>1, Ranks
  <2>6. \A k \in 1 .. m : Rank(I, Nth(A, k)) \in 1 .. n /\ u[Rank(I, Nth(A, k))] = s[Nth(A, k)]
    <3> HIDE DEF A, I, u, m, n
    <3> QED
      BY <1>3, <2>1, <2>3, <2>4
  <2>7. \A k \in 1 .. m : Rank(I, Nth(A, k)) \in J
    <3>1. \A k \in 1 .. n : k \in 1 .. n + Len(t)
      <4> HIDE DEF n
      <4> QED
        BY <1>1, <1>2
    <3>2. \A k \in 1 .. m : s[Nth(A, k)].path = q
      <4> HIDE DEF m
      <4> QED
        BY <2>1
    <3> HIDE DEF A, I, u, m, n
    <3> QED
      BY <1>3, <2>6, <3>1, <3>2
  <2>8. h \in [1 .. m -> J]
    <3> HIDE DEF J, m
    <3> QED
      BY <2>7
  <2>9. Increasing(h, m)
    <3> SUFFICES ASSUME NEW k \in 1 .. m, NEW l \in 1 .. m, k < l
                 PROVE  Rank(I, Nth(A, k)) < Rank(I, Nth(A, l))
      BY DEF Increasing
    <3> HIDE DEF A, I, m
    <3>1. Nth(A, k) \in A /\ Nth(A, l) \in A /\ Nth(A, k) \in Nat /\ Nth(A, l) \in Nat
      BY <2>1
    <3>2. ~ (Nth(A, l) < Nth(A, k)) /\ Nth(A, l) # Nth(A, k)
      <4>1. Rank(A, Nth(A, k)) = k /\ Rank(A, Nth(A, l)) = l
        BY <2>5
      <4>2. ~ (l < k) /\ l # k
        BY <2>1
      <4> QED
        BY <2>5, <3>1, <4>1, <4>2
    <3>3. Nth(A, k) < Nth(A, l)
      BY <3>1, <3>2
    <3> QED
      BY <2>3, <2>4, <3>1, <3>3
  <2>10. \A i \in J : \E k \in 1 .. m : h[k] = i
    <3> TAKE i \in J
    <3>1. i \in 1 .. n
      BY <1>3, <1>4, <1>7
    <3>2. u[i] = s[Nth(I, i)] /\ Nth(I, i) \in I
      BY <1>1, <1>3, <3>1
    <3>3. Nth(I, i) \in A
      BY <3>2
    <3> HIDE DEF A, I, m, n, u, J
    <3>4. Rank(A, Nth(I, i)) \in 1 .. m /\ Nth(A, Rank(A, Nth(I, i))) = Nth(I, i)
      BY <2>5, <3>3
    <3>5. Rank(I, Nth(I, i)) = i
      BY <2>4, <3>1
    <3> QED
      BY <3>4, <3>5
  <2>11. Keeping(u, J) = [k \in 1 .. m |-> u[h[k]]]
    <3> HIDE DEF J, u, h, m
    <3> QED
      BY <2>1, <2>2, <2>8, <2>9, <2>10, Filtered
  <2>12. [k \in 1 .. m |-> u[h[k]]] = [k \in 1 .. m |-> s[Nth(A, k)]]
    <3> HIDE DEF A, I, u, m
    <3> QED
      BY <2>6
  <2> QED
    BY <2>11, <2>12 DEF Of, Keeping
<1> QED
  BY <1>3, <1>5, <1>6, <1>7 DEF NotOf

-----------------------------------------------------------------------------
(* What is known of the requests and of the index.                         *)
Fields == {"tool", "path", "name", "body", "todo", "exprs", "pc"}

Requested ==
  /\ DOMAIN request = Requests
  /\ \A r \in Requests :
       /\ DOMAIN request[r] = Fields
       /\ At(r, "lock") => request[r].path \in Paths
       /\ request[r].pc \in {"read", "truncate", "write"} => request[r].path \in FilePaths
       /\ At(r, "walk") => request[r].todo \subseteq FilePaths

Indexed ==
  /\ \E S : functions \in Seq(S)
  /\ \A i \in DOMAIN functions : functions[i].path \in FilePaths
  /\ DOMAIN seen \subseteq FilePaths

\* A file that was read is there, unless the editor deleted it.
Present == \A p \in DOMAIN seen : Target[p] \in edited \cup DOMAIN disk

\* The request r has changed the file f, or not read it yet, and is to read it.
Due(r, f) ==
  \/ /\ request[r].pc \in {"write", "lock"}
     /\ request[r].path \in FilePaths /\ Target[request[r].path] = f
  \/ At(r, "walk") /\ \E p \in request[r].todo : Target[p] = f

\* What the index says of a file is up to date, or about to be.
Fresh ==
  \A p \in DOMAIN seen :
    \/ Target[p] \in edited
    \/ \E q \in DOMAIN seen \ {p} : Target[q] = Target[p]
    \/ Parsed(disk[Target[p]]).err # ""
    \/ seen[p] = Items(Target[p])
    \/ \E r \in Requests : Due(r, Target[p])

ServerInv == Requested /\ Indexed /\ Present /\ Fresh

\* A shape that two paths define is on record as contested.
Contested ==
  \A p, q \in DOMAIN seen : p # q =>
    DOMAIN ShapesIn(p, seen[p]) \cap DOMAIN ShapesIn(q, seen[q]) \subseteq contested

-----------------------------------------------------------------------------
(* A step moves one request.                                               *)

Others(r) == /\ DOMAIN request' = Requests
             /\ \A s \in Requests : DOMAIN request'[s] = Fields
             /\ \A s \in Requests \ {r} : request'[s] = request[s]

LEMMA Going ==
  ASSUME Requested, NEW r \in Requests, NEW pc, Go(r, pc)
  PROVE  /\ Others(r)
         /\ request'[r].pc = pc
         /\ request'[r].path = request[r].path
         /\ request'[r].todo = request[r].todo
<1>1. request'[r] = [request[r] EXCEPT !.pc = pc]
  BY DEF Requested, Go
<1> QED
  BY <1>1 DEF Requested, Go, Others, Fields

\* What has to be seen of the request that moves.
LEMMA RequestedStep ==
  ASSUME Requested, NEW r \in Requests, Others(r),
         At(r, "lock")' => request'[r].path \in Paths,
         request'[r].pc \in {"read", "truncate", "write"} => request'[r].path \in FilePaths,
         At(r, "walk")' => request'[r].todo \subseteq FilePaths
  PROVE  Requested'
<1> SUFFICES ASSUME NEW s \in Requests
             PROVE  /\ At(s, "lock")' => request'[s].path \in Paths
                    /\ request'[s].pc \in {"read", "truncate", "write"} => request'[s].path \in FilePaths
                    /\ At(s, "walk")' => request'[s].todo \subseteq FilePaths
  BY DEF Requested, Others, FilePaths
<1>1. CASE s = r
  BY <1>1
<1>2. CASE s # r
  <2>1. request'[s] = request[s]
    BY <1>2 DEF Others
  <2> QED
    BY <2>1 DEF Requested, At
<1> QED
  BY <1>1, <1>2

\* A step that leaves the index and the files alone, and what is due due.
LEMMA IndexKept ==
  ASSUME ServerInv, UNCHANGED <<disk, editorVars, indexVars>>,
         NEW r \in Requests, Others(r), \A f : Due(r, f) => Due(r, f)'
  PROVE  Indexed' /\ Present' /\ Fresh'
<1>1. UNCHANGED <<disk, edited, functions, seen>>
  BY DEF editorVars, indexVars
<1>2. Indexed' /\ Present'
  BY <1>1 DEF ServerInv, Indexed, Present
<1>3. \A s \in Requests : \A f : Due(s, f) => Due(s, f)'
  BY DEF Others, Due, At
<1>4. Fresh'
  BY <1>1, <1>3 DEF ServerInv, Fresh, Items
<1> QED
  BY <1>2, <1>4

-----------------------------------------------------------------------------
LEMMA StartWalkKeeps ==
  ASSUME ServerInv, NEW r \in Requests, StartWalk(r)
  PROVE  ServerInv'
<1>1. /\ request'[r] = [request[r] EXCEPT !.pc = "walk", !.todo = Walk[request[r].path]]
      /\ DOMAIN request[r] = Fields
  BY DEF StartWalk, ServerInv, Requested
<1>2. Others(r) /\ request'[r].pc = "walk" /\ request'[r].todo = Walk[request[r].path]
  BY <1>1 DEF StartWalk, ServerInv, Requested, Others, Fields
<1>3. request[r].pc = "lock" /\ request[r].path \in Paths
  BY DEF StartWalk, ServerInv, Requested, At
<1>4. Requested'
  <2>1. request'[r].todo \subseteq FilePaths
    BY <1>2, <1>3, McpAssumption
  <2> QED
    BY <1>2, <2>1, RequestedStep DEF ServerInv, At
<1>5. \A f : Due(r, f) => Due(r, f)'
  BY <1>2, <1>3, McpAssumption DEF Due, At
<1>6. UNCHANGED <<disk, editorVars, indexVars>>
  BY DEF StartWalk
<1> QED
  BY <1>2, <1>4, <1>5, <1>6, IndexKept DEF ServerInv

LEMMA EndWalkKeeps ==
  ASSUME ServerInv, NEW r \in Requests, EndWalk(r)
  PROVE  ServerInv'
<1>1. Others(r) /\ request'[r].pc = "answered"
  BY Going DEF EndWalk, ServerInv
<1>2. Requested'
  BY <1>1, RequestedStep DEF ServerInv, At
<1>3. \A f : ~ Due(r, f)
  BY DEF EndWalk, Due, At
<1>4. UNCHANGED <<disk, editorVars, indexVars>>
  BY DEF EndWalk
<1> QED
  BY <1>1, <1>2, <1>3, <1>4, IndexKept DEF ServerInv

LEMMA ReadLockKeeps ==
  ASSUME ServerInv, NEW r \in Requests, ReadLock(r)
  PROVE  ServerInv'
<1>1. Others(r) /\ request'[r].pc = "resolve"
  BY Going DEF ReadLock, ServerInv
<1>2. Requested'
  BY <1>1, RequestedStep DEF ServerInv, At
<1>3. \A f : ~ Due(r, f)
  BY DEF ReadLock, Due, At
<1>4. UNCHANGED <<disk, editorVars, indexVars>>
  BY DEF ReadLock
<1> QED
  BY <1>1, <1>2, <1>3, <1>4, IndexKept DEF ServerInv

\* A name that is found is found at a path of the index.
LEMMA Resolved ==
  ASSUME Indexed, NEW name, NEW path
  PROVE  ResolveFunction(name, path) \in FilePaths \cup {NoPath}
<1> DEFINE metas == {i \in DOMAIN functions : functions[i].name = name}
           there == {i \in metas : PathsMatch(functions[i].path, path)}
<1>1. ASSUME NEW I \in SUBSET DOMAIN functions, Cardinality(I) = 1 \/ I # {}
      PROVE  functions[Nth(I, 1)].path \in FilePaths
  <2>1. PICK S : functions \in Seq(S)
    BY DEF Indexed
  <2>2. /\ IsFiniteSet(I) /\ Cardinality(I) \in Nat
        /\ \A k \in 1 .. Cardinality(I) : Nth(I, k) \in I
    BY <2>1, Sublist
  <2>3. 1 \in 1 .. Cardinality(I)
    BY <1>1, <2>2, FS_EmptySet
  <2> QED
    BY <2>2, <2>3 DEF Indexed
<1>2. metas \in SUBSET DOMAIN functions /\ there \in SUBSET DOMAIN functions
  OBVIOUS
<1>3. there # {} => functions[Nth(there, 1)].path \in FilePaths
  <2> HIDE DEF there
  <2> QED
    BY <1>1, <1>2
<1>4. Cardinality(metas) = 1 => functions[Nth(metas, 1)].path \in FilePaths
  <2> HIDE DEF metas
  <2> QED
    BY <1>1, <1>2
<1> QED
  BY <1>3, <1>4 DEF ResolveFunction

LEMMA FindFileKeeps ==
  ASSUME ServerInv, NEW r \in Requests, FindFile(r)
  PROVE  ServerInv'
<1> DEFINE path == ResolveFunction(request[r].name, request[r].path)
<1>1. /\ Others(r)
      /\ request'[r].pc # "refused" =>
           request'[r].pc = "read" /\ request'[r].path \in FilePaths
  <2>1. CASE path = NoPath
    <3>1. Go(r, "refused")
      BY <2>1 DEF FindFile
    <3>2. Requested
      BY DEF ServerInv
    <3> QED
      BY <3>1, <3>2, Going
  <2>2. CASE path # NoPath
    <3>1. path \in FilePaths
      BY <2>2, Resolved DEF ServerInv
    <3>2. request' = [request EXCEPT ![r].pc = "read", ![r].path = path]
      BY <2>2 DEF FindFile
    <3> HIDE DEF path
    <3>3. request'[r] = [request[r] EXCEPT !.pc = "read", !.path = path]
      BY <3>2 DEF ServerInv, Requested
    <3> QED
      BY <3>1, <3>2, <3>3 DEF ServerInv, Requested, Others, Fields
  <2> QED
    BY <2>1, <2>2
<1>2. Requested'
  BY <1>1, RequestedStep DEF ServerInv, At
<1>3. \A f : ~ Due(r, f)
  BY DEF FindFile, Due, At
<1>4. UNCHANGED <<disk, editorVars, indexVars>>
  BY DEF FindFile
<1> QED
  BY <1>1, <1>2, <1>3, <1>4, IndexKept DEF ServerInv

LEMMA ReadAndReplaceKeeps ==
  ASSUME ServerInv, NEW r \in Requests, ReadAndReplace(r)
  PROVE  ServerInv'
<1>1. request[r].pc = "read" /\ request[r].path \in FilePaths
  BY DEF ReadAndReplace, ServerInv, Requested, At
<1>2. /\ Others(r)
      /\ request'[r].pc # "refused" =>
           request'[r].pc = "truncate" /\ request'[r].path \in FilePaths
  <2>1. CASE Go(r, "refused")
    <3>1. Requested
      BY DEF ServerInv
    <3> QED
      BY <2>1, <3>1, Going
  <2>2. ASSUME NEW exprs, request' = [request EXCEPT ![r].pc = "truncate", ![r].exprs = exprs]
        PROVE  Others(r) /\ request'[r].pc = "truncate" /\ request'[r].path \in FilePaths
    <3>1. request'[r] = [request[r] EXCEPT !.pc = "truncate", !.exprs = exprs]
      BY <2>2 DEF ServerInv, Requested
    <3> QED
      BY <1>1, <2>2, <3>1 DEF ServerInv, Requested, Others, Fields
  <2> QED
    BY <2>1, <2>2 DEF ReadAndReplace
<1>3. Requested'
  BY <1>2, RequestedStep DEF ServerInv, At
<1>4. \A f : ~ Due(r, f)
  BY <1>1 DEF Due, At
<1>5. UNCHANGED <<disk, editorVars, indexVars>>
  BY DEF ReadAndReplace
<1> QED
  BY <1>2, <1>3, <1>4, <1>5, IndexKept DEF ServerInv

-----------------------------------------------------------------------------
(* Steps that change a file.                                               *)

\* A file that is written is there, and the request that writes it will read it.
LEMMA Writing ==
  ASSUME ServerInv, NEW r \in Requests, NEW text, request[r].path \in FilePaths,
         disk' = Holding(Target[request[r].path], text),
         UNCHANGED <<editorVars, indexVars>>, Others(r),
         request'[r].pc \in {"write", "lock"}, request'[r].path = request[r].path,
         ~ At(r, "walk")
  PROVE  Indexed' /\ Present' /\ Fresh'
<1> DEFINE f == Target[request[r].path]
<1>1. UNCHANGED <<edited, functions, seen>>
  BY DEF editorVars, indexVars
<1>2. DOMAIN disk' = DOMAIN disk \cup {f} /\ \A g \in DOMAIN disk \ {f} : disk'[g] = disk[g]
  BY DEF Holding
<1>3. Indexed' /\ Present'
  BY <1>1, <1>2 DEF ServerInv, Indexed, Present
<1>4. Due(r, f)'
  BY DEF Due
<1>5. \A s \in Requests : \A g : Due(s, g) => Due(s, g)'
  BY DEF Others, Due, At
<1>6. Fresh'
  <2> SUFFICES ASSUME NEW p \in DOMAIN seen, Target[p] \notin edited, Target[p] # f
               PROVE  \/ \E q \in DOMAIN seen \ {p} : Target[q] = Target[p]
                      \/ Parsed(disk'[Target[p]]).err # ""
                      \/ seen[p] = Parsed(disk'[Target[p]]).items
                      \/ \E s \in Requests : Due(s, Target[p])'
    BY <1>1, <1>4 DEF Fresh, Items
  <2>1. disk'[Target[p]] = disk[Target[p]]
    BY <1>2 DEF ServerInv, Present
  <2> QED
    BY <1>5, <2>1 DEF ServerInv, Fresh, Items
<1> QED
  BY <1>3, <1>6

LEMMA TruncateKeeps ==
  ASSUME ServerInv, NEW r \in Requests, Truncate(r)
  PROVE  ServerInv'
<1>1. request[r].pc = "truncate" /\ request[r].path \in FilePaths
  BY DEF Truncate, ServerInv, Requested, At
<1>2. Others(r) /\ request'[r].pc = "write" /\ request'[r].path = request[r].path
  BY Going DEF Truncate, ServerInv
<1>3. Requested'
  BY <1>1, <1>2, RequestedStep DEF ServerInv, At
<1>4. Indexed' /\ Present' /\ Fresh'
  <2>1. disk' = Holding(Target[request[r].path], <<>>) /\ UNCHANGED <<editorVars, indexVars>>
    BY DEF Truncate
  <2> QED
    BY <1>1, <1>2, <2>1, Writing DEF At
<1> QED
  BY <1>3, <1>4 DEF ServerInv

LEMMA WriteFileKeeps ==
  ASSUME ServerInv, NEW r \in Requests, WriteFile(r)
  PROVE  ServerInv'
<1>1. request[r].pc = "write" /\ request[r].path \in FilePaths
  BY DEF WriteFile, ServerInv, Requested, At
<1>2. Others(r) /\ request'[r].pc = "lock" /\ request'[r].path = request[r].path
  <2>1. request'[r] = [request[r] EXCEPT !.pc = "lock", !.exprs = <<>>]
    BY DEF WriteFile, ServerInv, Requested
  <2> QED
    BY <2>1 DEF WriteFile, ServerInv, Requested, Others, Fields
<1>3. Requested'
  BY <1>1, <1>2, RequestedStep, McpAssumption DEF ServerInv, At
<1>4. Indexed' /\ Present' /\ Fresh'
  <2>1. /\ disk' = Holding(Target[request[r].path], Printed(request[r].exprs))
        /\ UNCHANGED <<editorVars, indexVars>>
    BY DEF WriteFile
  <2> QED
    BY <1>1, <1>2, <2>1, Writing DEF At
<1> QED
  BY <1>3, <1>4 DEF ServerInv

LEMMA EditKeeps ==
  ASSUME ServerInv, NEW f \in Files, Edit(f)
  PROVE  ServerInv'
<1>1. edited' = edited \cup {f} /\ UNCHANGED <<functions, seen, request>>
  BY DEF Edit, indexVars
<1>2. \A g \in DOMAIN disk \ {f} : g \in DOMAIN disk' /\ disk'[g] = disk[g]
  BY DEF Edit, Holding
<1>3. Requested' /\ Indexed' /\ Present'
  BY <1>1, <1>2 DEF ServerInv, Requested, Indexed, Present, At
<1>4. Fresh'
  <2> SUFFICES ASSUME NEW p \in DOMAIN seen, Target[p] \notin edited, Target[p] # f
               PROVE  \/ \E q \in DOMAIN seen \ {p} : Target[q] = Target[p]
                      \/ Parsed(disk'[Target[p]]).err # ""
                      \/ seen[p] = Parsed(disk'[Target[p]]).items
                      \/ \E s \in Requests : Due(s, Target[p])
    BY <1>1 DEF Fresh, Items, Due, At
  <2>1. disk'[Target[p]] = disk[Target[p]]
    BY <1>2 DEF ServerInv, Present
  <2> QED
    BY <2>1 DEF ServerInv, Fresh, Items
<1> QED
  BY <1>3, <1>4 DEF ServerInv

-----------------------------------------------------------------------------
(* The walk.                                                               *)

\* What is read of a file is a list of items.
ReadsLists == \A f \in DOMAIN disk : Parses(f) => \E S : Items(f) \in Seq(S)

LEMMA DefinitionsListed ==
  ASSUME NEW S, NEW exprs \in Seq(S), NEW path
  PROVE  \E T : /\ Definitions(path, exprs) \in Seq(T)
                /\ \A i \in 1 .. Len(Definitions(path, exprs)) :
                     Definitions(path, exprs)[i].path = path
<1> DEFINE J == {i \in DOMAIN exprs : exprs[i].op = "Define"}
           defines == Keeping(exprs, J)
           meta(i) == [name |-> defines[i].name, path |-> path, body |-> defines[i].kids[1]]
           T == {meta(i) : i \in DOMAIN defines}
           n == Cardinality(J)
<1>1. n \in Nat /\ DOMAIN defines = 1 .. n
  <2>1. J \in SUBSET DOMAIN exprs
    OBVIOUS
  <2> HIDE DEF J
  <2> QED
    BY <2>1, Sublist
<1>2. Definitions(path, exprs) = [i \in 1 .. n |-> meta(i)]
  BY <1>1 DEF Definitions
<1>3. \A i \in 1 .. n : meta(i) \in T /\ meta(i).path = path
  BY <1>1
<1> HIDE DEF meta, T, n
<1>4. [i \in 1 .. n |-> meta(i)] \in Seq(T) /\ Len([i \in 1 .. n |-> meta(i)]) = n
  BY <1>1, <1>3
<1> QED
  BY <1>2, <1>3, <1>4

\* What indexing a file changes: the path has its new definitions, others what they had.
LEMMA FunctionsStep ==
  ASSUME Indexed, NEW S, NEW exprs \in Seq(S), NEW path, IndexExprs(path, exprs)
  PROVE  /\ \E T : functions' \in Seq(T)
         /\ \A i \in DOMAIN functions' :
              functions'[i].path = path \/ \E j \in DOMAIN functions : functions'[i] = functions[j]
         /\ Of(functions', path) = Definitions(path, exprs)
         /\ \A q : q # path => Of(functions', q) = Of(functions, q)
<1> DEFINE t == Definitions(path, exprs)
<1>1. PICK A : functions \in Seq(A)
  BY DEF Indexed
<1>2. PICK B : t \in Seq(B) /\ \A i \in 1 .. Len(t) : t[i].path = path
  BY DefinitionsListed
<1>3. functions' = NotOf(functions, path) \o t
  BY DEF IndexExprs, PurgeFunctions, NotOf
<1> HIDE DEF t
<1>4. functions \in Seq(A \cup B) /\ t \in Seq(A \cup B)
  BY <1>1, <1>2
<1>5. /\ NotOf(functions, path) \o t \in Seq(A \cup B)
      /\ \A i \in DOMAIN (NotOf(functions, path) \o t) :
           \/ (NotOf(functions, path) \o t)[i].path = path
           \/ \E j \in DOMAIN functions : (NotOf(functions, path) \o t)[i] = functions[j]
      /\ Of(NotOf(functions, path) \o t, path) = t
      /\ \A q : q # path => Of(NotOf(functions, path) \o t, q) = Of(functions, q)
  BY <1>2, <1>4, Replacing
<1> QED
  BY <1>3, <1>5 DEF t

LEMMA WalkFileKeeps ==
  ASSUME ReadsLists, ServerInv, NEW r \in Requests, WalkFile(r)
  PROVE  ServerInv'
<1>1. request[r].pc = "walk" /\ request[r].todo \subseteq FilePaths /\ DOMAIN request[r] = Fields
  BY DEF WalkFile, ServerInv, Requested, At
<1>2. PICK path \in request[r].todo :
        /\ request' = [request EXCEPT ![r].todo = @ \ {path}]
        /\ IF Parses(Target[path]) THEN IndexExprs(path, Items(Target[path]))
           ELSE UNCHANGED indexVars
  BY DEF WalkFile
<1>3. path \in FilePaths
  BY <1>1
<1>4. /\ Others(r) /\ request'[r].pc = "walk"
      /\ request'[r].todo = request[r].todo \ {path}
  <2>1. request'[r] = [request[r] EXCEPT !.todo = @ \ {path}]
    BY <1>2 DEF ServerInv, Requested
  <2> QED
    BY <1>1, <1>2, <2>1 DEF ServerInv, Requested, Others, Fields
<1>5. Requested'
  BY <1>1, <1>4, RequestedStep DEF ServerInv, At
<1>6. UNCHANGED <<disk, edited>>
  BY DEF WalkFile, editorVars
<1>7. \A s \in Requests : \A f : Due(s, f) => Due(s, f)' \/ f = Target[path]
  BY <1>1, <1>4 DEF Others, Due, At
<1>8. CASE ~ Parses(Target[path])
  <2>1. UNCHANGED <<functions, seen>>
    BY <1>2, <1>8 DEF indexVars
  <2>2. Indexed' /\ Present'
    BY <1>6, <2>1 DEF ServerInv, Indexed, Present
  <2>3. Fresh'
    <3> SUFFICES ASSUME NEW p \in DOMAIN seen, Target[p] \notin edited,
                        Parsed(disk[Target[p]]).err = ""
                 PROVE  \/ \E q \in DOMAIN seen \ {p} : Target[q] = Target[p]
                        \/ seen[p] = Items(Target[p])
                        \/ \E s \in Requests : Due(s, Target[p])'
      BY <1>6, <2>1 DEF Fresh, Items
    <3>1. Target[p] # Target[path]
      BY <1>8 DEF ServerInv, Present, Parses
    <3> QED
      BY <1>7, <3>1 DEF ServerInv, Fresh
  <2> QED
    BY <1>5, <2>2, <2>3 DEF ServerInv
<1>9. CASE Parses(Target[path])
  <2>1. IndexExprs(path, Items(Target[path]))
    BY <1>2, <1>9
  <2>2. /\ DOMAIN seen' = DOMAIN seen \cup {path}
        /\ seen'[path] = Items(Target[path])
        /\ \A p \in DOMAIN seen \ {path} : seen'[p] = seen[p]
    BY <2>1 DEF IndexExprs
  <2>3. Indexed'
    <3>1. PICK S : Items(Target[path]) \in Seq(S)
      BY <1>9 DEF ReadsLists, Parses
    <3>2. /\ \E T : functions' \in Seq(T)
          /\ \A i \in DOMAIN functions' :
               functions'[i].path = path \/ \E j \in DOMAIN functions : functions'[i] = functions[j]
      BY <2>1, <3>1, FunctionsStep DEF ServerInv
    <3> QED
      BY <1>3, <2>2, <3>2 DEF ServerInv, Indexed, FilePaths
  <2>4. Present'
    BY <1>6, <1>9, <2>2 DEF ServerInv, Present, Parses
  <2>5. Fresh'
    <3> SUFFICES ASSUME NEW p \in DOMAIN seen', p # path, Target[p] \notin edited,
                        Target[p] # Target[path]
                 PROVE  \/ \E q \in DOMAIN seen' \ {p} : Target[q] = Target[p]
                        \/ Parsed(disk[Target[p]]).err # ""
                        \/ seen'[p] = Items(Target[p])
                        \/ \E s \in Requests : Due(s, Target[p])'
      BY <1>6, <2>2 DEF Fresh, Items
    <3>1. p \in DOMAIN seen /\ seen'[p] = seen[p]
      BY <2>2
    <3> QED
      BY <1>7, <2>2, <3>1 DEF ServerInv, Fresh
  <2> QED
    BY <1>5, <2>3, <2>4, <2>5 DEF ServerInv
<1> QED
  BY <1>8, <1>9

-----------------------------------------------------------------------------
\* A step of the server or of the editor, or of neither.
ServerMoves == (\E r \in Requests : ServerStep(r)) \/ EditorStep \/ UNCHANGED serverVars

LEMMA ServerInvInit == ServerInit => ServerInv
<1> SUFFICES ASSUME ServerInit
             PROVE  ServerInv
  OBVIOUS
<1>1. Requested
  BY DEF ServerInit, Requested, Asked, Fields, At
<1>2. Indexed /\ Present /\ Fresh
  <2>1. functions = <<>> /\ seen = <<>>
    BY DEF ServerInit
  <2>2. DOMAIN functions = {} /\ DOMAIN seen = {} /\ functions \in Seq({})
    BY <2>1
  <2> QED
    BY <2>2 DEF Indexed, Present, Fresh
<1> QED
  BY <1>1, <1>2 DEF ServerInv

LEMMA ServerInvNext ==
  ASSUME ReadsLists, ServerInv, ServerMoves
  PROVE  ServerInv'
<1>1. ASSUME NEW r \in Requests, ServerStep(r)
      PROVE  ServerInv'
  BY <1>1, StartWalkKeeps, WalkFileKeeps, EndWalkKeeps, ReadLockKeeps, FindFileKeeps,
     ReadAndReplaceKeeps, TruncateKeeps, WriteFileKeeps DEF ServerStep
<1>2. CASE EditorStep
  BY <1>2, EditKeeps DEF EditorStep
<1>3. CASE UNCHANGED serverVars
  <2>1. UNCHANGED <<disk, edited, functions, seen, request>>
    BY <1>3 DEF serverVars, editorVars, indexVars
  <2>2. Requested' /\ Indexed' /\ Present'
    BY <2>1 DEF ServerInv, Requested, Indexed, Present, At
  <2>3. Fresh'
    BY <2>1 DEF ServerInv, Fresh, Due, At, Items
  <2> QED
    BY <2>2, <2>3 DEF ServerInv
<1> QED
  BY <1>1, <1>2, <1>3 DEF ServerMoves

LEMMA ServerInvFresh == ServerInv => FreshAtRest
<1> SUFFICES ASSUME ServerInv, \A r \in Requests : Answered(r),
                    NEW p \in DOMAIN seen, Target[p] \notin edited,
                    \A q \in DOMAIN seen \ {p} : Target[q] # Target[p],
                    Parsed(disk[Target[p]]).err = ""
             PROVE  seen[p] = Items(Target[p])
  BY DEF FreshAtRest
<1>1. \A r \in Requests : ~ Due(r, Target[p])
  BY DEF Answered, Due, At
<1> QED
  BY <1>1 DEF ServerInv, Fresh

-----------------------------------------------------------------------------
(* What the index says of a path is what was read there.                   *)

IndexInv == ServerInv /\ FunctionsExact /\ ShapesExact /\ Contested

LEMMA ShapesOfPath ==
  ASSUME NEW path, NEW exprs, NEW n \in DOMAIN ShapesIn(path, exprs)
  PROVE  ShapesIn(path, exprs)[n].path = path
BY DEF ShapesIn

LEMMA IndexStep ==
  ASSUME IndexInv, NEW path \in FilePaths, NEW S, NEW exprs \in Seq(S),
         IndexExprs(path, exprs)
  PROVE  FunctionsExact' /\ ShapesExact' /\ Contested'
<1>1. /\ DOMAIN seen' = DOMAIN seen \cup {path}
      /\ seen'[path] = exprs
      /\ \A p \in DOMAIN seen \ {path} : seen'[p] = seen[p]
  BY DEF IndexExprs
<1>2. FunctionsExact'
  <2>1. /\ Of(functions', path) = Definitions(path, exprs)
        /\ \A q : q # path => Of(functions', q) = Of(functions, q)
    BY FunctionsStep DEF IndexInv, ServerInv
  <2>2. ASSUME NEW p \in FilePaths
        PROVE  Of(functions', p) = IF p \in DOMAIN seen' THEN Definitions(p, seen'[p]) ELSE <<>>
    <3>1. Of(functions, p) = IF p \in DOMAIN seen THEN Definitions(p, seen[p]) ELSE <<>>
      BY DEF IndexInv, FunctionsExact, Of
    <3> QED
      BY <1>1, <2>1, <3>1
  <2> QED
    BY <2>2 DEF FunctionsExact, Of, FilePaths
<1> DEFINE found == ShapesIn(path, exprs)
<1>3. /\ DOMAIN shapes' = DOMAIN found \cup {n \in DOMAIN shapes : shapes[n].path # path}
      /\ \A n \in DOMAIN found : shapes'[n] = found[n]
      /\ \A n \in DOMAIN shapes' \ DOMAIN found : shapes'[n] = shapes[n]
  <2> HIDE DEF found
  <2> QED
    BY DEF IndexExprs, PurgeShapes, found
<1>4. contested' = contested \cup {n \in DOMAIN found :
        \E q \in DOMAIN seen \ {path} : n \in DOMAIN ShapesIn(q, seen[q])}
  BY DEF IndexExprs
<1>5. \A n \in DOMAIN found : found[n].path = path
  BY ShapesOfPath
<1> HIDE DEF found
<1>6. ShapesExact'
  <2>1. ASSUME NEW n \in DOMAIN shapes'
        PROVE  /\ shapes'[n].path \in DOMAIN seen'
               /\ n \in DOMAIN ShapesIn(shapes'[n].path, seen'[shapes'[n].path])
               /\ ShapesIn(shapes'[n].path, seen'[shapes'[n].path])[n] = shapes'[n]
    <3>1. CASE n \in DOMAIN found
      BY <1>1, <1>3, <1>5, <3>1 DEF found
    <3>2. CASE n \notin DOMAIN found
      <4>1. n \in DOMAIN shapes /\ shapes'[n] = shapes[n] /\ shapes[n].path # path
        BY <1>3, <3>2
      <4> QED
        BY <1>1, <4>1 DEF IndexInv, ShapesExact
    <3> QED
      BY <3>1, <3>2
  <2>2. ASSUME NEW p \in DOMAIN seen', NEW n \in DOMAIN ShapesIn(p, seen'[p]),
               n \notin DOMAIN shapes'
        PROVE  n \in contested'
    <3>1. p # path /\ p \in DOMAIN seen /\ seen'[p] = seen[p]
      BY <1>1, <1>3, <2>2 DEF found
    <3>2. CASE n \in contested
      BY <1>4, <3>2
    <3>3. CASE n \notin contested
      <4>1. n \in DOMAIN shapes
        BY <3>1, <3>3, <2>2 DEF IndexInv, ShapesExact
      <4>2. shapes[n].path = path
        BY <1>3, <2>2, <4>1
      <4>3. path \in DOMAIN seen /\ n \in DOMAIN ShapesIn(path, seen[path])
        BY <4>1, <4>2 DEF IndexInv, ShapesExact
      <4> QED
        BY <2>2, <3>1, <3>3, <4>3 DEF IndexInv, Contested
    <3> QED
      BY <3>2, <3>3
  <2> QED
    BY <2>1, <2>2 DEF ShapesExact
<1>7. Contested'
  <2> SUFFICES ASSUME NEW p \in DOMAIN seen', NEW q \in DOMAIN seen', p # q,
                      NEW n, n \in DOMAIN ShapesIn(p, seen'[p]), n \in DOMAIN ShapesIn(q, seen'[q])
               PROVE  n \in contested'
    BY DEF Contested
  <2>1. CASE p = path
    BY <1>1, <1>4, <2>1 DEF found
  <2>2. CASE q = path
    BY <1>1, <1>4, <2>2 DEF found
  <2>3. CASE p # path /\ q # path
    BY <1>1, <1>4, <2>3 DEF IndexInv, Contested
  <2> QED
    BY <2>1, <2>2, <2>3
<1> QED
  BY <1>2, <1>6, <1>7

LEMMA IndexSame ==
  ASSUME IndexInv, UNCHANGED indexVars
  PROVE  FunctionsExact' /\ ShapesExact' /\ Contested'
<1>1. UNCHANGED <<functions, shapes, seen, contested>>
  BY DEF indexVars
<1> QED
  BY <1>1 DEF IndexInv, FunctionsExact, ShapesExact, Contested

LEMMA IndexInvInit == ServerInit => IndexInv
<1> SUFFICES ASSUME ServerInit
             PROVE  IndexInv
  OBVIOUS
<1>1. functions = <<>> /\ seen = <<>> /\ shapes = <<>>
  BY DEF ServerInit
<1>2. DOMAIN functions = {} /\ DOMAIN seen = {} /\ DOMAIN shapes = {} /\ functions \in Seq({})
  BY <1>1
<1>3. FunctionsExact
  <2> SUFFICES ASSUME NEW p \in FilePaths
               PROVE  Keeping(functions, {i \in DOMAIN functions : functions[i].path = p}) = <<>>
    BY <1>2 DEF FunctionsExact
  <2>1. {i \in DOMAIN functions : functions[i].path = p} = {} /\ Cardinality({}) = 0
    BY <1>2, FS_EmptySet
  <2>2. Keeping(functions, {}) = [k \in 1 .. 0 |-> functions[Nth({}, k)]]
    BY <2>1 DEF Keeping
  <2>3. Keeping(functions, {}) = <<>>
    BY <2>2
  <2> QED
    BY <2>1, <2>3
<1> QED
  BY <1>2, <1>3, ServerInvInit DEF IndexInv, ShapesExact, Contested

LEMMA IndexInvNext ==
  ASSUME ReadsLists, IndexInv, ServerMoves
  PROVE  IndexInv'
<1>1. ServerInv'
  BY ServerInvNext DEF IndexInv
<1>2. ASSUME NEW r \in Requests, WalkFile(r)
      PROVE  FunctionsExact' /\ ShapesExact' /\ Contested'
  <2>1. request[r].todo \subseteq FilePaths
    BY <1>2 DEF WalkFile, IndexInv, ServerInv, Requested
  <2>2. PICK path \in FilePaths :
          IF Parses(Target[path]) THEN IndexExprs(path, Items(Target[path])) ELSE UNCHANGED indexVars
    BY <1>2, <2>1 DEF WalkFile
  <2>3. CASE Parses(Target[path])
    <3>1. PICK S : Items(Target[path]) \in Seq(S)
      BY <2>3 DEF ReadsLists, Parses
    <3> QED
      BY <2>2, <2>3, <3>1, IndexStep
  <2>4. CASE ~ Parses(Target[path])
    BY <2>2, <2>4, IndexSame
  <2> QED
    BY <2>3, <2>4
<1>3. ASSUME ~ \E r \in Requests : WalkFile(r)
      PROVE  UNCHANGED indexVars
  BY <1>3 DEF ServerMoves, ServerStep, EditorStep, Edit, StartWalk, EndWalk, ReadLock, FindFile,
    ReadAndReplace, Truncate, WriteFile, serverVars
<1> QED
  BY <1>1, <1>2, <1>3, IndexSame DEF IndexInv

-----------------------------------------------------------------------------
(* The files hold texts, and the lock is held by requests.                 *)

\* What is asked does not change, and what will be written is a text.
Asking ==
  \A r \in Requests :
    /\ \E ask \in Demands : request[r].name = ask.name /\ request[r].body = ask.body
    /\ request[r].pc \in {"truncate", "write"} => Printed(request[r].exprs) \in SourceText

Texts == DOMAIN disk \subseteq Files /\ \A f \in DOMAIN disk : disk[f] \in SourceText

\* Who holds the lock is at a step that does not wait.
Locks ==
  /\ readers \subseteq Requests /\ \A r \in readers : At(r, "resolve")
  /\ writer \in Requests \cup {Nobody} /\ (writer # Nobody => At(writer, "walk"))

\* What has to be seen of the request that moves.
LEMMA AskingStep ==
  ASSUME Requested, Asking, NEW r \in Requests, Others(r),
         request'[r].name = request[r].name, request'[r].body = request[r].body,
         request'[r].pc \in {"truncate", "write"} => Printed(request'[r].exprs) \in SourceText
  PROVE  Asking'
<1> SUFFICES ASSUME NEW s \in Requests
             PROVE  /\ \E ask \in Demands : request'[s].name = ask.name /\ request'[s].body = ask.body
                    /\ request'[s].pc \in {"truncate", "write"} => Printed(request'[s].exprs) \in SourceText
  BY DEF Asking
<1>1. CASE s = r
  BY <1>1 DEF Asking
<1>2. CASE s # r
  BY <1>2 DEF Asking, Others
<1> QED
  BY <1>1, <1>2

LEMMA AskingGoes ==
  ASSUME Requested, Asking, NEW r \in Requests, NEW pc, Go(r, pc),
         pc \notin {"truncate", "write"} \/ At(r, "truncate")
  PROVE  Asking'
<1>1. request'[r] = [request[r] EXCEPT !.pc = pc] /\ DOMAIN request[r] = Fields
  BY DEF Requested, Go
<1>2. /\ request'[r].name = request[r].name /\ request'[r].body = request[r].body
      /\ request'[r].exprs = request[r].exprs /\ request'[r].pc = pc
  BY <1>1 DEF Fields
<1>3. Others(r)
  BY Going
<1>4. pc \in {"truncate", "write"} => Printed(request[r].exprs) \in SourceText
  BY DEF Asking, At
<1> QED
  BY <1>2, <1>3, <1>4, AskingStep

LEMMA AskingReplaces ==
  ASSUME ToolsFit, Requested, Asking, Texts, NEW r \in Requests, ReadAndReplace(r)
  PROVE  Asking'
<1> DEFINE file  == Target[request[r].path]
           exprs == Replaced(Items(file), request[r].name, request[r].body)
<1>1. CASE Go(r, "refused")
  BY <1>1, AskingGoes
<1>2. CASE ~Go(r, "refused")
  <2>1. /\ Parses(file) /\ Defines(Items(file), request[r].name)
        /\ request' = [request EXCEPT ![r].pc = "truncate", ![r].exprs = exprs]
    BY <1>2 DEF ReadAndReplace
  <2>2. PICK ask \in Demands : request[r].name = ask.name /\ request[r].body = ask.body
    BY DEF Asking
  <2>3. Printed(exprs) \in SourceText
    <3>1. disk[file] \in SourceText /\ Parsed(disk[file]).err = ""
      BY <2>1 DEF Parses, Texts
    <3>2. Defines(Parsed(disk[file]).items, ask.name)
      BY <2>1, <2>2 DEF Items
    <3>3. Printed(Replaced(Parsed(disk[file]).items, ask.name, ask.body)) \in SourceText
      <4> HIDE DEF file
      <4> QED
        BY <3>1, <3>2 DEF ToolsFit, PrinterFits
    <3> QED
      BY <2>2, <3>3 DEF Items
  <2> HIDE DEF exprs
  <2>4. request'[r] = [request[r] EXCEPT !.pc = "truncate", !.exprs = exprs]
    BY <2>1 DEF Requested
  <2>5. /\ Others(r) /\ request'[r].exprs = exprs
        /\ request'[r].name = request[r].name /\ request'[r].body = request[r].body
    BY <2>1, <2>4 DEF Requested, Others, Fields
  <2> QED
    BY <2>3, <2>5, AskingStep
<1> QED
  BY <1>1, <1>2

LEMMA AskingKept ==
  ASSUME ToolsFit, ServerInv, Asking, Texts, NEW r \in Requests, ServerStep(r)
  PROVE  Asking'
<1>1. Requested
  BY DEF ServerInv
<1>2. CASE \E pc : Go(r, pc) /\ (pc \notin {"truncate", "write"} \/ At(r, "truncate"))
  BY <1>1, <1>2, AskingGoes
<1>3. ASSUME request'[r].name = request[r].name, request'[r].body = request[r].body,
             request'[r].pc \notin {"truncate", "write"}, Others(r)
      PROVE  Asking'
  BY <1>1, <1>3, AskingStep
<1>4. DOMAIN request[r] = Fields /\ r \in DOMAIN request
  BY <1>1 DEF Requested
<1>5. CASE StartWalk(r)
  <2>1. request'[r] = [request[r] EXCEPT !.pc = "walk", !.todo = Walk[request[r].path]]
    BY <1>4, <1>5 DEF StartWalk
  <2>2. Others(r)
    BY <1>1, <1>4, <1>5, <2>1 DEF StartWalk, Requested, Others, Fields
  <2> QED
    BY <1>3, <1>4, <2>1, <2>2 DEF Fields
<1>6. CASE WalkFile(r)
  <2>1. PICK path : request' = [request EXCEPT ![r].todo = @ \ {path}]
    BY <1>6 DEF WalkFile
  <2>2. request'[r] = [request[r] EXCEPT !.todo = @ \ {path}]
    BY <1>4, <2>1
  <2>3. Others(r) /\ request'[r].pc = "walk"
    BY <1>1, <1>4, <1>6, <2>1, <2>2 DEF WalkFile, Requested, Others, Fields, At
  <2> QED
    BY <1>3, <1>4, <2>2, <2>3 DEF Fields
<1>7. CASE FindFile(r)
  <2>1. CASE Go(r, "refused")
    BY <1>2, <2>1
  <2>2. CASE ~Go(r, "refused")
    <3>1. PICK path : request' = [request EXCEPT ![r].pc = "read", ![r].path = path]
      BY <1>7, <2>2 DEF FindFile
    <3>2. request'[r] = [request[r] EXCEPT !.pc = "read", !.path = path]
      BY <1>4, <3>1
    <3>3. Others(r)
      BY <1>1, <1>4, <3>1, <3>2 DEF Requested, Others, Fields
    <3> QED
      BY <1>3, <1>4, <3>2, <3>3 DEF Fields
  <2> QED
    BY <2>1, <2>2
<1>8. CASE WriteFile(r)
  <2>1. request'[r] = [request[r] EXCEPT !.pc = "lock", !.exprs = <<>>]
    BY <1>4, <1>8 DEF WriteFile
  <2>2. Others(r)
    BY <1>1, <1>4, <1>8, <2>1 DEF WriteFile, Requested, Others, Fields
  <2> QED
    BY <1>3, <1>4, <2>1, <2>2 DEF Fields
<1>9. CASE EndWalk(r)
  BY <1>2, <1>9 DEF EndWalk
<1>10. CASE ReadLock(r)
  BY <1>2, <1>10 DEF ReadLock
<1>11. CASE Truncate(r)
  BY <1>2, <1>11 DEF Truncate
<1>12. CASE ReadAndReplace(r)
  BY <1>1, <1>12, AskingReplaces
<1> QED
  BY <1>5, <1>6, <1>7, <1>8, <1>9, <1>10, <1>11, <1>12 DEF ServerStep

LEMMA TextWritten ==
  ASSUME Texts, NEW f \in Files, NEW text \in SourceText, disk' = Holding(f, text)
  PROVE  Texts'
BY DEF Texts, Holding

LEMMA TextsStep ==
  ASSUME ServerInv, Asking, Texts, ServerMoves
  PROVE  Texts'
<1>1. ASSUME NEW r \in Requests, request[r].pc \in {"truncate", "write"}
      PROVE  Target[request[r].path] \in Files
  BY <1>1, McpAssumption DEF ServerInv, Requested
<1>2. ASSUME NEW r \in Requests, Truncate(r)
      PROVE  Texts'
  <2>1. <<>> \in SourceText
    BY DEF SourceText
  <2> QED
    BY <1>1, <1>2, <2>1, TextWritten DEF Truncate, At
<1>3. ASSUME NEW r \in Requests, WriteFile(r)
      PROVE  Texts'
  BY <1>1, <1>3, TextWritten DEF WriteFile, At, Asking
<1>4. ASSUME NEW f \in Files, Edit(f)
      PROVE  Texts'
  <2>1. CASE \E text \in EditTexts : disk' = Holding(f, text)
    BY <2>1, TextWritten, WorkbenchAssumption
  <2>2. CASE disk' = [g \in DOMAIN disk \ {f} |-> disk[g]]
    BY <2>2 DEF Texts
  <2> QED
    BY <1>4, <2>1, <2>2 DEF Edit
<1>5. CASE UNCHANGED disk
  BY <1>5 DEF Texts
<1>6. ASSUME NEW r \in Requests, ServerStep(r), ~Truncate(r), ~WriteFile(r)
      PROVE  UNCHANGED disk
  BY <1>6 DEF ServerStep, StartWalk, WalkFile, EndWalk, ReadLock, FindFile, ReadAndReplace
<1> QED
  BY <1>2, <1>3, <1>4, <1>5, <1>6 DEF ServerMoves, EditorStep, serverVars

\* What has to be seen of the lock and of the request that moves.
LEMMA LocksMoved ==
  ASSUME Locks, NEW r \in Requests, Others(r),
         readers' \ {r} = readers \ {r}, r \in readers' => At(r, "resolve")',
         writer' \in {writer, r, Nobody}, writer' = r /\ r # Nobody => At(r, "walk")'
  PROVE  Locks'
<1>1. \A s \in Requests : s # r => request'[s] = request[s]
  BY DEF Others
<1>2. readers' \subseteq Requests /\ \A s \in readers' : At(s, "resolve")'
  BY <1>1 DEF Locks, At
<1>3. writer' \in Requests \cup {Nobody} /\ (writer' # Nobody => At(writer, "walk")')
  BY <1>1 DEF Locks, At
<1> QED
  BY <1>2, <1>3 DEF Locks

LEMMA LocksStep ==
  ASSUME Requested, Locks, ServerMoves
  PROVE  Locks'
<1>1. ASSUME NEW r \in Requests, ServerStep(r)
      PROVE  Locks'
  <2>1. DOMAIN request[r] = Fields /\ r \in DOMAIN request
    BY DEF Requested
  <2>2. ASSUME NEW pc, Go(r, pc)
        PROVE  Others(r) /\ request'[r].pc = pc
    BY <2>2, Going
  <2>3. CASE StartWalk(r)
    <3>1. request'[r] = [request[r] EXCEPT !.pc = "walk", !.todo = Walk[request[r].path]]
      BY <2>1, <2>3 DEF StartWalk
    <3>2. Others(r) /\ At(r, "walk")'
      BY <2>1, <2>3, <3>1 DEF StartWalk, Requested, Others, Fields, At
    <3>3. readers' = {} /\ readers = {} /\ writer' = r
      BY <2>3 DEF StartWalk
    <3> QED
      BY <3>2, <3>3, LocksMoved
  <2>4. CASE WalkFile(r)
    <3>1. PICK path : request' = [request EXCEPT ![r].todo = @ \ {path}]
      BY <2>4 DEF WalkFile
    <3>2. request'[r] = [request[r] EXCEPT !.todo = @ \ {path}]
      BY <2>1, <3>1
    <3>3. Others(r) /\ At(r, "walk")'
      BY <2>1, <2>4, <3>1, <3>2 DEF WalkFile, Requested, Others, Fields, At
    <3>4. UNCHANGED <<readers, writer>> /\ r \notin readers
      BY <2>4 DEF WalkFile, Locks, At
    <3> QED
      BY <3>3, <3>4, LocksMoved
  <2>5. CASE EndWalk(r)
    <3>1. Others(r) /\ writer' = Nobody /\ readers' = readers /\ r \notin readers
      BY <2>2, <2>5 DEF EndWalk, Locks, At
    <3> QED
      BY <3>1, LocksMoved
  <2>6. CASE ReadLock(r)
    <3>1. Others(r) /\ At(r, "resolve")' /\ writer = Nobody /\ writer' = Nobody
          /\ readers' = readers \cup {r}
      BY <2>2, <2>6 DEF ReadLock, At
    <3> QED
      BY <3>1, LocksMoved
  <2>7. CASE FindFile(r)
    <3>1. Others(r)
      <4>1. CASE Go(r, "refused")
        BY <2>2, <4>1
      <4>2. CASE ~Go(r, "refused")
        <5>1. PICK path : request' = [request EXCEPT ![r].pc = "read", ![r].path = path]
          BY <2>7, <4>2 DEF FindFile
        <5>2. request'[r] = [request[r] EXCEPT !.pc = "read", !.path = path]
          BY <2>1, <5>1
        <5> QED
          BY <2>1, <5>1, <5>2 DEF Requested, Others, Fields
      <4> QED
        BY <4>1, <4>2
    <3>2. readers' = readers \ {r} /\ writer' = writer /\ At(r, "resolve")
      BY <2>7 DEF FindFile
    <3>3. writer # r \/ r = Nobody
      BY <3>2 DEF Locks, At
    <3> QED
      BY <3>1, <3>2, <3>3, LocksMoved
  <2>8. CASE ReadAndReplace(r)
    <3>1. Others(r)
      <4>1. CASE Go(r, "refused")
        BY <2>2, <4>1
      <4>2. CASE ~Go(r, "refused")
        <5>1. PICK exprs : request' = [request EXCEPT ![r].pc = "truncate", ![r].exprs = exprs]
          BY <2>8, <4>2 DEF ReadAndReplace
        <5>2. request'[r] = [request[r] EXCEPT !.pc = "truncate", !.exprs = exprs]
          BY <2>1, <5>1
        <5> QED
          BY <2>1, <5>1, <5>2 DEF Requested, Others, Fields
      <4> QED
        BY <4>1, <4>2
    <3>2. UNCHANGED <<readers, writer>> /\ r \notin readers /\ (writer # r \/ r = Nobody)
      BY <2>8 DEF ReadAndReplace, Locks, At
    <3> QED
      BY <3>1, <3>2, LocksMoved
  <2>9. CASE Truncate(r)
    <3>1. Others(r) /\ UNCHANGED <<readers, writer>> /\ r \notin readers /\ (writer # r \/ r = Nobody)
      BY <2>2, <2>9 DEF Truncate, Locks, At
    <3> QED
      BY <3>1, LocksMoved
  <2>10. CASE WriteFile(r)
    <3>1. request'[r] = [request[r] EXCEPT !.pc = "lock", !.exprs = <<>>]
      BY <2>1, <2>10 DEF WriteFile
    <3>2. Others(r)
      BY <2>1, <2>10, <3>1 DEF WriteFile, Requested, Others, Fields
    <3>3. UNCHANGED <<readers, writer>> /\ r \notin readers /\ (writer # r \/ r = Nobody)
      BY <2>10 DEF WriteFile, Locks, At
    <3> QED
      BY <3>2, <3>3, LocksMoved
  <2> QED
    BY <1>1, <2>3, <2>4, <2>5, <2>6, <2>7, <2>8, <2>9, <2>10 DEF ServerStep
<1>2. CASE EditorStep \/ UNCHANGED serverVars
  <2>1. UNCHANGED <<readers, writer, request>>
    BY <1>2 DEF EditorStep, Edit, serverVars
  <2> QED
    BY <2>1 DEF Locks, At
<1> QED
  BY <1>1, <1>2 DEF ServerMoves

-----------------------------------------------------------------------------
(* The compiler and the server on the same files.                          *)
Stages == {"unused", "idle", "prune", "generate", "done", "rejected"} \cup Failures

WorkbenchInv == BuildInv /\ stage \in Stages /\ IndexInv /\ Asking /\ Texts /\ Locks

\* What is on the disk and parses is a list.
LEMMA TextsRead == ToolsFit /\ Texts => ReadsLists
BY DEF ToolsFit, ParserFits, ParsedWell, Texts, ReadsLists, Parses, Items

LEMMA WorkbenchBegins == WorkbenchInit => WorkbenchInv
<1> SUFFICES ASSUME WorkbenchInit
             PROVE  WorkbenchInv
  OBVIOUS
<1>1. PICK s \in Sessions : /\ disk = s.disk /\ request = s.asks
                            /\ stage = IF s.builds THEN "idle" ELSE "unused"
  BY DEF WorkbenchInit
<1>2. BuildInit /\ ServerInit
  BY DEF WorkbenchInit
<1>3. BuildInv /\ stage \in Stages
  BY <1>1, <1>2, BuildBegins DEF Stages
<1>4. IndexInv
  BY <1>2, IndexInvInit
<1>5. Asking
  <2> SUFFICES ASSUME NEW r \in Requests
               PROVE  /\ \E ask \in Demands : request[r].name = ask.name /\ request[r].body = ask.body
                      /\ request[r].pc \notin {"truncate", "write"}
    BY DEF Asking
  <2>1. s.asks[r] \in Demands
    BY DEF Demands
  <2>2. request[r].pc \in {"lock", "find", "answered"}
    BY <1>2 DEF ServerInit, Asked
  <2> QED
    BY <1>1, <2>1, <2>2
<1>6. Texts
  BY <1>1, <1>2, WorkbenchAssumption DEF ServerInit, Texts
<1>7. Locks
  BY <1>2 DEF ServerInit, Locks
<1> QED
  BY <1>3, <1>4, <1>5, <1>6, <1>7 DEF WorkbenchInv

\* The server and the editor move, and the compiler does not, or neither moves.
LEMMA ServerSide ==
  ASSUME ToolsFit, IndexInv, Asking, Texts, Locks, ServerMoves
  PROVE  IndexInv' /\ Asking' /\ Texts' /\ Locks'
<1>1. ServerInv
  BY DEF IndexInv
<1>2. IndexInv'
  BY TextsRead, IndexInvNext
<1>3. Texts'
  BY <1>1, TextsStep
<1>4. Locks'
  BY <1>1, LocksStep DEF ServerInv
<1>5. CASE \E r \in Requests : ServerStep(r)
  BY <1>1, <1>2, <1>3, <1>4, <1>5, AskingKept
<1>6. CASE EditorStep \/ UNCHANGED serverVars
  <2>1. UNCHANGED request
    BY <1>6 DEF EditorStep, Edit, serverVars
  <2>2. \A r \in Requests : request'[r] = request[r]
    BY <2>1
  <2>3. Asking'
    BY <2>2 DEF Asking
  <2> QED
    BY <1>2, <1>3, <1>4, <2>3
<1> QED
  BY <1>5, <1>6 DEF ServerMoves

LEMMA CompilerSide ==
  ASSUME ToolsFit, BuildInv, stage \in Stages, Texts, RunCompiler \/ Compile \/ UNCHANGED buildVars
  PROVE  BuildInv' /\ stage' \in Stages
<1>1. CASE RunCompiler
  <2>1. PICK f \in DOMAIN disk : StartBuild(Parsed(disk[f]))
    BY <1>1 DEF RunCompiler
  <2>2. ParsedWell(Parsed(disk[f]), Tables, STRING)
    BY DEF ToolsFit, ParserFits, Texts
  <2>3. stage' \in Stages
    BY <2>1 DEF StartBuild, Stages
  <2> QED
    BY <2>1, <2>2, <2>3, StartBuildKeeps
<1>2. CASE Compile
  <2>1. BuildInv'
    BY <1>2, BuildStepKeeps DEF Compile
  <2>2. stage' \in Stages
    BY <1>2, GenerateStage DEF Compile, BuildStep, PruneStep, VerifyModule, Stages
  <2> QED
    BY <2>1, <2>2
<1>3. CASE UNCHANGED buildVars
  BY <1>3, BuildStutters DEF buildVars
<1> QED
  BY <1>1, <1>2, <1>3

LEMMA WorkbenchKeeps == ToolsFit /\ WorkbenchInv /\ [WorkbenchNext]_vars => WorkbenchInv'
<1> SUFFICES ASSUME ToolsFit, WorkbenchInv, [WorkbenchNext]_vars
             PROVE  WorkbenchInv'
  OBVIOUS
<1>1. ServerMoves /\ (RunCompiler \/ Compile \/ UNCHANGED buildVars)
  BY DEF WorkbenchNext, vars, RunCompiler, Compile, Serve, Change, ServerMoves
<1> QED
  BY <1>1, ServerSide, CompilerSide DEF WorkbenchInv

(* The compiler's invariant and the server's hold together, whoever moves: *)
(* they meet only in the files, which hold what ToolsFit speaks of.        *)
THEOREM WorkbenchInvariant == ToolsFit => (WorkbenchSpec => []WorkbenchInv)
<1> SUFFICES ASSUME ToolsFit
             PROVE  WorkbenchSpec => []WorkbenchInv
  OBVIOUS
<1>1. WorkbenchInv /\ [WorkbenchNext]_vars => WorkbenchInv'
  BY WorkbenchKeeps
<1> QED
  BY WorkbenchBegins, <1>1, PTL DEF WorkbenchSpec

-----------------------------------------------------------------------------
(* Every variable keeps its type.  What a client patches is written as a   *)
(* text that the lexer can read, and a lock is held by a request.          *)
THEOREM WorkbenchTyped == ToolsFit => (WorkbenchSpec => []TypeOK)
<1> SUFFICES ASSUME ToolsFit
             PROVE  WorkbenchSpec => []TypeOK
  OBVIOUS
<1>1. WorkbenchInv => TypeOK
  BY BuildInvTyped DEF WorkbenchInv, IndexInv, ServerInv, Indexed, Texts, Locks, ServerTypeOK,
     TypeOK, Stages
<1>2. WorkbenchSpec => []WorkbenchInv
  BY WorkbenchInvariant
<1> QED
  BY <1>1, <1>2, PTL

(* Whatever is edited or patched while the compiler runs, what it prunes   *)
(* is exactly what the parsed module does not reach from its roots.        *)
THEOREM WorkbenchPrunes == ToolsFit => (WorkbenchSpec => []KeepsExactlyReachable)
<1> SUFFICES ASSUME ToolsFit
             PROVE  WorkbenchSpec => []KeepsExactlyReachable
  OBVIOUS
<1>1. WorkbenchInv => KeepsExactlyReachable
  BY PruneInvMeans DEF WorkbenchInv, BuildInv
<1>2. WorkbenchSpec => []WorkbenchInv
  BY WorkbenchInvariant
<1> QED
  BY <1>1, <1>2, PTL

(* Pruning turns the verifier's yes into a no only where a field of an     *)
(* unknown shape was found in a shape that is pruned.                      *)
THEOREM PruningKeepsVerdict == ToolsFit => (WorkbenchSpec => []PruneKeepsVerdict)
<1> SUFFICES ASSUME ToolsFit
             PROVE  WorkbenchSpec => []PruneKeepsVerdict
  OBVIOUS
<1>1. WorkbenchInv => PruneKeepsVerdict
  BY BuildInvVerdict DEF WorkbenchInv
<1>2. WorkbenchSpec => []WorkbenchInv
  BY WorkbenchInvariant
<1> QED
  BY <1>1, <1>2, PTL

(* Of a module that is verified and in order, gen_function rejects no      *)
(* body, no name is unknown and no template expanded without end, and an   *)
(* object that is written misses no symbol; where calls fit what they      *)
(* call too, no parameter, argument or field is missing.                   *)
THEOREM VerifiedModulesBuild == ToolsFit => (WorkbenchSpec => []VerifiedBuilds)
<1> SUFFICES ASSUME ToolsFit
             PROVE  WorkbenchSpec => []VerifiedBuilds
  OBVIOUS
<1>1. WorkbenchInv => VerifiedBuilds
  BY BuildInvVerified DEF WorkbenchInv
<1>2. WorkbenchSpec => []WorkbenchInv
  BY WorkbenchInvariant
<1> QED
  BY <1>1, <1>2, PTL

(* Without templates, the linker finds every symbol just when no call      *)
(* comes before the export of what it calls and none was dropped.          *)
THEOREM ObjectsLinkExactly == ToolsFit => (WorkbenchSpec => []LinksExactly)
<1> SUFFICES ASSUME ToolsFit
             PROVE  WorkbenchSpec => []LinksExactly
  OBVIOUS
<1>1. WorkbenchInv => LinksExactly
  BY BuildInvLinks DEF WorkbenchInv
<1>2. WorkbenchSpec => []WorkbenchInv
  BY WorkbenchInvariant
<1> QED
  BY <1>1, <1>2, PTL

(* For every path the index holds the definitions of the module that was   *)
(* last read from it, in their order, and its shapes, and nothing else; a  *)
(* shape is missing only if two paths defined it at a time.                *)
THEOREM IndexStaysExact == ToolsFit => (WorkbenchSpec => []IndexExact)
<1> SUFFICES ASSUME ToolsFit
             PROVE  WorkbenchSpec => []IndexExact
  OBVIOUS
<1>1. WorkbenchInv => IndexExact
  BY DEF WorkbenchInv, IndexInv, IndexExact
<1>2. WorkbenchSpec => []WorkbenchInv
  BY WorkbenchInvariant
<1> QED
  BY <1>1, <1>2, PTL

(* Whatever is patched at the same time, in whatever order the steps of    *)
(* the requests come: when all are answered, the index says what the file  *)
(* says, for every path that no other path of the file competes with and a *)
(* file that parses and that no editor changed.                            *)
THEOREM IndexFreshAtRest == ToolsFit => (WorkbenchSpec => []FreshAtRest)
<1> SUFFICES ASSUME ToolsFit
             PROVE  WorkbenchSpec => []FreshAtRest
  OBVIOUS
<1>1. WorkbenchInv => FreshAtRest
  BY ServerInvFresh DEF WorkbenchInv, IndexInv
<1>2. WorkbenchSpec => []WorkbenchInv
  BY WorkbenchInvariant
<1> QED
  BY <1>1, <1>2, PTL

(* No request, nor any number of them, waits at the lock of the index for  *)
(* ever: while one is unanswered there is one that need not wait, for the  *)
(* holder of the lock never does, and none that was answered holds it.     *)
THEOREM RequestsMove == ToolsFit => (WorkbenchSpec => []SomeRequestMoves)
<1> SUFFICES ASSUME ToolsFit
             PROVE  WorkbenchSpec => []SomeRequestMoves
  OBVIOUS
<1>1. ASSUME Locks, NEW r \in Requests, ~Answered(r)
      PROVE  \E s \in Requests : CanServe(s)
  <2>1. CASE writer # Nobody
    BY <1>1, <2>1 DEF Locks, CanServe, Answered, At
  <2>2. CASE readers # {}
    <3>1. PICK s \in readers : TRUE
      BY <2>2
    <3>2. s \in Requests /\ At(s, "resolve")
      BY <1>1 DEF Locks
    <3> QED
      BY <3>2 DEF CanServe, Answered, At
  <2>3. CASE writer = Nobody /\ readers = {}
    BY <1>1, <2>3 DEF CanServe
  <2> QED
    BY <2>1, <2>2, <2>3
<1>2. WorkbenchInv => SomeRequestMoves
  BY <1>1 DEF WorkbenchInv, SomeRequestMoves
<1>3. WorkbenchSpec => []WorkbenchInv
  BY WorkbenchInvariant
<1> QED
  BY <1>2, <1>3, PTL
=============================================================================
