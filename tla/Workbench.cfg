CONSTANTS
  Requests = {r1, r2, r3}
  r1 = r1
  r2 = r2
  r3 = r3
  Files = {a, b}
  a = a
  b = b
  Absent = Absent
  NoPath = NoPath
  Nobody = Nobody
  Parsed <- Parse
  Printed <- ShowModule
  Calls <- get_calls
  BodyOK <- VerifyBody
  Guessed <- GuessedFields
  References <- LookUpsOf
  Signatures <- MCSignatures
  Segments <- MCSegments
  PathParams <- MCPathParams
  Stems = {"main", "lib"}
  Paths = {"a.llm", "./a.llm", "b.llm", "."}
  Target <- MCTarget
  Walk <- MCWalk
  EditTexts <- MCEditTexts
  Sessions <- MCSessions
SPECIFICATION WorkbenchSpec
INVARIANTS TypeOK PrintedMeansBound KeepsExactlyReachable PruneKeepsVerdict VerifiedBuilds LinksExactly IndexExact FreshAtRest
PROPERTIES EveryRequestAnswered BuildEnds
CHECK_DEADLOCK FALSE
