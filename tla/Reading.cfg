SPECIFICATION Spec
CONSTANTS
  n1 = n1
  n2 = n2
  t1 = t1
  t2 = t2
  t3 = t3
  u1 = u1
  s1 = s1
  x1 = x1
  x2 = x2
  o1 = o1
  o2 = o2
  None = None
  Namespaces = {n1, n2}
  TermOrder <- MCTermOrder
  Under <- MCUnder
  BaseLength <- MCBaseLength
  Content <- MCContent
  Workers = {w1, w2}
  Kinds <- MCKinds
  Quotas <- MCQuotas
  Overlap = 2
  PageSize = 1
  Asked <- MCAsked
  MaxResults = 1
  MaxTriples = 2
  Sources = {s1}
  NamespaceOf <- MCNamespaceOf
  Mappings <- MCMappings
  Catalogs <- MCCatalogs
  Targets <- MCTargets
  MaxProbes = 3
  FirstRank = 2
  FirstCatalog <- MCFirstCatalog
  Ranks = {1, 2, 3}
  Claims <- MCClaims
  Predicates = {"exactMatch", "broadMatch"}
  Readable = {n1}
  NamespaceSeq <- MCNamespaceSeq
  MaxTargetNamespaces = 1
  Owned <- MCOwned
  Principals = {o1, o2}
  OwnersOf <- MCOwnersOf
  Questions <- MCQuestions
  Limits = {0, 1, 5}
  MaxLimit = 2
  RrfK = 60
SYMMETRY Symmetric
CHECK_DEADLOCK FALSE
INVARIANTS TypeOK CountsMatch NoLockCycle PagesComplete AnswersHonest RevisionsGrounded OneRowPerKey ReportsTruthful SearchSound
