SPECIFICATION Spec
CONSTANTS
  c1 = c1
  c2 = c2
  u1 = u1
  u2 = u2
  u3 = u3
  Search = {c1, c2}
  Registry <- ProviderOrder
  Fragile = {p1}
  p1 = p1
  p2 = p2
  MaxWorkers = 1
  ErrorKind = {"timeout", "payload"}
  Dependent = {c1, c2}
  InSettings = {"database", "task_broker"}
  Unset = Unset
  SignInCall = {c1, c2}
  Subject = {sa, sb}
  Email = {"e", "f"}
  NoAccount = NoAccount
  MaxAccount = 4
  Submission = {u1, u2, u3}
  SearchInput = {"i", "j"}
  NoSubmission = NoSubmission
  Upload = {u1, u2, u3}
  MaxResume = 4
  Saver = {c1, c2}
  SearchResult <- Results
  TitleRank <- TitlePlace
  NoExternal = NoExternal
  MaxListing = 3
  SkillName = {"JS", "JavaScript", "SQL", "Go"}
  MatchText = {0, 1, 3333, 5000}
  Canonical <- SkillKey
  Similarity <- SimilarityOf
  MatchJobs <- RankedJobs
  MatchResume <- Resumes
  Key <- SkillKey
  LiteralKey <- Casefolded
  MaxRoles = 3
  MaxGaps = 1
  PictureCases <- Pictures
  TailoringCases <- ResumesWithJobs
  LineKind <- Lines
  MaxLine = 4
SYMMETRY Interchangeable
INVARIANTS
  ReportIsTrue
  GuardedResourcesAreShared
  OneAccountEach
  OneSearchPerKey
  OneActiveResume
  MatchingIsFair
  PictureIsTrue
  DocumentsAreFactual
  ResumeIsReadWhole
PROPERTY
  CatalogIsSound
CHECK_DEADLOCK FALSE
