SPECIFICATION Spec
CONSTANTS
  c1 = c1
  c2 = c2
  Tab = {t1}
  Call = {c1, c2}
  Choice = {"suggested", "original"}
  First = "suggested"
  Foreign = {"suggested", "original"}
  Locked <- NothingIsLocked
  None = None
  MaxVersion = 2
  MaxPlan = 2
  LetterTab = {t1}
  LetterCall = {l1}
  NoLetter = NoLetter
  LetterFacts = {"source", "forged"}
  LetterText = {"composed", "edited"}
  LetterMaxVersion = 2
  LetterMaxPlan = 1
  KitCall = {c1, c2}
  KitText = {"", "a"}
  KitResume = {r1, r2}
  NoKit = NoKit
  SearchTask = {s1, s2}
  Cancel = {c1, c2}
  NoTask = NoTask
  DeskCall = {c1, c2}
  OwnAction = {"own"}
  OnEmployerSite = "complete"
  EmployerResponse = "record"
  DeskDue = {"soon", "none"}
  NoDue = "none"
  DeskResume = {"original", "tailored"}
  Original = "original"
  NoCopy = NoCopy
SYMMETRY Interchangeable
INVARIANTS
  DocumentsAreReviewed
  SearchIsAsShown
  SessionIsKept
  LetterFactsAreKept
PROPERTIES
  NotesAreKept
  DeskIsTrue
  ImplementsHistory
CHECK_DEADLOCK FALSE
