CONSTANTS
  Threads = {t1, t2, t3}
  Sections = {c1, c2}
  Static = {c1}
  NoThread = NoThread
  MaxDepth = 1
SPECIFICATION FairSpec
INVARIANTS HoldersAgree FreeSectionIsAnnounced
PROPERTY FreeSectionIsTaken
CHECK_DEADLOCK FALSE
