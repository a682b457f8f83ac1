CONSTANTS
    None = None
    Files = {"fc", "fp", "ft", "fi"}
    Classes = {"C", "P", "T", "I"}
    Words = {"m", "s", "p", "q"}
    MaxVersion = 3
    Projects <- MCProjects
    Edits <- MCEdits
    Budget <- MCBudget
SPECIFICATION MSpec
INVARIANT EntriesCurrent
INVARIANT OffersAreAccessible
INVARIANT AnswersAgree
INVARIANT HierarchiesAgree
INVARIANT RenameKeepsLinks
CHECK_DEADLOCK FALSE
