SPECIFICATION FairSpec
CONSTANTS
    Prices = {1}
    Quantities = {1, 2}
    MemoMax = 8
    Menu <- MCMenu
    Controls = {"Suspend", "Resume"}
    Capacity = 2
    MaxCmds = 1
PROPERTY ResumeResumes
