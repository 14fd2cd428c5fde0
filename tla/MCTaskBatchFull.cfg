SPECIFICATION BatchSpec
CONSTANTS
    Width = 8
    NumTasks = 4
    Away = {1, 2}
    BatchLimit = 2
    Policy <- MCPolicy
    MaxGeneration = 3
PROPERTY DueTaskRuns
