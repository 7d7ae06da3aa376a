CONSTANTS
  Script <- MCScript
  Block <- MCBlock
  Process <- MCProcess
  Parallel <- MCParallel
  Cmds <- MCCmds
  max_processes <- MCMaxProcesses
  MaxTime <- MCMaxTime
SPECIFICATION Spec
INVARIANTS SequentialStop AtMostMaxProcesses ExitStatusTruthful 
PROPERTIES Termination PromptNotSlow
\* mysh stops when its main thread does.
CHECK_DEADLOCK FALSE
