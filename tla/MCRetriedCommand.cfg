CONSTANTS
  PARAMETER_MAX = 4
  INT_MAX = 31
  INTMAX_MAX = 127
  UINT64_MAX = 63
  VALUE_MAX_DEPTH = 3
  VALUE_MAX_NODES = 5
  TASK_MAX_ENTRIES = 3
  TASK_MAX_STRINGS = 7
  TASK_MAX_BYTES = 14
  ACTION_MAX_ARGUMENTS = 2
  ACTION_MAX_BYTES = 10
  RETRY_MAX = 12
  ORCH_MAX_COMMANDS = 3
  ORCH_MAX_PARAMS = 8
  ORCH_MAX_BYTES = 14
  NAMED_YAML_MAX_DEPTH = 2
  WORKFLOW_MAX_TASKS = 2
  WORKFLOW_MAX_EDGES = 2
  Canon <- ModelCanon
  DocumentCalls <- SnapshotCalls
  Calls <- ModelCalls
  Variables <- ModelVariables
  Letters = {"a", "b", "true", "false", "nan", "includes", "test", "startsWith", "endsWith"}
  EXPRESSION_MAX_DEPTH = 128
  Callers = {"p", "q"}
  Sites <- ModelSites
  TemplateUnits = 3
  ChunkUnits = 2
  MaxNames = 2
  MaxFaults = 2
  MaxOutput = 1
  InputSize = 1
  InputChunk = 1
  ReadSize = 2
  MaxWritten <- MCWritten
  Modes <- MCModes
  Ending = {"EXITED", "TIMED_OUT", "TERMINATED"}
  LibraryMayFail = TRUE
SPECIFICATION ComponentsSpec
INVARIANT RetriesOfToolsOnly
CHECK_DEADLOCK FALSE
