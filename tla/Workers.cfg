CONSTANTS
  N = 3
  Letters = 2
  Tasks <- MCTasks
  MaxTasks = 2
  LineTasks <- Cracker1Tasks
  MaxLines = 3
  NULL = NULL
  NumMap = 2
  Lines = 2
  Capacity = 1
  Failing = {"splitter", "mapper", "reducer"}
SPECIFICATION SuiteSpec
INVARIANTS InfoOutlivesReaders OneTicketEach SummaryCorrect Cracker1Summary OutputComplete
PROPERTY EveryProgramEnds
CHECK_DEADLOCK FALSE
