SPECIFICATION ExecSpec
CONSTANTS
  o1 = o1
  o2 = o2
  None = None
  MaxSteps = 3
  MaxVersion = 3
  Tasks <- MCTasks
  Obligations = {o1, o2}
  MaxLocalReplans = 1
  Claims = {"PENDING"}
  Keys <- MCKeys
  ToolOf <- MCToolOf
  SourcesOf <- MCSourcesOf
  Retrieval = "knowledge_retrieval"
  AnswersOf <- MCAnswersOf
  FailureThreshold = 2
  MaxToolCalls = 2
CHECK_DEADLOCK FALSE
PROPERTIES
  RetryAfterPathNotFound
