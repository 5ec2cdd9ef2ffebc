-------------------------- MODULE MCPlanExecution --------------------------
(* TLC instance of PlanExecution: two tools share a capability, one has its own,  *)
(* and knowledge_retrieval has two.                                               *)
EXTENDS PlanExecution

CONSTANTS o1, o2

MCTasks == 1 .. MaxSteps
MCKeys == {"grep a", "read_file a", "get_resources a",
           "knowledge_retrieval a", "knowledge_retrieval b"}
MCToolOf == [k \in MCKeys |-> CASE k = "grep a" -> "grep"
                                [] k = "read_file a" -> "read_file"
                                [] k = "get_resources a" -> "get_resources"
                                [] OTHER -> "knowledge_retrieval"]
MCTools == {MCToolOf[k] : k \in MCKeys}
MCSourcesOf == [u \in MCTools |->
                  CASE u = "get_resources" -> {"kubernetes_resources"}
                    [] u = "knowledge_retrieval" -> {"domain_rag", "incident_memory"}
                    [] OTHER -> {"application_code"}]
MCAnswersOf == [u \in MCTools |->
                  CASE u = "get_resources" -> {"ok", "missing", "not_found", "error"}
                    [] u = "knowledge_retrieval" -> {"ok", "error"}
                    [] OTHER -> {"ok", "path_not_found", "error"}]
=============================================================================
