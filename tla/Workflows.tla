----------------------------- MODULE Workflows ------------------------------
(***************************************************************************)
(* core/application: WorkflowOrchestrator and AgentCommunicator of         *)
(* orchestrators, and the agents of agents.                                *)
(*                                                                         *)
(* Everything runs on one event loop and suspends where an agent calls its *)
(* LLM, a tool or a service. Workflows share the orchestrator's agents,    *)
(* and with them their memories. The orchestrator gives its agents no      *)
(* services: only who replaces them in its dict does.                      *)
(***************************************************************************)
EXTENDS Naturals, SequencesExt, FiniteSetsExt, Functions, Lists

CONSTANTS
  Keywords,       \* the number of keywords of a research task (4 or 3)
  Sections,       \* the number of sections of a report task (4)
  ClientTasks,    \* tasks of a client: sequence of kind and deps
  MaxWorkflows,   \* bound: workflows started
  MaxMessages     \* bound: messages and clearings of the communicator

ASSUME WorkflowsAssumption ==
  /\ {Keywords, Sections, MaxWorkflows, MaxMessages} \subseteq Nat
  /\ ClientTasks \in Seq(Range(ClientTasks))
  /\ \A i \in DOMAIN ClientTasks : ClientTasks[i].deps \subseteq Nat

Kinds == {"research", "analysis", "strategy", "report", "critique", "planner"}

VARIABLES
  served,     \* the agents that have their service
  memory,     \* agent.memory: the lengths of thoughts and findings, tool_usage_count
  workflow,   \* WorkflowExecution: plan, task, calls left, results, state
  clientTask, \* the status of the client's WorkflowTasks
  finished,     \* self.workflows, by id
  succeeded,  \* history: executions of each agent that succeeded
  queue, channels,  \* AgentCommunicator: message_queue, agent_channels
  cleared     \* history: per agent, the messages there were when it was last cleared

workflowVars == <<served, memory, workflow, clientTask, finished, succeeded>>
communicatorVars == <<queue, channels, cleared>>

Equipments == {{}, {"analysis", "strategy", "report"}}

WorkflowsInit ==
  /\ served \in Equipments
  /\ memory = [k \in Kinds |-> [thoughts |-> 0, findings |-> 0, tools |-> 0]]
  /\ workflow = <<>> /\ finished = <<>>
  /\ clientTask = [i \in DOMAIN ClientTasks |-> "pending"]
  /\ succeeded = [k \in Kinds |-> 0]
  /\ queue = <<>> /\ channels = <<>> /\ cleared = [k \in Kinds |-> 0]

-----------------------------------------------------------------------------
Chain(kinds) == [i \in DOMAIN kinds |-> [kind |-> kinds[i], deps |-> IF i = 1 THEN {} ELSE {i - 1}]]

(* create_competitive_intelligence_workflow, create_market_analysis_...    *)
IntelligencePlan == Chain(<<"research", "analysis", "strategy", "report", "critique">>)
MarketPlan == Chain(<<"planner", "research", "analysis", "report">>)

Tasks(w) ==
  CASE workflow[w].plan = "intelligence" -> IntelligencePlan
    [] workflow[w].plan = "market" -> MarketPlan
    [] OTHER -> ClientTasks

(* The calls of each agent's execute: "think" and "llm" ask the LLM, and   *)
(* only the former is remembered.                                          *)
ResearchCalls == <<"think">> \o [i \in 1..Min({3, Keywords}) |-> "tool"] \o <<"think">>
AnalysisCalls == <<"think", "service", "think">>
StrategyCalls == <<"service", "think", "llm">>
ReportCalls   == <<"service">> \o [i \in 1..Min({5, Sections}) |-> "llm"]
CritiqueCalls == <<"think", "llm">>
PlannerCalls  == <<"think", "llm">>

Calls(k) ==
  CASE k = "research" -> ResearchCalls [] k = "analysis" -> AnalysisCalls
    [] k = "strategy" -> StrategyCalls [] k = "report"   -> ReportCalls
    [] k = "critique" -> CritiqueCalls [] OTHER -> PlannerCalls

-----------------------------------------------------------------------------
(* The status of a task: a client's is with the task itself, which it may  *)
(* hand to several workflows.                                              *)
StatusOf(w, i) == IF workflow[w].plan = "client" THEN clientTask[i] ELSE workflow[w].tasks[i]

(* Workflow w's task in turn gets a status, with what else changes of w.   *)
Turns(w, after, status) ==
  LET i == workflow[w].task
  IN  IF workflow[w].plan = "client"
      THEN /\ clientTask' = [clientTask EXCEPT ![i] = status]
           /\ workflow' = [workflow EXCEPT ![w] = after]
      ELSE /\ workflow' = [workflow EXCEPT ![w] = [after EXCEPT !.tasks[i] = status]]
           /\ UNCHANGED clientTask

(* Its result is there, and the next task is in turn.                      *)
Resulted(w, ok) ==
  Turns(w, [workflow[w] EXCEPT !.results = Append(@, ok), !.task = @ + 1, !.at = "between"],
          IF ok THEN "completed" ELSE "failed")

(* execute_workflow.                                                       *)
StartWorkflow(plan, id) ==
  /\ Len(workflow) < MaxWorkflows
  /\ workflow' = Append(workflow,
       [plan |-> plan, id |-> id, task |-> 1, at |-> "between", calls |-> <<>>, results |-> <<>>,
        tasks |-> IF plan = "client" THEN <<>>
                  ELSE [i \in 1..(IF plan = "market" THEN Len(MarketPlan) ELSE Len(IntelligencePlan)) |-> "pending"]])
  /\ UNCHANGED <<served, memory, clientTask, finished, succeeded, communicatorVars>>

InTurn(w) == workflow[w].at = "between" /\ workflow[w].task <= Len(Tasks(w))
TaskInTurn(w) == Tasks(w)[workflow[w].task]

(* Mutated form: only a dependency that failed keeps a task from running.  *)
MetUnlessFailed(w) ==
  \A d \in TaskInTurn(w).deps : d \in DOMAIN Tasks(w) => StatusOf(w, d) # "failed"

(* A dependency that is not among the workflow's tasks is met.             *)
Met(w) == \A d \in TaskInTurn(w).deps : d \in DOMAIN Tasks(w) => StatusOf(w, d) = "completed"

(* _execute_task fails for a dependency or an agent that is not there.     *)
SkipTask(w) ==
  /\ InTurn(w) /\ (~Met(w) \/ TaskInTurn(w).kind \notin Kinds)
  /\ Resulted(w, FALSE)
  /\ UNCHANGED <<served, memory, finished, succeeded, communicatorVars>>

(* It runs the agent. An agent without a service fails when it comes to it.*)
RunTask(w) ==
  /\ InTurn(w) /\ Met(w) /\ TaskInTurn(w).kind \in Kinds
  /\ Turns(w, [workflow[w] EXCEPT !.at = "running", !.calls = Calls(TaskInTurn(w).kind)], "running")
  /\ UNCHANGED <<served, memory, finished, succeeded, communicatorVars>>

Running(w) == workflow[w].at = "running"
Agent(w) == TaskInTurn(w).kind

(* The next call of the agent has answered; use_tool counts a tool that    *)
(* answered without success too.                                           *)
CallAnswers(w) ==
  /\ Running(w) /\ workflow[w].calls # <<>>
  /\ Head(workflow[w].calls) = "service" => Agent(w) \in served
  /\ memory' = CASE Head(workflow[w].calls) = "think" -> [memory EXCEPT ![Agent(w)].thoughts = @ + 1]
                 [] Head(workflow[w].calls) = "tool"  -> [memory EXCEPT ![Agent(w)].tools = @ + 1]
                 [] OTHER -> memory
  /\ workflow' = [workflow EXCEPT ![w].calls = Tail(@)]
  /\ UNCHANGED <<served, clientTask, finished, succeeded, communicatorVars>>

(* It has raised. The research agent goes on without what a tool found;    *)
(* any other error is the agent's result.                                  *)
CallRaises(w) ==
  /\ Running(w) /\ workflow[w].calls # <<>>
  /\ IF Head(workflow[w].calls) = "tool"
     THEN workflow' = [workflow EXCEPT ![w].calls = Tail(@)] /\ UNCHANGED clientTask
     ELSE Resulted(w, FALSE)
  /\ UNCHANGED <<served, memory, finished, succeeded, communicatorVars>>

(* _record_finding, and the agent's result.                                *)
AgentSucceeds(w) ==
  /\ Running(w) /\ workflow[w].calls = <<>>
  /\ memory' = [memory EXCEPT ![Agent(w)].findings = @ + 1]
  /\ succeeded' = [succeeded EXCEPT ![Agent(w)] = @ + 1]
  /\ Resulted(w, TRUE)
  /\ UNCHANGED <<served, finished, communicatorVars>>

(* The workflow is completed, however many of its tasks failed, and only   *)
(* now kept, in place of one with its id.                                  *)
WorkflowEnds(w) ==
  /\ workflow[w].at = "between" /\ workflow[w].task > Len(Tasks(w))
  /\ workflow' = [workflow EXCEPT ![w].at = "completed"]
  /\ finished' = [i \in DOMAIN finished \cup {workflow[w].id} |-> IF i = workflow[w].id THEN w ELSE finished[i]]
  /\ UNCHANGED <<served, memory, clientTask, succeeded, communicatorVars>>

(* Who awaits a workflow is cancelled in an agent's call: CancelledError   *)
(* is no Exception, and nothing is kept of it.                             *)
WorkflowCancelled(w) ==
  /\ Running(w) /\ workflow[w].calls # <<>>
  /\ workflow' = [workflow EXCEPT ![w].at = "cancelled"]
  /\ UNCHANGED <<served, memory, clientTask, finished, succeeded, communicatorVars>>

-----------------------------------------------------------------------------
(* send_message, get_messages, clear_messages: the queue keeps everything. *)
SendMessage(k) ==
  /\ Len(queue) < MaxMessages
  /\ queue' = Append(queue, k)
  /\ channels' = [a \in DOMAIN channels \cup {k} |->
                    IF a # k THEN channels[a]
                    ELSE IF k \in DOMAIN channels THEN Append(channels[k], Len(queue) + 1) ELSE <<Len(queue) + 1>>]
  /\ UNCHANGED <<cleared, workflowVars>>

ClearMessages(k) ==
  /\ k \in DOMAIN channels /\ channels[k] # <<>>
  /\ channels' = [channels EXCEPT ![k] = <<>>]
  /\ cleared' = [cleared EXCEPT ![k] = Len(queue)]
  /\ UNCHANGED <<queue, workflowVars>>

WorkflowsNext ==
  \/ StartWorkflow("intelligence", "ci") \/ StartWorkflow("market", "market_2")
  \/ StartWorkflow("client", "own")
  \/ \E w \in DOMAIN workflow :
       \/ SkipTask(w) \/ RunTask(w) \/ CallAnswers(w) \/ CallRaises(w) \/ AgentSucceeds(w)
       \/ WorkflowEnds(w) \/ WorkflowCancelled(w)

CommunicatorNext ==
  \E k \in {"planner", "report"} : SendMessage(k) \/ ClearMessages(k)

-----------------------------------------------------------------------------
(* get_workflow_status: how many tasks were a success.                     *)
Successes(w) == Cardinality({i \in DOMAIN workflow[w].results : workflow[w].results[i]})

WorkflowsTypeOK ==
  /\ \A w \in DOMAIN workflow : Len(workflow[w].results) = workflow[w].task - 1
  /\ \A i \in DOMAIN finished : workflow[finished[i]].at = "completed" /\ workflow[finished[i]].id = i
  /\ \A k \in DOMAIN channels : ToSet(channels[k]) \subseteq DOMAIN queue

(* The tasks of a workflow that the orchestrator makes succeed up to one   *)
(* and fail from there on, and every one of them is settled once the       *)
(* workflow can be found. Whatever LLM and tools do, without services it   *)
(* never comes further than to research.                                   *)
ChainsStop ==
  \A w \in DOMAIN workflow :
    LET results == workflow[w].results
    IN  workflow[w].plan # "client" =>
          /\ \A i \in 2..Len(results) : results[i] => results[i - 1]
          /\ \A i \in DOMAIN results : workflow[w].tasks[i] = IF results[i] THEN "completed" ELSE "failed"
          /\ served = {} => Successes(w) <= IF workflow[w].plan = "market" THEN 2 ELSE 1

(* A client's task that depends on a later one fails in the first workflow *)
(* that has it, whatever becomes of the later one, and may run in the next.*)
ForwardFails ==
  \A w \in DOMAIN workflow :
    workflow[w].plan = "client" /\ (\A v \in DOMAIN workflow \ {w} : workflow[v].plan # "client") =>
      \A i \in DOMAIN workflow[w].results :
        (\E d \in ClientTasks[i].deps : d \in i..Len(ClientTasks)) => ~workflow[w].results[i]

(* However workflows overlap, an agent's findings are the executions of it *)
(* that succeeded, and each of those left its thoughts in the memory.      *)
MemoryTells ==
  \A k \in Kinds :
    LET thoughts == Cardinality({i \in DOMAIN Calls(k) : Calls(k)[i] = "think"})
    IN  /\ memory[k].findings = succeeded[k]
        /\ memory[k].thoughts >= thoughts * succeeded[k]
        /\ memory[k].tools > 0 => k = "research"

(* A channel holds what was sent to its agent since it was last cleared,   *)
(* in order.                                                               *)
ChannelsComplete ==
  \A k \in DOMAIN channels :
    channels[k] = Only([i \in DOMAIN queue |-> i], {i \in DOMAIN queue : queue[i] = k /\ i > cleared[k]})
=============================================================================
