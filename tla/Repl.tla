-------------------------------- MODULE Repl --------------------------------
(***************************************************************************)
(* How the REPL hands the operator's inputs to the agent (repl/model.go,   *)
(* repl/model_handlers.go, tui/widgets/input.go and queue.go).             *)
(*                                                                         *)
(* The Bubble Tea event loop handles one message at a time.  Runs of the   *)
(* agent and ! commands are goroutines that report their end with the same *)
(* message, AgentDoneMsg; a SubmitMsg is posted by a goroutine too, so     *)
(* that anything may be handled between its posting and its arrival.       *)
(***************************************************************************)
EXTENDS FiniteSets, Sequences, SequencesExt

CONSTANT Inputs  \* what the operator types: prompts, commands, ! commands

VARIABLES ui,       \* Model.state
          typed,    \* inputs that were entered
          posted,   \* SubmitMsg on its way
          queue,    \* QueuePanel.items
          running,  \* runs of the agent
          shells,   \* ! commands
          dones, shellDones,  \* AgentDoneMsg on its way, of either
          answered  \* inputs whose run or command is over

work == <<running, shells, dones, shellDones>>
vars == <<ui, typed, posted, queue, work, answered>>

Init ==
  /\ ui = "input"
  /\ typed = {} /\ posted = {} /\ queue = <<>>
  /\ running = {} /\ shells = {} /\ dones = {} /\ shellDones = {} /\ answered = {}

Type(p) == p \notin typed /\ typed' = typed \cup {p}

-----------------------------------------------------------------------------
\* Enter while the REPL takes input: handleSubmit tells the three kinds apart.
EnterPrompt(p) ==
  /\ ui = "input" /\ Type(p)
  /\ ui' = "streaming"
  /\ running' = running \cup {p}
  /\ UNCHANGED <<posted, queue, shells, dones, shellDones, answered>>

EnterCommand(p) ==
  /\ ui = "input" /\ Type(p)
  /\ answered' = answered \cup {p}
  /\ UNCHANGED <<ui, posted, queue, work>>

EnterShell(p) ==
  /\ ui = "input" /\ Type(p)
  /\ shells' = shells \cup {p}
  /\ UNCHANGED <<ui, posted, queue, running, dones, shellDones, answered>>

PostTyped(p) ==
  /\ Type(p)
  /\ posted' = posted \cup {p}
  /\ UNCHANGED <<ui, queue, work, answered>>

\* Enter while a run streams goes to the input panel, whatever the kind.
PostEntered(p) == ui = "streaming" /\ PostTyped(p)

\* Tab on a slash command that is the only completion posts it.
TabComplete(p) == ui # "approval" /\ PostTyped(p)

Starts(p) ==
  /\ ui = "input"
  /\ ui' = "streaming" /\ running' = running \cup {p}
  /\ UNCHANGED queue

Queues(p) ==
  /\ ui # "input"
  /\ queue' = Append(queue, p)
  /\ UNCHANGED <<ui, running>>

\* handleSubmitMsg: what was posted is a prompt, of whatever kind it is.
SubmitMsg(p) ==
  /\ p \in posted
  /\ posted' = posted \ {p}
  /\ Starts(p) \/ Queues(p)
  /\ UNCHANGED <<typed, shells, dones, shellDones, answered>>

-----------------------------------------------------------------------------
\* A run calls a tool: in agent mode the REPL asks the operator.  The event is
\* sent from the run's goroutine, which continues when it has been received.
ToolCall(p) ==
  /\ p \in running
  /\ ui' = "approval"
  /\ UNCHANGED <<typed, posted, queue, work, answered>>

HandleApproval ==
  /\ ui = "approval"
  /\ ui' = "streaming"
  /\ UNCHANGED <<typed, posted, queue, work, answered>>

RunEnds(p) ==
  /\ p \in running
  /\ running' = running \ {p} /\ dones' = dones \cup {p}
  /\ UNCHANGED <<ui, typed, posted, queue, shells, shellDones, answered>>

ShellEnds(p) ==
  /\ p \in shells
  /\ shells' = shells \ {p} /\ shellDones' = shellDones \cup {p}
  /\ UNCHANGED <<ui, typed, posted, queue, running, dones, answered>>

\* Mutant of NextState: an approval that is open stays open.
KeepsApproval == IF ui = "approval" THEN ui ELSE "input"

NextState == "input"

\* Mutant of Drain: the prompt is submitted and stays in the queue.
DrainPeeks == posted' = posted \cup {Head(queue)} /\ UNCHANGED queue

\* Mutant of Drain: only what ends while it streams drains the queue.
DrainIfStreaming ==
  IF ui = "approval" THEN UNCHANGED <<posted, queue>>
  ELSE posted' = posted \cup {Head(queue)} /\ queue' = Tail(queue)

Drain == posted' = posted \cup {Head(queue)} /\ queue' = Tail(queue)

\* handleAgentDone, whatever ended: the first queued prompt is submitted.
AgentDone(p) ==
  /\ p \in dones \cup shellDones
  /\ dones' = dones \ {p} /\ shellDones' = shellDones \ {p}
  /\ answered' = answered \cup {p}
  /\ ui' = NextState
  /\ \/ queue # <<>> /\ Drain
     \/ queue = <<>> /\ UNCHANGED <<posted, queue>>
  /\ UNCHANGED <<typed, running, shells>>

-----------------------------------------------------------------------------
Enter(p) ==
  EnterPrompt(p) \/ EnterCommand(p) \/ EnterShell(p) \/ PostEntered(p) \/ TabComplete(p)
Work(p) == SubmitMsg(p) \/ RunEnds(p) \/ ShellEnds(p) \/ AgentDone(p)
Next == HandleApproval \/ \E p \in Inputs : Enter(p) \/ ToolCall(p) \/ Work(p)

Spec == Init /\ [][Next]_vars

\* Messages arrive, runs and ! commands end.  The operator owes nothing, not
\* even the answer to an approval.
FairSpec == Spec /\ \A p \in Inputs : WF_vars(Work(p))

-----------------------------------------------------------------------------
\* Where an input can be.
Places == <<posted, ToSet(queue), running, shells, dones, shellDones, answered>>

TypeOK ==
  /\ ui \in {"input", "streaming", "approval"}
  /\ queue \in Seq(Inputs) /\ typed \subseteq Inputs
  /\ \A i \in DOMAIN Places : Places[i] \subseteq Inputs

\* An input that was entered is in one place: on its way, queued, running,
\* ending or over.  None is dropped, run twice, or queued and submitted as
\* well, though a drained prompt may have to be queued again
\* (model_handlers.go:22-52, 165-170).
PromptOnce ==
  /\ IsInjective(queue)
  /\ \A p \in typed : Cardinality({i \in DOMAIN Places : p \in Places[i]}) = 1

\* While the REPL streams or asks, some run is alive or its end is still to be
\* handled, though runs overlap, ! commands end and approvals stay open: it
\* never waits for a run that is over (model_handlers.go:24, 81-85, 156;
\* model.go:758-762).
BusyHasRun == ui # "input" => running \cup dones # {}

\* Every input that was entered is handled in the end, queued or not
\* (model_handlers.go:165-170).
InputsHandled == \A p \in Inputs : (p \in typed) ~> (p \in answered)
=============================================================================
