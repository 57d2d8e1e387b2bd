---------------------------- MODULE AgentSession ----------------------------
(***************************************************************************)
(* The agent loop of djinn (agent/loop.go) with the two histories it keeps *)
(* of one conversation: the session's entries (cortex), which are saved,   *)
(* compacted and repaired on load, and the messages of the chat driver     *)
(* (driver/troupe), which is what the provider is shown.                   *)
(*                                                                         *)
(* Of an entry the model keeps its role, whether its Content is empty, and *)
(* the IDs of its tool_use and tool_result blocks.  The tool messages that *)
(* SendRich writes one after the other for one entry are one message.      *)
(***************************************************************************)
EXTENDS Naturals, FiniteSets, Sequences, SequencesExt

CONSTANTS Runs,           \* goroutines that may be inside agent.Run
          MaxTurns,       \* Config.MaxTurns
          KeepRecent,     \* cortex.DefaultKeepRecent
          MaxLoadEntries, \* cortex.DefaultMaxLoadEntries
          MaxCalls,       \* bound: tool calls the provider makes in all
          MaxPrompts,     \* bound: prompts submitted
          MaxBoots,       \* bound: starts of the program
          Texts,          \* whether a response has text
          ToolModes,      \* values Mode.ToolsEnabled() takes
          MaxShells       \* bound: ends of ! commands during a run

ASSUME AgentAssumption ==
  /\ MaxTurns \in Nat \ {0} /\ KeepRecent \in Nat
  /\ MaxLoadEntries \in Nat /\ KeepRecent < MaxLoadEntries
  /\ MaxCalls \in Nat /\ MaxPrompts \in Nat /\ MaxBoots \in Nat
  /\ Texts \subseteq BOOLEAN /\ ToolModes \subseteq BOOLEAN
  /\ MaxShells \in Nat

VARIABLES entries,  \* Session.History
          messages, \* ChatDriver.messages
          disk,     \* the entries of the saved session
          ui,       \* "off" or the REPL's state
          pc,       \* where each run is
          tools,    \* Config.ToolsEnabled of the run
          turn,     \* turns the run has completed
          calls,    \* tool calls of the run's last response
          lastID,   \* the provider's last tool call ID
          skipped,  \* calls that runs with tools disabled left out since Boot
          prompts,  \* prompts submitted
          shells,   \* ! commands that ended during a run
          boots,    \* starts of the program
          edited,   \* the session was compacted or cleared since Boot
          overlap   \* two runs were inside agent.Run at once since Boot

runVars == <<tools, turn, calls>>
counters == <<lastID, prompts, shells, boots>>
history == <<skipped, edited, overlap>>
vars == <<entries, messages, disk, ui, pc, runVars, counters, history>>

PCs == {"idle", "begin", "send", "turn", "compact", "chat", "assistant",
        "results", "store", "done"}

\* A goroutine that is inside agent.Run.
Active(r) == pc[r] # "idle"

-----------------------------------------------------------------------------
(* Entries and messages.                                                   *)

Prompt == [role |-> "user", text |-> TRUE, uses |-> {}, results |-> {}]
Reply(t, ids) ==
  [role |-> "assistant", text |-> t, uses |-> ids, results |-> {}]
Results(ids) == [role |-> "user", text |-> FALSE, uses |-> {}, results |-> ids]

\* What the driver keeps of an entry.
MessageOf(e) ==
  [role |-> IF e.results # {} THEN "tool" ELSE e.role,
   uses |-> e.uses, results |-> e.results]

\* ReplayHistory: each entry goes through Send, SendRich or AppendAssistant.
Replayed(es) == [i \in DOMAIN es |-> MessageOf(es[i])]

\* The tool calls of s[i] that s[i+1] does not answer.
Unanswered(s, i) ==
  s[i].uses \ (IF i < Len(s) THEN s[i + 1].results ELSE {})

\* Mutant of Repaired: the last entry has no successor and is passed over.
RepairedButLast(es) ==
  FlattenSeq([i \in DOMAIN es |->
                IF i = Len(es) \/ Unanswered(es, i) = {} THEN <<es[i]>>
                ELSE <<es[i], Results(Unanswered(es, i))>>])

\* Mutant of Repaired: all calls are answered, answered or not.
RepairedAlways(es) ==
  FlattenSeq([i \in DOMAIN es |->
                IF es[i].uses = {} THEN <<es[i]>>
                ELSE <<es[i], Results(es[i].uses)>>])

\* repairOrphanedToolUse: a synthetic result follows an unanswered call.
Repaired(es) ==
  FlattenSeq([i \in DOMAIN es |->
                IF Unanswered(es, i) = {} THEN <<es[i]>>
                ELSE <<es[i], Results(Unanswered(es, i))>>])

\* Compact: one summary of the first lines of the old entries, if they have
\* any, and the recent entries as they are.
Compacted(es) ==
  LET cut == Len(es) - KeepRecent
      summary == IF \E i \in 1..cut : es[i].text THEN <<Prompt>> ELSE <<>>
  IN  IF Len(es) <= KeepRecent THEN es
      ELSE summary \o SubSeq(es, cut + 1, Len(es))

\* Sanitize, called by Store.Load.
Sanitized(es) ==
  LET repaired == Repaired(es)
  IN  IF Len(repaired) > MaxLoadEntries THEN Compacted(repaired) ELSE repaired

-----------------------------------------------------------------------------
Goto(r, l) == pc' = [pc EXCEPT ![r] = l]

\* History.Append takes no lock: with another run between two statements the
\* entry may be overwritten by an append that started from the same slice.
AppendEntry(r, e) ==
  \/ entries' = Append(entries, e)
  \/ (\E q \in Runs \ {r} : Active(q)) /\ UNCHANGED entries

\* What a save may find in the history: Compact clears it and fills it again.
Saveable ==
  {entries} \cup {SubSeq(Compacted(entries), 1, k) :
                    k \in {n \in 0..Len(Compacted(entries)) :
                             \E r \in Runs : pc[r] = "compact"}}

Init ==
  /\ entries = <<>> /\ messages = <<>> /\ disk = <<>>
  /\ ui = "off"
  /\ pc = [r \in Runs |-> "idle"]
  /\ tools = [r \in Runs |-> FALSE]
  /\ turn = [r \in Runs |-> 0]
  /\ calls = [r \in Runs |-> {}]
  /\ lastID = 0 /\ prompts = 0 /\ shells = 0 /\ boots = 0
  /\ skipped = {}
  /\ edited = FALSE /\ overlap = FALSE

\* The session is loaded, repaired, saved if the repair changed it (the save
\* may fail) and replayed into a new driver.
Boot ==
  /\ ui = "off" /\ boots < MaxBoots
  /\ ui' = "input"
  /\ boots' = boots + 1
  /\ entries' = Sanitized(disk)
  /\ messages' = Replayed(Sanitized(disk))
  /\ disk' \in {disk, Sanitized(disk)}
  /\ UNCHANGED <<pc, runVars, lastID, prompts, shells, history>>

\* The next go statement's slot; goroutines have no identity in the code.
NextRun == CHOOSE r \in Runs : ~Active(r)

\* Enter: the REPL starts a goroutine that calls agent.Run.
Submit(r, t) ==
  /\ ui = "input" /\ prompts < MaxPrompts
  /\ ~Active(r) /\ r = NextRun
  /\ ui' = "streaming"
  /\ prompts' = prompts + 1
  /\ Goto(r, "begin")
  /\ tools' = [tools EXCEPT ![r] = t]
  /\ overlap' = (overlap \/ \E q \in Runs : Active(q))
  /\ UNCHANGED <<entries, messages, disk, turn, calls, lastID, shells, boots,
                 skipped, edited>>

AppendPrompt(r) ==
  /\ pc[r] = "begin"
  /\ AppendEntry(r, Prompt)
  /\ Goto(r, "send")
  /\ UNCHANGED <<messages, disk, ui, runVars, counters, history>>

SendPrompt(r) ==
  /\ pc[r] = "send"
  /\ messages' = Append(messages, MessageOf(Prompt))
  /\ Goto(r, "turn")
  /\ UNCHANGED <<entries, disk, ui, runVars, counters, history>>

\* for turn := range cfg.MaxTurns
MoreTurns(r) == turn[r] < MaxTurns

\* The head of the loop.  Which histories exceed 80 % of the context limit is
\* left open.
BeginTurn(r) ==
  /\ pc[r] = "turn"
  /\ IF MoreTurns(r) THEN \/ Goto(r, "chat")
                          \/ Goto(r, "compact")
     ELSE Goto(r, "done")
  /\ UNCHANGED <<entries, messages, disk, ui, runVars, counters, history>>

\* Auto-compact: the session only, the driver is not told.
CompactTurn(r) ==
  /\ pc[r] = "compact"
  /\ entries' = Compacted(entries)
  /\ edited' = (edited \/ entries' # entries)
  /\ Goto(r, "chat")
  /\ UNCHANGED <<messages, disk, ui, runVars, counters, skipped, overlap>>

\* The provider is shown the messages and fails, or answers with some text
\* and n tool calls, whose IDs are new.  The session gets the answer at once.
ChatError(r) ==
  /\ pc[r] = "chat"
  /\ Goto(r, "done")
  /\ UNCHANGED <<entries, messages, disk, ui, runVars, counters, history>>

ChatReply(r, t, n) ==
  LET ids == lastID + 1 .. lastID + n
  IN  /\ pc[r] = "chat"
      /\ AppendEntry(r, Reply(t, ids))
      /\ calls' = [calls EXCEPT ![r] = ids]
      /\ lastID' = lastID + n
      /\ Goto(r, "assistant")
      /\ UNCHANGED <<messages, disk, ui, tools, turn, prompts, shells, boots,
                     history>>

\* The driver gets the answer.  The run ends unless there are tools to call;
\* with tools disabled it ends as well and the calls stay unanswered.
AppendAssistant(r) ==
  /\ pc[r] = "assistant"
  /\ messages' = Append(messages, MessageOf(Reply(FALSE, calls[r])))
  /\ IF calls[r] # {} /\ tools[r] THEN Goto(r, "results") ELSE Goto(r, "done")
  /\ skipped' = IF tools[r] THEN skipped ELSE skipped \cup calls[r]
  /\ UNCHANGED <<entries, disk, ui, runVars, counters, edited, overlap>>

\* Mutant of SendResults: the last turn's results are not sent any more.
SendResultsUnlessLast(r) ==
  /\ pc[r] = "results"
  /\ messages' = IF turn[r] + 1 = MaxTurns THEN messages
                 ELSE Append(messages, MessageOf(Results(calls[r])))
  /\ Goto(r, "store")
  /\ UNCHANGED <<entries, disk, ui, runVars, counters, history>>

\* executeTools has one result for every call, errors and refusals included.
SendResults(r) ==
  /\ pc[r] = "results"
  /\ messages' = Append(messages, MessageOf(Results(calls[r])))
  /\ Goto(r, "store")
  /\ UNCHANGED <<entries, disk, ui, runVars, counters, history>>

\* Mutant of AppendResults: the results go to the driver only.
AppendResultsNot(r) ==
  /\ pc[r] = "store"
  /\ turn' = [turn EXCEPT ![r] = @ + 1]
  /\ calls' = [calls EXCEPT ![r] = {}]
  /\ Goto(r, "turn")
  /\ UNCHANGED <<entries, messages, disk, ui, tools, counters, history>>

AppendResults(r) ==
  /\ pc[r] = "store"
  /\ AppendEntry(r, Results(calls[r]))
  /\ turn' = [turn EXCEPT ![r] = @ + 1]
  /\ calls' = [calls EXCEPT ![r] = {}]
  /\ Goto(r, "turn")
  /\ UNCHANGED <<messages, disk, ui, tools, counters, history>>

\* handleAgentDone: saves the session (the save may fail) and takes input.
AgentDone(r) ==
  /\ pc[r] = "done"
  /\ disk' \in {disk} \cup Saveable
  /\ ui' = "input"
  /\ Goto(r, "idle")
  /\ tools' = [tools EXCEPT ![r] = FALSE]
  /\ turn' = [turn EXCEPT ![r] = 0]
  /\ calls' = [calls EXCEPT ![r] = {}]
  /\ UNCHANGED <<entries, messages, counters, history>>

\* The end of a ! command, which the REPL takes for the end of a run: it saves
\* the session and takes input again while a run goes on.
ShellDone ==
  /\ ui = "streaming" /\ shells < MaxShells
  /\ shells' = shells + 1
  /\ ui' = "input"
  /\ disk' \in {disk} \cup Saveable
  /\ UNCHANGED <<entries, messages, pc, runVars, lastID, prompts, boots, history>>

SlashCompact ==
  /\ ui = "input"
  /\ entries' = Compacted(entries)
  /\ edited' = (edited \/ entries' # entries)
  /\ UNCHANGED <<messages, disk, ui, pc, runVars, counters, skipped, overlap>>

SlashClear ==
  /\ ui = "input"
  /\ entries' = <<>>
  /\ edited' = (edited \/ entries' # entries)
  /\ UNCHANGED <<messages, disk, ui, pc, runVars, counters, skipped, overlap>>

\* The end of the process, between any two statements of the runs: by quitting,
\* which saves the session if it can, or by a crash, which does not.
Quit ==
  /\ ui # "off"
  /\ ui' = "off"
  /\ disk' \in {disk} \cup Saveable
  /\ entries' = <<>> /\ messages' = <<>>
  /\ pc' = [r \in Runs |-> "idle"]
  /\ tools' = [r \in Runs |-> FALSE]
  /\ turn' = [r \in Runs |-> 0]
  /\ calls' = [r \in Runs |-> {}]
  /\ skipped' = {} /\ edited' = FALSE /\ overlap' = FALSE
  /\ UNCHANGED counters

RunStep(r) ==
  \/ AppendPrompt(r) \/ SendPrompt(r) \/ BeginTurn(r) \/ CompactTurn(r)
  \/ ChatError(r)
  \/ \E t \in Texts, n \in 0..MaxCalls - lastID : ChatReply(r, t, n)
  \/ AppendAssistant(r) \/ SendResults(r) \/ AppendResults(r) \/ AgentDone(r)

Next ==
  \/ Boot \/ ShellDone \/ SlashCompact \/ SlashClear \/ Quit
  \/ \E r \in Runs : RunStep(r) \/ \E t \in ToolModes : Submit(r, t)

Spec == Init /\ [][Next]_vars

-----------------------------------------------------------------------------
EntryTypes ==
  [role : {"user", "assistant"}, text : BOOLEAN,
   uses : SUBSET Nat, results : SUBSET Nat]

MessageTypes ==
  [role : {"user", "assistant", "tool"}, uses : SUBSET Nat, results : SUBSET Nat]

\* The types, and that a run inside a turn has turns left (Run's loop bound).
TypeOK ==
  /\ entries \in Seq(EntryTypes) /\ disk \in Seq(EntryTypes)
  /\ messages \in Seq(MessageTypes)
  /\ ui \in {"off", "input", "streaming"}
  /\ pc \in [Runs -> PCs]
  /\ tools \in [Runs -> BOOLEAN] /\ turn \in [Runs -> 0..MaxTurns]
  /\ \A r \in Runs : pc[r] \in {"compact", "chat", "assistant", "results",
                              "store"} => turn[r] < MaxTurns
  /\ calls \in [Runs -> SUBSET Nat] /\ skipped \in SUBSET Nat
  /\ lastID \in Nat /\ prompts \in 0..MaxPrompts
  /\ shells \in 0..MaxShells /\ boots \in 0..MaxBoots
  /\ edited \in BOOLEAN /\ overlap \in BOOLEAN

\* What the provider is shown answers every tool call in the message after it,
\* whatever was interrupted, cut or reloaded before; but for the calls that
\* runs with tools disabled left out, and unless two runs have overlapped.
ChatUsesAnswered ==
  ~overlap => \A r \in Runs : pc[r] = "chat" =>
    \A i \in DOMAIN messages : Unanswered(messages, i) \subseteq skipped

\* The converse: a tool result that the provider is shown follows its call.
ChatResultsCalled ==
  \A r \in Runs : pc[r] = "chat" =>
    \A i \in DOMAIN messages : messages[i].results # {} =>
      i > 1 /\ messages[i].results \subseteq messages[i - 1].uses

\* At the head of a turn, at a chat and between runs, the two histories say the
\* same: a replay of the session would give the driver what it has.  Failed
\* chats and interrupted programs included; until the session is edited.
SessionMirrorsDriver ==
  ~edited /\ ~overlap /\ (\A r \in Runs : pc[r] \in {"idle", "turn", "chat", "done"})
    => messages = Replayed(entries)

\* Loading a session that a load has repaired and saved changes nothing more,
\* in whatever state the session was when it was saved.
RepairIdempotent == Sanitized(Sanitized(entries)) = Sanitized(entries)

\* After a start every tool call of the loaded conversation is answered in the
\* next message, also when runs overlapped and when the session was saved in
\* the middle of a turn or of a compaction.
LoadUsesAnswered ==
  [][Boot => \A i \in DOMAIN messages' : Unanswered(messages', i) = {}]_vars
=============================================================================
