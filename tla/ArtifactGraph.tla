--------------------------- MODULE ArtifactGraph ---------------------------
(***************************************************************************)
(* The graph of plan segments (artifact/graph.go): agents take what is     *)
(* ready, start it and complete it, while an operator adds segments, fills *)
(* drafts, edits dependencies and statuses and declares changes, whose     *)
(* effects cascade.  The graph is saved to a file through a temporary one  *)
(* and the process may end at any moment.                                  *)
(*                                                                         *)
(* Every method of the graph is one critical section, but for Save, which  *)
(* copies the graph under the lock and writes the copy without it, and     *)
(* Inject, whose look for the parent comes before it and is left in one    *)
(* step with it.  One goroutine saves.  Versions, times, contents and      *)
(* annotations, which no method reads, are left out; "seg-<n>" is the      *)
(* number n.                                                               *)
(***************************************************************************)
EXTENDS Naturals, FiniteSets, Sequences, SequencesExt

CONSTANTS Agents, NoAgent,
          FilesOf,          \* what the component map of a segment names
          NoFile,           \* the file does not exist
          PartialFile,      \* its writing was interrupted
          MaxItems,         \* bound: segments ever added
          Earlier,          \* what earlier processes may have left in the file
          MaxEvents         \* bound: edits, cascades and saves in all

Statuses == {"draft", "ready", "claimed", "in_progress", "complete", "invalidated"}
IDs == 1..MaxItems
Segments == [status : Statuses, owner : Agents \cup {NoAgent},
             deps : SUBSET IDs,
             given : BOOLEAN]  \* its ID was given by who added it
NoSegments == [i \in {} |-> {}]

\* The segments S and the counter n: who did not give an ID got one up to n.
Graph(S, n) ==
  /\ n \in 0..MaxItems
  /\ DOMAIN S \subseteq IDs /\ S \in [DOMAIN S -> Segments]
  /\ \A i \in DOMAIN S : S[i].given \/ i <= n

\* A graph that was saved.
Whole(f) == Graph(f.items, f.counter)

ASSUME GraphAssumption ==
  /\ MaxItems \in Nat /\ MaxEvents \in Nat
  /\ NoAgent \notin Agents
  /\ PartialFile \notin Earlier
  /\ \A f \in Earlier : f = NoFile \/ Whole(f)

VARIABLES items,    \* the segments, by ID
          counter,  \* the last ID given
          agentPC, target, \* what an agent is about to do, and with which segment
          copy,     \* what Save copied under the lock, while it runs
          savePC,
          tmp, file, \* the two files' contents
          up,       \* the process runs
          outdated, \* segments that a change affected while they were open,
                    \* and whose status nobody has set since
          replaced, \* IDs of segments that were put in the place of others
          events    \* edits, cascades and saves so far

history == <<outdated, replaced>>
agentVars == <<agentPC, target>>
saveVars == <<copy, savePC, tmp, file>>
vars == <<items, counter, agentVars, saveVars, up, history, events>>

-----------------------------------------------------------------------------
Saved == [items |-> items, counter |-> counter]
NothingSaved == [items |-> NoSegments, counter |-> 0]

With(i, s) == [j \in DOMAIN items \cup {i} |-> IF j = i THEN s ELSE items[j]]
SetStatus(i, s) == items' = [items EXCEPT ![i].status = s]

\* What a cascade invalidates.
Open(i) == items[i].status \in {"ready", "claimed", "in_progress"}

DepsComplete(i) ==
  \A d \in items[i].deps : d \in DOMAIN items /\ items[d].status = "complete"

ReadyItems == {i \in DOMAIN items : items[i].status = "ready" /\ DepsComplete(i)}

\* Mutant of AffectedByDeps: the recursive call is missing.
DirectDependents(c) == {i \in DOMAIN items : c \in items[i].deps \ {i}}

\* The recursion as rounds: a round marks what depends on something marked.
AffectedByDeps(c) ==
  LET marked[n \in 0..Cardinality(DOMAIN items)] ==
        IF n = 0 THEN {}
        ELSE {i \in DOMAIN items : (items[i].deps \ {i}) \cap (marked[n-1] \cup {c}) # {}}
  IN  marked[Cardinality(DOMAIN items)]

AffectedByOverlap(c) ==
  {i \in DOMAIN items \ {c} : FilesOf[i] \cap FilesOf[c] # {}}

\* sort.Strings, which has seg-10 before seg-2: no property is about such ties.
Ascending(S) ==
  CHOOSE s \in [1..Cardinality(S) -> S] : \A i, j \in DOMAIN s : i < j => s[i] < s[j]

\* Mutant of TopoOrder: a dependency that is not in the graph counts.
TopoOrderCountingAll ==
  LET n == Cardinality(DOMAIN items)
      sorted[k \in 0..n] ==
        IF k = 0 THEN <<>>
        ELSE LET done == ToSet(sorted[k-1])
                 free == {i \in DOMAIN items \ done : items[i].deps \subseteq done}
             IN  IF free = {} THEN sorted[k-1] ELSE Append(sorted[k-1], Min(free))
  IN  sorted[n] \o Ascending(DOMAIN items \ ToSet(sorted[n]))

\* Kahn's algorithm, the smallest ID of the frontier first; what is on or behind
\* a cycle comes at the end, in the order of the IDs.
TopoOrder ==
  LET n == Cardinality(DOMAIN items)
      sorted[k \in 0..n] ==
        IF k = 0 THEN <<>>
        ELSE LET done == ToSet(sorted[k-1])
                 free == {i \in DOMAIN items \ done :
                            items[i].deps \cap DOMAIN items \subseteq done}
             IN  IF free = {} THEN sorted[k-1] ELSE Append(sorted[k-1], Min(free))
  IN  sorted[n] \o Ascending(DOMAIN items \ ToSet(sorted[n]))

-----------------------------------------------------------------------------
Init ==
  /\ items = NoSegments /\ counter = 0
  /\ agentPC = [a \in Agents |-> "idle"] /\ target = [a \in Agents |-> 0]
  /\ copy = NothingSaved /\ savePC = "idle"
  /\ tmp = NoFile /\ file \in Earlier
  /\ up = FALSE /\ outdated = {} /\ replaced = {} /\ events = 0

\* g.items[a.ID] = &a, whether the ID is free or not.
Put(i, s, deps, given) ==
  /\ items' = With(i, [status |-> s, owner |-> NoAgent, deps |-> deps, given |-> given])
  /\ outdated' = outdated \ {i}
  /\ replaced' = replaced \cup ({i} \cap DOMAIN items)

\* AddSegment of the plan hub, or Inject, which also depends on its parent: the
\* segment gets the counter's next ID, and is a draft unless it has a status.
Add(s, deps) ==
  /\ up /\ counter < MaxItems
  /\ counter' = counter + 1
  /\ Put(counter + 1, s, deps, FALSE)
  /\ UNCHANGED <<agentVars, saveVars, up, events>>

\* The same with an ID: no look at the counter or at the segments.
AddGiven(i, s, deps) ==
  /\ up /\ events < MaxEvents
  /\ Put(i, s, deps, TRUE)
  /\ events' = events + 1
  /\ UNCHANGED <<counter, agentVars, saveVars, up>>

FillDraft(i) ==
  /\ up /\ i \in DOMAIN items /\ items[i].status = "draft"
  /\ SetStatus(i, "ready")
  /\ UNCHANGED <<counter, agentVars, saveVars, up, history, events>>

\* The template accepts every status of the kind, from every other one.
UpdateStatus(i, s) ==
  /\ up /\ events < MaxEvents /\ i \in DOMAIN items
  /\ SetStatus(i, s)
  /\ events' = events + 1
  /\ outdated' = outdated \ {i}
  /\ UNCHANGED <<counter, agentVars, saveVars, up, replaced>>

Reorder(i, deps) ==
  /\ up /\ events < MaxEvents /\ i \in DOMAIN items
  /\ items' = [items EXCEPT ![i].deps = deps]
  /\ events' = events + 1
  /\ UNCHANGED <<counter, agentVars, saveVars, up, history>>

\* Who depends on c, over any number of segments: all that has what depends on
\* a member for a member, and c, has it.  Or who names one of its files.
DependsOn(i, j) == j \in items[i].deps
Closed(S) == \A i \in DOMAIN items : (\E j \in S : DependsOn(i, j)) => i \in S
Reaches(i, c) == \A S \in SUBSET DOMAIN items : Closed(S) /\ c \in S => i \in S
Affected(c) == {i \in DOMAIN items : i # c /\ (Reaches(i, c) \/ i \in AffectedByOverlap(c))}

Cascade(c) ==
  /\ up /\ events < MaxEvents /\ c \in DOMAIN items
  /\ LET affected == AffectedByDeps(c) \cup AffectedByOverlap(c)
     IN  items' = [i \in DOMAIN items |->
                     IF i \in affected /\ Open(i)
                     THEN [items[i] EXCEPT !.status = "invalidated"] ELSE items[i]]
  /\ events' = events + 1
  /\ outdated' = outdated \cup {i \in Affected(c) : Open(i)}
  /\ UNCHANGED <<counter, agentVars, saveVars, up, replaced>>

-----------------------------------------------------------------------------
\* An agent: Ready, then Claim, Start and Complete; a refusal sends it back.
AgentGoto(a, l) == agentPC' = [agentPC EXCEPT ![a] = l]
GiveUp(a) == AgentGoto(a, "idle") /\ target' = [target EXCEPT ![a] = 0]
Refused(a) == GiveUp(a) /\ UNCHANGED items

Pick(a, i) ==
  /\ up /\ agentPC[a] = "idle" /\ i \in ReadyItems
  /\ AgentGoto(a, "claim")
  /\ target' = [target EXCEPT ![a] = i]
  /\ UNCHANGED <<items, counter, saveVars, up, history, events>>

\* Mutant of Claimable: the owner is not looked at.
ClaimableByAll(i) == items[i].status = "ready"

Claimable(i) == items[i].status = "ready" /\ items[i].owner = NoAgent

Claim(a) ==
  /\ up /\ agentPC[a] = "claim"
  /\ \/ /\ Claimable(target[a])
        /\ items' = [items EXCEPT ![target[a]].owner = a, ![target[a]].status = "claimed"]
        /\ AgentGoto(a, "start") /\ UNCHANGED target
     \/ ~Claimable(target[a]) /\ Refused(a)
  /\ UNCHANGED <<counter, saveVars, up, history, events>>

Start(a) ==
  /\ up /\ agentPC[a] = "start"
  /\ \/ /\ items[target[a]].status = "claimed"
        /\ SetStatus(target[a], "in_progress")
        /\ AgentGoto(a, "work") /\ UNCHANGED target
     \/ items[target[a]].status # "claimed" /\ Refused(a)
  /\ UNCHANGED <<counter, saveVars, up, history, events>>

Complete(a) ==
  /\ up /\ agentPC[a] = "work"
  /\ \/ /\ items[target[a]].status = "in_progress"
        /\ SetStatus(target[a], "complete")
        /\ GiveUp(a)
     \/ items[target[a]].status # "in_progress" /\ Refused(a)
  /\ UNCHANGED <<counter, saveVars, up, history, events>>

AgentStep(a) == (\E i \in IDs : Pick(a, i)) \/ Claim(a) \/ Start(a) \/ Complete(a)

-----------------------------------------------------------------------------
SaveCopy ==
  /\ up /\ savePC = "idle" /\ events < MaxEvents
  /\ copy' = Saved /\ savePC' = "create" /\ events' = events + 1
  /\ UNCHANGED <<items, counter, agentVars, tmp, file, up, history>>

\* A temporary file that stays is truncated before it is read: not kept.
EndSave == savePC' = "idle" /\ copy' = NothingSaved /\ tmp' = NoFile

\* WriteFile truncates what it opens, then writes; either may fail.
SaveCreate ==
  /\ up /\ savePC = "create"
  /\ \/ tmp' = PartialFile /\ savePC' = "write" /\ UNCHANGED copy
     \/ EndSave
  /\ UNCHANGED <<items, counter, agentVars, file, up, history, events>>

\* Mutant of SaveWrite: a write that failed is renamed, too.
SaveWriteUnchecked ==
  /\ up /\ savePC = "write"
  /\ tmp' \in {copy, tmp} /\ savePC' = "rename"
  /\ UNCHANGED <<items, counter, agentVars, copy, file, up, history, events>>

SaveWrite ==
  /\ up /\ savePC = "write"
  /\ \/ tmp' = copy /\ savePC' = "rename" /\ UNCHANGED copy
     \/ EndSave
  /\ UNCHANGED <<items, counter, agentVars, file, up, history, events>>

SaveRename ==
  /\ up /\ savePC = "rename"
  /\ file' \in {tmp, file}
  /\ EndSave
  /\ UNCHANGED <<items, counter, agentVars, up, history, events>>

\* The process ends, between any two steps of its goroutines.
End ==
  /\ up /\ up' = FALSE
  /\ items' = NoSegments /\ counter' = 0
  /\ agentPC' = [a \in Agents |-> "idle"] /\ target' = [a \in Agents |-> 0]
  /\ EndSave /\ outdated' = {} /\ replaced' = {}
  /\ UNCHANGED <<file, events>>

\* Mutant of Loaded: the counters are not restored.
LoadedWithoutCounter(f) == items' = f.items /\ counter' = 0

Loaded(f) == items' = f.items /\ counter' = f.counter

\* The next one reads the file; without one, or with half of one, it keeps its
\* empty graph.
Boot ==
  /\ ~up /\ up' = TRUE
  /\ \/ file \notin {NoFile, PartialFile} /\ Loaded(file)
     \/ file \in {NoFile, PartialFile} /\ UNCHANGED <<items, counter>>
  /\ UNCHANGED <<agentVars, saveVars, history, events>>

\* What operators and the plan tool do.  A segment added as ready is one whose
\* draft was filled, unless its ID was given, too.
Edit ==
  \/ \E deps \in SUBSET DOMAIN items :
       Add("draft", deps) \/ \E i \in IDs : AddGiven(i, "ready", deps)
  \/ \E i \in IDs : FillDraft(i) \/ Cascade(i)
  \/ \E i \in IDs : \E s \in Statuses : UpdateStatus(i, s)
  \/ \E i \in IDs : \E deps \in SUBSET IDs : Reorder(i, deps)

SaveStep == SaveCopy \/ SaveCreate \/ SaveWrite \/ SaveRename

Next == Edit \/ (\E a \in Agents : AgentStep(a)) \/ SaveStep \/ End \/ Boot

Spec == Init /\ [][Next]_vars

-----------------------------------------------------------------------------
TypeOK ==
  /\ DOMAIN items \subseteq IDs /\ \A i \in DOMAIN items : items[i] \in Segments
  /\ counter \in 0..MaxItems
  /\ agentPC \in [Agents -> {"idle", "claim", "start", "work"}]
  /\ target \in [Agents -> IDs \cup {0}]
  /\ \A a \in Agents : agentPC[a] # "idle" => target[a] \in DOMAIN items
  /\ savePC \in {"idle", "create", "write", "rename"}
  /\ up \in BOOLEAN
  /\ outdated \cup replaced \subseteq DOMAIN items

\* A segment that was claimed belongs to that agent alone until the agent is
\* done, also when an operator sets it back to ready, a cascade invalidates it
\* or other agents hold an older answer of Ready (graph.go:126-143).  Not so once
\* a segment was put in its place: that one has no owner (graph.go:98).
ClaimExclusive ==
  \A a \in Agents :
    agentPC[a] \in {"start", "work"} /\ target[a] \notin replaced => items[target[a]].owner = a

\* What a change outdated is neither offered, worked on nor completed before
\* someone sets its status again, whatever an agent was about to do with it and
\* over any number of dependencies between them (graph.go:283-347).
OutdatedStops == \A i \in outdated : items[i].status = "invalidated"

\* TopoSort lists every segment once, and each one that no cycle holds up after
\* all it depends on, also with dependencies that are not in the graph
\* (graph.go:443-502).
TopoSound ==
  LET order == TopoOrder
      place(i) == CHOOSE k \in DOMAIN order : order[k] = i
      looped == {i \in DOMAIN items : DependsOn(i, i) \/
                   \E j \in DOMAIN items : i # j /\ Reaches(i, j) /\ Reaches(j, i)}
      heldUp == {i \in DOMAIN items : \E j \in looped : Reaches(i, j) \/ i = j}
  IN  /\ Len(order) = Cardinality(DOMAIN items) /\ ToSet(order) = DOMAIN items
      /\ \A i \in DOMAIN items \ heldUp : \A d \in items[i].deps \cap DOMAIN items :
           place(d) < place(i)

\* Whenever the process ends, the file is absent or the whole of a graph that
\* was saved: a Load that follows does not fail on half a file (graph.go:538-561).
FileWhole == file # PartialFile

\* The ID that Add gives is not one that it gave before, also after the graph was
\* read from an older file: it replaces no segment but one that was added with
\* that very ID given, which the counter does not know of (graph.go:71-98, 578-591).
AddKeepsOthers ==
  [][(up /\ up' /\ counter' # counter) =>
       \A i \in DOMAIN items :
         ~items[i].given => i \in DOMAIN items' /\ items'[i] = items[i]]_vars
=============================================================================
