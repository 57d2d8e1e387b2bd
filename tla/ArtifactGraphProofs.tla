------------------------ MODULE ArtifactGraphProofs ------------------------
(***************************************************************************)
(* Safety of ArtifactGraph for any number of agents, segments and events.  *)
(***************************************************************************)
EXTENDS ArtifactGraph, FiniteSetTheorems, FunctionTheorems, SequenceTheorems, TLAPS

\* The graph and whatever may be read in its place: the counter has counted all
\* segments but those whose ID was given.
GraphOK ==
  /\ Graph(items, counter)
  /\ Whole(copy)
  /\ file \notin {NoFile, PartialFile} => Whole(file)
  /\ savePC = "rename" => tmp = copy

\* An agent that is about to do something knows a segment; none is when the
\* process does not run.
AgentsOK ==
  /\ agentPC \in [Agents -> {"idle", "claim", "start", "work"}]
  /\ target \in [Agents -> IDs \cup {0}]
  /\ \A a \in Agents : agentPC[a] # "idle" => up /\ target[a] \in DOMAIN items

IInv == GraphOK /\ AgentsOK /\ ClaimExclusive

\* What is written to a segment, other than by Add and Claim.
Kept(new, old) == new.owner = old.owner /\ new.given = old.given

LEMMA InitHolds == Init => IInv
<1> SUFFICES ASSUME Init PROVE IInv
  OBVIOUS
<1>2. Graph(NoSegments, 0)
  BY GraphAssumption DEF NoSegments, Graph
<1> QED BY <1>2, GraphAssumption
        DEF Init, IInv, GraphOK, AgentsOK, ClaimExclusive, NothingSaved, Whole

\* A step that changes no owner and removes no segment disturbs no claim.
LEMMA OwnersKept ==
  ASSUME IInv, UNCHANGED <<counter, agentVars, up, replaced>>, items' \in [DOMAIN items -> Segments],
         \A i \in DOMAIN items : Kept(items'[i], items[i])
  PROVE  Graph(items, counter)' /\ AgentsOK' /\ ClaimExclusive'
<1>1. DOMAIN items' = DOMAIN items
  OBVIOUS
<1>2. Graph(items, counter)'
  BY <1>1 DEF IInv, GraphOK, Graph, Kept
<1> QED BY <1>1, <1>2 DEF IInv, AgentsOK, ClaimExclusive, agentVars, Kept

\* An edit, of an operator or the plan tool (shell.go:53-111).
LEMMA EditKeeps ==
  ASSUME IInv, Edit
  PROVE  IInv'
<1> USE GraphAssumption DEF IInv, GraphOK, saveVars
<1>1. ASSUME NEW i \in IDs, NEW s \in Statuses, NEW deps \in SUBSET DOMAIN items,
             NEW given \in BOOLEAN, Put(i, s, deps, given), counter' \in counter..MaxItems,
             ~given => i <= counter', UNCHANGED <<agentVars, saveVars, up>>
      PROVE  IInv'
  <2>1. DOMAIN items \subseteq IDs /\ counter \in Nat /\ items \in [DOMAIN items -> Segments]
    BY DEF Graph
  <2> DEFINE new == [status |-> s, owner |-> NoAgent, deps |-> deps, given |-> given]
  <2>2. new \in Segments /\ new.given = given
    BY <2>1 DEF Segments
  <2> HIDE DEF new
  <2>3. /\ DOMAIN items' = DOMAIN items \cup {i}
        /\ items' \in [DOMAIN items' -> Segments]
        /\ items'[i] = new /\ \A j \in DOMAIN items : j # i => items'[j] = items[j]
    BY <1>1, <2>1, <2>2 DEF Put, With, new
  <2>4. \A j \in DOMAIN items' : items'[j].given \/ j <= counter'
    <3> SUFFICES ASSUME NEW j \in DOMAIN items', ~items'[j].given PROVE j <= counter'
      OBVIOUS
    <3>1. CASE j = i
      BY <1>1, <2>2, <2>3, <3>1
    <3>2. CASE j # i
      <4>1. j \in DOMAIN items /\ j <= counter /\ j \in Nat
        BY <2>1, <2>3, <3>2 DEF Graph, IDs
      <4> QED BY <1>1, <2>1, <4>1
    <3> QED BY <3>1, <3>2
  <2>5. Graph(items, counter)'
    BY <1>1, <2>1, <2>3, <2>4 DEF Graph
  <2>6. i \in DOMAIN items => i \in replaced'
    BY <1>1 DEF Put
  <2>7. AgentsOK'
    BY <1>1, <2>3 DEF AgentsOK, agentVars
  <2>8. ASSUME NEW a \in Agents, agentPC[a] \in {"start", "work"}, target[a] \notin replaced'
        PROVE  items'[target[a]].owner = a
    <3>1. target[a] \in DOMAIN items /\ target[a] \notin replaced
      BY <1>1, <2>8 DEF AgentsOK, Put
    <3>2. items'[target[a]] = items[target[a]]
      BY <2>3, <2>6, <2>8, <3>1
    <3> QED BY <2>8, <3>1, <3>2 DEF ClaimExclusive
  <2>9. ClaimExclusive'
    BY <1>1, <2>8 DEF ClaimExclusive, agentVars
  <2> QED BY <1>1, <2>5, <2>7, <2>9 DEF Whole
<1>5. ASSUME NEW deps \in SUBSET DOMAIN items, Add("draft", deps)
      PROVE  IInv'
  <2>1. /\ counter' = counter + 1 /\ counter < MaxItems
        /\ Put(counter + 1, "draft", deps, FALSE) /\ UNCHANGED <<agentVars, saveVars, up>>
    BY <1>5 DEF Add
  <2>2. counter + 1 \in IDs /\ counter' \in counter..MaxItems /\ counter + 1 <= counter'
    <3>1. counter \in 0..MaxItems
      BY DEF Graph
    <3> QED BY <2>1, <3>1 DEF IDs
  <2>3. "draft" \in Statuses
    BY DEF Statuses
  <2> QED BY <1>1, <2>1, <2>2, <2>3
<1>6. ASSUME NEW i \in IDs, NEW deps \in SUBSET DOMAIN items, AddGiven(i, "ready", deps)
      PROVE  IInv'
  <2>1. Put(i, "ready", deps, TRUE) /\ UNCHANGED <<agentVars, saveVars, up>> /\ counter' = counter
    BY <1>6 DEF AddGiven
  <2>2. counter' \in counter..MaxItems
    <3>1. counter \in 0..MaxItems
      BY DEF Graph
    <3> QED BY <2>1, <3>1
  <2>3. "ready" \in Statuses
    BY DEF Statuses
  <2> QED BY <1>1, <2>1, <2>2, <2>3
<1>2. ASSUME NEW i \in IDs, FillDraft(i) \/ \E s \in Statuses : UpdateStatus(i, s)
      PROVE  IInv'
  <2>1. /\ i \in DOMAIN items /\ \E t \in Statuses : SetStatus(i, t)
        /\ UNCHANGED <<counter, agentVars, saveVars, up, replaced>>
    BY <1>2 DEF FillDraft, UpdateStatus, Statuses, history
  <2>2. PICK t \in Statuses : items' = [items EXCEPT ![i].status = t]
    BY <2>1 DEF SetStatus
  <2>3. /\ items' \in [DOMAIN items -> Segments]
        /\ \A j \in DOMAIN items : Kept(items'[j], items[j])
    BY <2>1, <2>2 DEF Segments, Kept, Graph
  <2>4. Graph(items, counter)' /\ AgentsOK' /\ ClaimExclusive'
    BY <2>1, <2>3, OwnersKept
  <2> QED BY <2>1, <2>3, <2>4 DEF Whole
<1>3. ASSUME NEW i \in IDs, NEW deps \in SUBSET IDs, Reorder(i, deps)
      PROVE  IInv'
  <2>1. /\ items' \in [DOMAIN items -> Segments]
        /\ \A j \in DOMAIN items : Kept(items'[j], items[j])
    BY <1>3 DEF Reorder, Segments, Kept, Graph
  <2>2. Graph(items, counter)' /\ AgentsOK' /\ ClaimExclusive'
    BY <1>3, <2>1, OwnersKept DEF Reorder, history
  <2> QED BY <1>3, <2>1, <2>2 DEF Reorder, Whole
<1>4. ASSUME NEW c \in IDs, Cascade(c)
      PROVE  IInv'
  <2>1. PICK affected : items' = [i \in DOMAIN items |->
                                    IF i \in affected /\ Open(i)
                                    THEN [items[i] EXCEPT !.status = "invalidated"]
                                    ELSE items[i]]
    BY <1>4 DEF Cascade
  <2>2. /\ items' \in [DOMAIN items -> Segments]
        /\ \A j \in DOMAIN items : Kept(items'[j], items[j])
    BY <2>1 DEF Segments, Statuses, Kept, Graph
  <2>3. Graph(items, counter)' /\ AgentsOK' /\ ClaimExclusive'
    BY <1>4, <2>2, OwnersKept DEF Cascade
  <2> QED BY <1>4, <2>2, <2>3 DEF Cascade, Whole
<1> QED BY <1>2, <1>3, <1>4, <1>5, <1>6 DEF Edit

\* An agent's calls: a claim takes a segment without an owner only (graph.go:126-177).
LEMMA AgentKeeps ==
  ASSUME IInv, NEW a \in Agents, AgentStep(a)
  PROVE  IInv'
<1> USE GraphAssumption DEF IInv, GraphOK, saveVars, AgentGoto, GiveUp, Refused
<1>1. ASSUME NEW i \in IDs, Pick(a, i)
      PROVE  IInv'
  <2>1. /\ i \in DOMAIN items /\ agentPC[a] = "idle" /\ up
        /\ agentPC' = [agentPC EXCEPT ![a] = "claim"]
        /\ target' = [target EXCEPT ![a] = i]
        /\ UNCHANGED <<items, counter, saveVars, up, replaced>>
    BY <1>1 DEF Pick, ReadyItems, history
  <2>2. AgentsOK' /\ ClaimExclusive'
    BY <2>1 DEF AgentsOK, ClaimExclusive
  <2> QED BY <2>1, <2>2 DEF Whole
<1>2. CASE Claim(a)
  <2>0. target[a] \in DOMAIN items /\ agentPC[a] = "claim"
    BY <1>2 DEF Claim, AgentsOK
  <2>1. CASE Claimable(target[a])
    <3>1. /\ items' = [items EXCEPT ![target[a]].owner = a,
                                    ![target[a]].status = "claimed"]
          /\ items[target[a]].owner = NoAgent
          /\ agentPC' = [agentPC EXCEPT ![a] = "start"]
          /\ UNCHANGED <<counter, target, saveVars, up, replaced>>
      BY <1>2, <2>1 DEF Claim, Claimable, history
    <3>2. /\ items' \in [DOMAIN items -> Segments]
          /\ items'[target[a]].owner = a
          /\ items'[target[a]].given = items[target[a]].given
          /\ \A j \in DOMAIN items : j # target[a] => items'[j] = items[j]
      <4>1. items' = [items EXCEPT ![target[a]] =
                        [items[target[a]] EXCEPT !.owner = a, !.status = "claimed"]]
        BY <2>0, <3>1
      <4>2. [items[target[a]] EXCEPT !.owner = a, !.status = "claimed"] \in Segments
        <5>1. items[target[a]] \in Segments
          BY <2>0 DEF Graph
        <5> HIDE DEF IInv, GraphOK
        <5> QED BY <5>1 DEF Segments, Statuses
      <4>3. /\ [items[target[a]] EXCEPT !.owner = a, !.status = "claimed"].owner = a
            /\ [items[target[a]] EXCEPT !.owner = a, !.status = "claimed"].given
                 = items[target[a]].given
        BY <2>0 DEF Segments, Graph
      <4> HIDE DEF IInv, GraphOK
      <4>4. items \in [DOMAIN items -> Segments]
        BY DEF IInv, GraphOK, Graph
      <4> QED BY <2>0, <4>1, <4>2, <4>3, <4>4
    <3>3. ASSUME NEW b \in Agents, agentPC'[b] \in {"start", "work"}, target'[b] \notin replaced'
          PROVE  items'[target'[b]].owner = b
      BY <2>0, <3>1, <3>2, <3>3 DEF AgentsOK, ClaimExclusive
    <3>4. AgentsOK'
      BY <2>0, <3>1, <3>2 DEF AgentsOK
    <3>5. Graph(items, counter)'
      BY <2>0, <3>1, <3>2 DEF Graph
    <3> QED BY <3>1, <3>3, <3>4, <3>5 DEF ClaimExclusive, Whole
  <2>2. CASE ~Claimable(target[a])
    BY <1>2, <2>2 DEF Claim, AgentsOK, ClaimExclusive, Whole, history
  <2> QED BY <2>1, <2>2
<1>3. CASE Start(a) \/ Complete(a)
  <2>0. /\ target[a] \in DOMAIN items
        /\ UNCHANGED <<counter, saveVars, up, replaced>>
    BY <1>3 DEF Start, Complete, AgentsOK, history
  <2>p. \/ items' = items
        \/ \E s \in Statuses : items' = [items EXCEPT ![target[a]].status = s]
    BY <1>3 DEF Start, Complete, SetStatus, Statuses
  <2>1. /\ items' \in [DOMAIN items -> Segments]
        /\ \A j \in DOMAIN items : Kept(items'[j], items[j])
    <3>1. CASE items' = items
      BY <3>1 DEF Kept, Graph
    <3>2. ASSUME NEW s \in Statuses, items' = [items EXCEPT ![target[a]].status = s]
          PROVE  /\ items' \in [DOMAIN items -> Segments]
                 /\ \A j \in DOMAIN items : Kept(items'[j], items[j])
      BY <2>0, <3>2 DEF Segments, Kept, Graph
    <3> QED BY <2>p, <3>1, <3>2
  <2>g. \/ agentPC' = [agentPC EXCEPT ![a] = "work"] /\ target' = target
        \/ /\ agentPC' = [agentPC EXCEPT ![a] = "idle"]
           /\ target' = [target EXCEPT ![a] = 0]
    BY <1>3 DEF Start, Complete
  <2>s. agentPC[a] \in {"start", "work"}
    BY <1>3 DEF Start, Complete
  <2>2. \A b \in Agents : /\ agentPC'[b] # "idle" => agentPC[b] # "idle" /\ target'[b] = target[b]
                          /\ agentPC'[b] \in {"start", "work"} => agentPC[b] \in {"start", "work"}
    BY <2>g, <2>s DEF AgentsOK
  <2>3. AgentsOK'
    BY <2>0, <2>1, <2>g, <2>2 DEF AgentsOK
  <2>4. ClaimExclusive'
    BY <2>0, <2>1, <2>2 DEF AgentsOK, ClaimExclusive, Kept
  <2>5. Graph(items, counter)'
    BY <2>0, <2>1 DEF Graph, Kept
  <2> QED BY <2>0, <2>3, <2>4, <2>5 DEF Whole
<1> QED BY <1>1, <1>2, <1>3 DEF AgentStep

\* A save, the end of the process and the next start (graph.go:538-592).
LEMMA FileKeeps ==
  ASSUME IInv, SaveStep \/ End \/ Boot
  PROVE  IInv'
<1> USE GraphAssumption DEF IInv, GraphOK, EndSave
<1>0. Graph(NoSegments, 0)
  BY DEF NoSegments, Graph
<1>1. Whole(NothingSaved) /\ Whole(Saved)
  BY <1>0 DEF Whole, NothingSaved, Saved
<1>2. CASE SaveStep
  <2>1. UNCHANGED <<items, counter, agentVars, up, replaced>>
    BY <1>2 DEF SaveStep, SaveCopy, SaveCreate, SaveWrite, SaveRename, history
  <2>2. AgentsOK' /\ ClaimExclusive'
    BY <2>1 DEF AgentsOK, ClaimExclusive, agentVars
  <2>3. Whole(copy')
    BY <1>1, <1>2 DEF SaveStep, SaveCopy, SaveCreate, SaveWrite, SaveRename
  <2>4. file' # file => savePC = "rename" /\ file' = copy
    BY <1>2 DEF SaveStep, SaveCopy, SaveCreate, SaveWrite, SaveRename
  <2>5. savePC' = "rename" => tmp' = copy'
    BY <1>2 DEF SaveStep, SaveCopy, SaveCreate, SaveWrite, SaveRename
  <2> QED BY <2>1, <2>2, <2>3, <2>4, <2>5 DEF Whole
<1>3. CASE End
  BY <1>0, <1>1, <1>3 DEF End, AgentsOK, ClaimExclusive, Whole
<1>4. CASE Boot
  <2>1. \A a \in Agents : agentPC[a] = "idle" /\ agentPC'[a] = "idle"
    BY <1>4 DEF Boot, AgentsOK, agentVars
  <2>2. Graph(items, counter)'
    BY <1>4 DEF Boot, Loaded, Whole
  <2>3. UNCHANGED saveVars /\ UNCHANGED agentPC
    BY <1>4 DEF Boot, agentVars
  <2>4. up' /\ UNCHANGED target
    BY <1>4 DEF Boot, agentVars
  <2>5. AgentsOK' /\ ClaimExclusive'
    BY <2>1, <2>3, <2>4 DEF AgentsOK, ClaimExclusive
  <2> QED BY <2>2, <2>3, <2>5 DEF Whole, saveVars
<1> QED BY <1>2, <1>3, <1>4

LEMMA StepKeeps ==
  ASSUME IInv, [Next]_vars
  PROVE  IInv'
<1>1. CASE UNCHANGED vars
  BY <1>1 DEF vars, IInv, GraphOK, AgentsOK, ClaimExclusive, Whole, agentVars, saveVars, history
<1> QED BY <1>1, EditKeeps, AgentKeeps, FileKeeps DEF Next

\* A segment that was claimed belongs to that agent until the agent is done with
\* it, for any agents, edits, cascades and starts of the program
\* (graph.go:126-177): a claim asks for a segment without an owner, and no
\* other call writes owners.
THEOREM ClaimCorrect == Spec => []ClaimExclusive
<1>1. Init => IInv
  BY InitHolds
<1>2. IInv /\ [Next]_vars => IInv'
  BY StepKeeps
<1>3. IInv => ClaimExclusive
  BY DEF IInv
<1> QED BY <1>1, <1>2, <1>3, PTL DEF Spec

\* A generated ID replaces no segment but one whose ID was given, whatever was
\* saved and read before, for the counter is saved with the segments and never
\* behind the IDs it gave (graph.go:71-98, 578-591).
THEOREM AddCorrect == Spec => AddKeepsOthers
<1>1. Init => IInv
  BY InitHolds
<1>2. IInv /\ [Next]_vars => IInv'
  BY StepKeeps
<1>3. IInv /\ [Next]_vars
        => [(up /\ up' /\ counter' # counter) =>
              \A i \in DOMAIN items :
                ~items[i].given => i \in DOMAIN items' /\ items'[i] = items[i]]_vars
  <2> SUFFICES ASSUME IInv, Next, up, up', counter' # counter, NEW i \in DOMAIN items,
                      ~items[i].given
               PROVE  i \in DOMAIN items' /\ items'[i] = items[i]
    BY DEF vars
  <2>1. ASSUME NEW a \in Agents, AgentStep(a)
        PROVE  counter' = counter
    BY <2>1 DEF AgentStep, Pick, Claim, Start, Complete
  <2>2. SaveStep => counter' = counter
    BY DEF SaveStep, SaveCopy, SaveCreate, SaveWrite, SaveRename
  <2>3. PICK deps \in SUBSET DOMAIN items : Add("draft", deps)
    BY <2>1, <2>2
       DEF Next, Edit, End, Boot, AddGiven, FillDraft, UpdateStatus, Reorder, Cascade
  <2>4. counter \in Nat /\ i \in Nat /\ i <= counter
    BY GraphAssumption DEF IInv, GraphOK, Graph, IDs
  <2>5. i # counter + 1
    BY <2>4
  <2> QED BY <2>3, <2>5 DEF Add, Put, With
<1> QED BY <1>1, <1>2, <1>3, PTL DEF Spec, AddKeepsOthers

\* The file is never half of a graph: Save renames the temporary file only when
\* all of the copy is in it (graph.go:538-561).
THEOREM FileCorrect ==
  ASSUME \A f : Whole(f) => f # PartialFile
  PROVE  Spec => []FileWhole
<1>1. Init => IInv /\ FileWhole
  BY InitHolds, GraphAssumption DEF Init, FileWhole
<1>2. IInv /\ FileWhole /\ [Next]_vars => IInv' /\ FileWhole'
  <2> SUFFICES ASSUME IInv, FileWhole, [Next]_vars PROVE FileWhole'
    BY StepKeeps
  <2>1. \/ file' = file
        \/ savePC = "rename" /\ file' = tmp
    <3>1. ASSUME NEW a \in Agents, AgentStep(a)
          PROVE  file' = file
      BY <3>1 DEF AgentStep, Pick, Claim, Start, Complete, saveVars
    <3>2. Edit => file' = file
      BY DEF Edit, Add, AddGiven, FillDraft, UpdateStatus, Reorder, Cascade, saveVars
    <3> QED BY <3>1, <3>2 DEF Next, SaveStep, SaveCopy, SaveCreate, SaveWrite, SaveRename,
                  End, Boot, saveVars, vars
  <2> QED BY <2>1 DEF IInv, GraphOK, FileWhole
<1> QED BY <1>1, <1>2, PTL DEF Spec

-----------------------------------------------------------------------------
(* Recursion over the naturals.                                            *)

\* Induction over the naturals for a set instead of a predicate: the numbers that
\* are not in it would have a least one.
LEMMA NatInduct ==
  ASSUME NEW S, 0 \in S, \A n \in Nat : n \in S => n + 1 \in S
  PROVE  Nat \subseteq S
<1> DEFINE T == Nat \ S
           R == OpToRel(<, Nat)
<1>1. IsWellFoundedOn(R, Nat)
  BY NatLessThanWellFounded
<1>2. \A x, y \in Nat : x < y => <<x, y>> \in R
  BY DEF OpToRel
<1>3. SUFFICES ASSUME T # {} PROVE FALSE
  OBVIOUS
<1> HIDE DEF R
<1>4. PICK x \in T : \A y \in T : ~ (<<y, x>> \in R)
  <2>1. T \subseteq Nat
    OBVIOUS
  <2> HIDE DEF T
  <2> QED BY <1>1, <1>3, <2>1, WFMin, Zenon
<1>5. x # 0 /\ x - 1 \in Nat /\ x = (x - 1) + 1
  OBVIOUS
<1>6. x - 1 \in T
  BY <1>5
<1>7. <<x - 1, x>> \in R
  BY <1>2, <1>5
<1> QED BY <1>4, <1>6, <1>7

\* A function that is defined by rounds exists, with what the rounds make.
Rounds(f, first, step, n) ==
  f = [k \in 0..n |-> IF k = 0 THEN first ELSE step[f[k - 1]]]

LEMMA RoundsExist ==
  ASSUME NEW T, NEW first \in T, NEW step \in [T -> T], NEW n \in Nat
  PROVE  \E f \in [0..n -> T] : Rounds(f, first, step, n)
<1> DEFINE S == {m \in Nat : \E f \in [0..m -> T] : Rounds(f, first, step, m)}
<1>1. 0 \in S
  <2> DEFINE g == [k \in 0..0 |-> first]
  <2>1. g \in [0..0 -> T]
    OBVIOUS
  <2>2. Rounds(g, first, step, 0)
    BY DEF Rounds
  <2> QED BY <2>1, <2>2
<1>2. ASSUME NEW m \in Nat, m \in S
      PROVE  m + 1 \in S
  <2>1. PICK f \in [0..m -> T] : Rounds(f, first, step, m)
    BY <1>2
  <2> DEFINE g == [k \in 0..(m + 1) |-> IF k \in 0..m THEN f[k] ELSE step[f[m]]]
  <2>2. \A k \in 0..m : f[k] = IF k = 0 THEN first ELSE step[f[k - 1]]
    BY <2>1 DEF Rounds
  <2>3. f[m] \in T /\ step[f[m]] \in T
    OBVIOUS
  <2>4. g \in [0..(m + 1) -> T]
    BY <2>3
  <2>5. (\A k \in 0..m : g[k] = f[k]) /\ g[m + 1] = step[f[m]]
    OBVIOUS
  <2>6. g = [k \in 0..(m + 1) |-> g[k]]
    OBVIOUS
  <2> HIDE DEF g
  <2>7. ASSUME NEW k \in 0..(m + 1)
        PROVE  g[k] = IF k = 0 THEN first ELSE step[g[k - 1]]
    <3>1. CASE k \in 0..m
      <4>1. k # 0 => k - 1 \in 0..m
        BY <3>1
      <4> QED BY <2>2, <2>5, <3>1, <4>1
    <3>2. CASE k = m + 1
      <4>1. k # 0 /\ k - 1 = m /\ m \in 0..m
        BY <3>2
      <4> QED BY <2>5, <3>2, <4>1
    <3> QED BY <3>1, <3>2
  <2>8. Rounds(g, first, step, m + 1)
    BY <2>6, <2>7 DEF Rounds
  <2> QED BY <2>4, <2>8
<1> HIDE DEF S
<1>3. Nat \subseteq S
  BY <1>1, <1>2, NatInduct
<1> QED BY <1>3 DEF S

-----------------------------------------------------------------------------
(* What a cascade reaches.                                                 *)

Dependents(S, c) == {i \in DOMAIN items : (items[i].deps \ {i}) \cap (S \cup {c}) # {}}

Marked(f, c) ==
  f = [n \in 0..Cardinality(DOMAIN items) |->
         IF n = 0 THEN {}
         ELSE {i \in DOMAIN items : (items[i].deps \ {i}) \cap (f[n - 1] \cup {c}) # {}}]

LEMMA MarkedRounds ==
  ASSUME NEW c, IsFiniteSet(DOMAIN items)
  PROVE  \E f \in [0..Cardinality(DOMAIN items) -> SUBSET DOMAIN items] :
           Marked(f, c) /\ AffectedByDeps(c) = f[Cardinality(DOMAIN items)]
<1> DEFINE N == Cardinality(DOMAIN items)
           T == SUBSET DOMAIN items
           step == [S \in T |-> Dependents(S, c)]
<1>1. N \in Nat
  BY FS_CardinalityType
<1>2. {} \in T /\ step \in [T -> T]
  BY DEF Dependents
<1>3. \A S \in T : step[S] = Dependents(S, c)
  OBVIOUS
<1> HIDE DEF N, T, step
<1>4. PICK f \in [0..N -> T] : Rounds(f, {}, step, N)
  BY <1>1, <1>2, RoundsExist
<1>5. ASSUME NEW k \in 0..N
      PROVE  f[k] = IF k = 0 THEN {} ELSE Dependents(f[k - 1], c)
  <2>1. f[k] = IF k = 0 THEN {} ELSE step[f[k - 1]]
    BY <1>4 DEF Rounds
  <2>2. k # 0 => k - 1 \in 0..N
    BY <1>1
  <2> QED BY <1>3, <2>1, <2>2
<1>6. f = [n \in 0..N |-> IF n = 0 THEN {} ELSE Dependents(f[n - 1], c)]
  BY <1>5
<1>7. Marked(f, c)
  BY <1>6 DEF Marked, Dependents, N
<1> DEFINE g == CHOOSE h : Marked(h, c)
<1>8. Marked(g, c)
  BY <1>7
<1>9. AffectedByDeps(c) = g[N]
  BY DEF AffectedByDeps, Marked, N
<1> HIDE DEF g
<1>10. g \in [0..N -> T]
  BY <1>8 DEF Marked, N, T
<1> QED BY <1>8, <1>9, <1>10 DEF N, T

\* The rounds end: once nothing is added nothing will be, and there are as many
\* rounds as segments.
LEMMA RoundsEnd ==
  ASSUME NEW c, IsFiniteSet(DOMAIN items)
  PROVE  Dependents(AffectedByDeps(c), c) = AffectedByDeps(c)
<1> DEFINE N == Cardinality(DOMAIN items)
<1>1. N \in Nat
  BY FS_CardinalityType
<1>2. PICK f \in [0..N -> SUBSET DOMAIN items] : Marked(f, c) /\ AffectedByDeps(c) = f[N]
  BY MarkedRounds
<1>3. f[0] = {} /\ \A k \in 1..N : f[k] = Dependents(f[k - 1], c)
  <2>1. f = [n \in 0..N |-> IF n = 0 THEN {} ELSE Dependents(f[n - 1], c)]
    BY <1>2 DEF Marked, Dependents
  <2> HIDE DEF N
  <2>2. 0 \in 0..N /\ \A k \in 1..N : k \in 0..N /\ k # 0
    BY <1>1
  <2> QED BY <2>1, <2>2
<1> DEFINE P(k) == /\ f[k] \subseteq Dependents(f[k], c)
                   /\ Cardinality(f[k]) >= k \/ Dependents(f[k], c) = f[k]
           S == {k \in Nat : k <= N => P(k)}
<1> HIDE DEF N
<1>4. 0 \in S
  <2>1. Cardinality(f[0]) = 0
    BY <1>3, FS_EmptySet
  <2>2. f[0] \subseteq Dependents(f[0], c)
    BY <1>3
  <2>3. P(0)
    BY <2>1, <2>2
  <2> HIDE DEF P
  <2> QED BY <2>3
<1>5. ASSUME NEW k \in Nat, k \in S
      PROVE  k + 1 \in S
  <2> SUFFICES ASSUME k + 1 <= N PROVE P(k + 1)
    OBVIOUS
  <2>1. P(k) /\ k \in 0..N /\ k + 1 \in 1..N /\ (k + 1) - 1 = k
    BY <1>1, <1>5
  <2>2. f[k + 1] = Dependents(f[k], c)
    BY <1>3, <2>1
  <2>3. f[k] \subseteq f[k + 1] /\ f[k + 1] \in SUBSET DOMAIN items /\ k + 1 \in 0..N
    BY <1>1, <2>1, <2>2
  <2>4. f[k + 1] \subseteq Dependents(f[k + 1], c)
    BY <2>2, <2>3 DEF Dependents
  <2>5. CASE f[k + 1] = f[k]
    BY <2>2, <2>4, <2>5
  <2>6. CASE f[k + 1] # f[k]
    <3>1. IsFiniteSet(f[k + 1])
      BY <2>3, FS_Subset
    <3>2. /\ IsFiniteSet(f[k]) /\ Cardinality(f[k]) <= Cardinality(f[k + 1])
          /\ Cardinality(f[k + 1]) = Cardinality(f[k]) => f[k + 1] = f[k]
      BY <2>3, <3>1, FS_Subset
    <3>3. Cardinality(f[k]) \in Nat /\ Cardinality(f[k + 1]) \in Nat
      BY <3>1, <3>2, FS_CardinalityType
    <3>4. Cardinality(f[k]) >= k
      BY <2>1, <2>2, <2>6
    <3> QED BY <2>4, <2>6, <3>2, <3>3, <3>4
  <2> QED BY <2>5, <2>6
<1>6. N \in S
  <2> HIDE DEF S
  <2> QED BY <1>1, <1>4, <1>5, NatInduct
<1>7. P(N) /\ f[N] \in SUBSET DOMAIN items
  BY <1>1, <1>6
<1>8. CASE Cardinality(f[N]) >= N
  <2>1. Cardinality(f[N]) \in Nat /\ Cardinality(f[N]) <= N /\ (N = Cardinality(f[N]) => DOMAIN items = f[N])
    BY <1>7, FS_Subset, FS_CardinalityType DEF N
  <2>2. f[N] = DOMAIN items
    BY <1>1, <1>8, <2>1
  <2>3. Dependents(f[N], c) \subseteq DOMAIN items
    BY DEF Dependents
  <2>4. Dependents(f[N], c) = f[N]
    BY <1>7, <2>2, <2>3
  <2> QED BY <1>2, <2>4
<1> QED BY <1>2, <1>7, <1>8

\* So what a cascade does not reach by dependencies does not depend on c.
LEMMA CascadeReaches ==
  ASSUME NEW c \in DOMAIN items, IsFiniteSet(DOMAIN items), NEW i \in DOMAIN items, i # c,
         Reaches(i, c)
  PROVE  i \in AffectedByDeps(c)
<1> DEFINE M == AffectedByDeps(c)
<1>1. Dependents(M, c) = M
  BY RoundsEnd
<1> HIDE DEF M
<1>2. M \cup {c} \in SUBSET DOMAIN items
  BY <1>1 DEF Dependents
<1>3. Closed(M \cup {c})
  <2> SUFFICES ASSUME NEW k \in DOMAIN items, NEW j \in M \cup {c}, j \in items[k].deps
               PROVE  k \in M \cup {c}
    BY DEF Closed, DependsOn
  <2> QED BY <1>1 DEF Dependents
<1>4. i \in M \cup {c}
  BY <1>2, <1>3 DEF Reaches
<1> QED BY <1>4 DEF M

\* What is outdated is invalidated and still there; without the process there is
\* nothing.
Stopped ==
  /\ OutdatedStops /\ outdated \cup replaced \subseteq DOMAIN items
  /\ ~up => outdated = {} /\ replaced = {}

\* Who edits, claims, starts or completes leaves it so; a cascade adds what it
\* has invalidated.
LEMMA StoppedKeeps ==
  ASSUME IInv, Stopped, [Next]_vars
  PROVE  Stopped'
<1>1. DOMAIN items \subseteq 1..MaxItems /\ items \in [DOMAIN items -> Segments]
  BY DEF IInv, GraphOK, Graph, IDs
<1>2. IsFiniteSet(DOMAIN items)
  <2>1. IsFiniteSet(1..MaxItems)
    BY GraphAssumption, FS_Interval
  <2> QED BY <1>1, <2>1, FS_Subset
<1>3. ASSUME NEW i, NEW s, NEW deps, Add(s, deps) \/ AddGiven(i, s, deps)
      PROVE  Stopped'
  <2>1. PICK j, given : up' /\ Put(j, s, deps, given)
    <3>1. CASE Add(s, deps)
      <4>1. up' /\ Put(counter + 1, s, deps, FALSE)
        BY <3>1 DEF Add
      <4> QED BY <4>1
    <3>2. CASE AddGiven(i, s, deps)
      <4>1. up' /\ Put(i, s, deps, TRUE)
        BY <3>2 DEF AddGiven
      <4> QED BY <4>1
    <3> QED BY <1>3, <3>1, <3>2
  <2>2. /\ outdated' = outdated \ {j} /\ replaced' = replaced \cup ({j} \cap DOMAIN items)
        /\ DOMAIN items \subseteq DOMAIN items'
        /\ \A k \in DOMAIN items : k # j => items'[k] = items[k]
    BY <2>1 DEF Put, With
  <2> QED BY <2>1, <2>2 DEF Stopped, OutdatedStops
<1>4. ASSUME NEW i, NEW s, UpdateStatus(i, s)
      PROVE  Stopped'
  <2>1. /\ up' = up /\ up /\ outdated' = outdated \ {i} /\ DOMAIN items' = DOMAIN items
        /\ replaced' = replaced /\ \A j \in DOMAIN items : j # i => items'[j] = items[j]
    BY <1>4 DEF UpdateStatus, SetStatus
  <2> QED BY <2>1 DEF Stopped, OutdatedStops
<1>5. ASSUME NEW i, NEW deps, Reorder(i, deps)
      PROVE  Stopped'
  <2>1. /\ up' = up /\ history' = history /\ DOMAIN items' = DOMAIN items
        /\ \A j \in DOMAIN items : items'[j].status = items[j].status
    BY <1>1, <1>5 DEF Reorder, Segments, history
  <2> QED BY <2>1 DEF Stopped, OutdatedStops, history
<1>6. ASSUME NEW c \in IDs, Cascade(c)
      PROVE  Stopped'
  <2> DEFINE affected == AffectedByDeps(c) \cup AffectedByOverlap(c)
  <2>1. /\ up /\ up' /\ c \in DOMAIN items
        /\ items' = [i \in DOMAIN items |->
                       IF i \in affected /\ Open(i)
                       THEN [items[i] EXCEPT !.status = "invalidated"] ELSE items[i]]
        /\ outdated' = outdated \cup {i \in Affected(c) : Open(i)}
    BY <1>6 DEF Cascade
  <2>2. Affected(c) \subseteq affected /\ Affected(c) \subseteq DOMAIN items
    BY <1>2, <2>1, CascadeReaches DEF Affected
  <2> HIDE DEF affected
  <2>3. ASSUME NEW i \in outdated'
        PROVE  i \in DOMAIN items /\ items'[i].status = "invalidated"
    <3>1. CASE i \in outdated
      <4>1. i \in DOMAIN items /\ items[i].status = "invalidated" /\ ~Open(i)
        BY <3>1 DEF Stopped, OutdatedStops, Open
      <4> QED BY <2>1, <4>1
    <3>2. CASE i \notin outdated
      <4>1. i \in affected /\ Open(i) /\ i \in DOMAIN items
        BY <2>1, <2>2, <3>2
      <4>2. items'[i] = [items[i] EXCEPT !.status = "invalidated"]
        BY <2>1, <4>1
      <4> QED BY <1>1, <4>1, <4>2 DEF Segments
    <3> QED BY <3>1, <3>2
  <2>4. DOMAIN items' = DOMAIN items
    BY <2>1
  <2>5. replaced' = replaced
    BY <1>6 DEF Cascade
  <2> QED BY <2>1, <2>3, <2>4, <2>5 DEF Stopped, OutdatedStops
<1>7. ASSUME NEW i, FillDraft(i)
      PROVE  Stopped'
  <2>1. /\ up' = up /\ history' = history /\ DOMAIN items' = DOMAIN items
        /\ items[i].status = "draft" /\ \A j \in DOMAIN items : j # i => items'[j] = items[j]
    BY <1>7 DEF FillDraft, SetStatus
  <2> QED BY <2>1 DEF Stopped, OutdatedStops, history
<1>8. ASSUME NEW a \in Agents, AgentStep(a)
      PROVE  Stopped'
  <2>1. /\ up' = up /\ history' = history /\ DOMAIN items' = DOMAIN items
        /\ \A i \in DOMAIN items : items[i].status = "invalidated" => items'[i] = items[i]
    BY <1>8 DEF AgentStep, Pick, Claim, Start, Complete, SetStatus, Claimable, Refused
  <2> QED BY <2>1 DEF Stopped, OutdatedStops, history
<1>9. CASE SaveStep \/ UNCHANGED vars
  BY <1>9 DEF SaveStep, SaveCopy, SaveCreate, SaveWrite, SaveRename, vars, history, Stopped,
              OutdatedStops
<1>10. CASE End
  BY <1>10 DEF End, Stopped, OutdatedStops
<1>11. CASE Boot
  BY <1>11 DEF Boot, history, Stopped, OutdatedStops
<1> QED BY <1>3, <1>4, <1>5, <1>6, <1>7, <1>8, <1>9, <1>10, <1>11 DEF Next, Edit

\* What a change outdated stays invalidated until someone sets its status, for any
\* segments, dependencies with and without cycles, agents and earlier answers of
\* Ready (graph.go:126-177, 283-347).
THEOREM OutdatedCorrect == Spec => []OutdatedStops
<1>1. Init => IInv /\ Stopped
  BY InitHolds DEF Init, Stopped, OutdatedStops
<1>2. IInv /\ Stopped /\ [Next]_vars => IInv' /\ Stopped'
  BY StepKeeps, StoppedKeeps
<1>3. Stopped => OutdatedStops
  BY DEF Stopped
<1> QED BY <1>1, <1>2, <1>3, PTL DEF Spec

-----------------------------------------------------------------------------
(* The order of the segments.                                              *)

LEMMA LeastMember ==
  ASSUME NEW S \in SUBSET Nat, S # {}
  PROVE  \E x \in S : \A y \in S : x <= y
<1> DEFINE R == OpToRel(<, Nat)
<1>1. IsWellFoundedOn(R, Nat)
  BY NatLessThanWellFounded
<1>2. \A x, y \in Nat : x < y => <<x, y>> \in R
  BY DEF OpToRel
<1> HIDE DEF R
<1>3. PICK x \in S : \A y \in S : ~ (<<y, x>> \in R)
  BY <1>1, WFMin, Zenon
<1>4. ASSUME NEW y \in S
      PROVE  x <= y
  <2>1. ~(y < x) /\ x \in Nat /\ y \in Nat
    BY <1>2, <1>3
  <2> QED BY <2>1
<1> QED BY <1>4

LEMMA MinMember ==
  ASSUME NEW S \in SUBSET Nat, S # {}
  PROVE  Min(S) \in S
BY LeastMember DEF Min

\* The members of a finite set of numbers have an ascending sequence: each is at
\* the place that the number of those up to it says.
LEMMA AscendingCorrect ==
  ASSUME NEW S \in SUBSET Nat, IsFiniteSet(S)
  PROVE  /\ Ascending(S) \in [1..Cardinality(S) -> S]
         /\ \A i, j \in 1..Cardinality(S) : Ascending(S)[i] = Ascending(S)[j] => i = j
         /\ \A x \in S : \E i \in 1..Cardinality(S) : Ascending(S)[i] = x
<1> DEFINE n == Cardinality(S)
           upto(x) == {y \in S : y <= x}
           rank == [x \in S |-> Cardinality(upto(x))]
           up2(s) == \A i, j \in DOMAIN s : i < j => s[i] < s[j]
<1>1. n \in Nat
  BY FS_CardinalityType
<1>2. IsFiniteSet(1..n) /\ Cardinality(1..n) = n
  BY <1>1, FS_Interval
<1>3. ASSUME NEW x \in S
      PROVE  /\ IsFiniteSet(upto(x)) /\ Cardinality(upto(x)) \in 1..n
  <2>1. upto(x) \in SUBSET S /\ upto(x) # {}
    OBVIOUS
  <2>2. IsFiniteSet(upto(x)) /\ Cardinality(upto(x)) <= n
    BY <2>1, FS_Subset
  <2>3. Cardinality(upto(x)) \in Nat /\ Cardinality(upto(x)) # 0
    BY <2>1, <2>2, FS_CardinalityType, FS_EmptySet
  <2> HIDE DEF upto
  <2> QED BY <1>1, <2>2, <2>3
<1>4. ASSUME NEW x \in S, NEW y \in S, x < y
      PROVE  rank[x] < rank[y]
  <2>1. upto(x) \in SUBSET upto(y) /\ y \in upto(y) /\ y \notin upto(x)
    <3>1. x \in Nat /\ y \in Nat /\ \A z \in S : z \in Nat
      OBVIOUS
    <3>2. y <= y /\ ~(y <= x) /\ \A z \in S : z <= x => z <= y
      BY <1>4, <3>1
    <3> QED BY <3>2
  <2>2. Cardinality(upto(x)) <= Cardinality(upto(y)) /\ Cardinality(upto(x)) # Cardinality(upto(y))
    <3> HIDE DEF upto
    <3> QED BY <1>3, <2>1, FS_Subset
  <2>3. Cardinality(upto(x)) \in Nat /\ Cardinality(upto(y)) \in Nat
    BY <1>3
  <2> HIDE DEF upto
  <2> QED BY <2>2, <2>3
<1>5. rank \in [S -> 1..n]
  BY <1>3
<1> HIDE DEF upto, rank, n
<1>6. \A x, y \in S : rank[x] = rank[y] => x = y
  <2> SUFFICES ASSUME NEW x \in S, NEW y \in S, x # y PROVE rank[x] # rank[y]
    OBVIOUS
  <2>1. x < y \/ y < x
    OBVIOUS
  <2>2. rank[x] \in Int /\ rank[y] \in Int
    BY <1>5
  <2> QED BY <1>4, <2>1, <2>2
<1>7. rank \in Injection(S, 1..n)
  BY <1>5, <1>6, Fun_IsInj
<1>8. rank \in Surjection(S, 1..n)
  BY <1>2, <1>7, FS_Injection DEF n
<1>9. \A k \in 1..n : \E x \in S : rank[x] = k
  BY <1>8, Fun_SurjectionProperties
<1> DEFINE at == [k \in 1..n |-> CHOOSE x \in S : rank[x] = k]
<1>10. at \in [1..n -> S] /\ \A k \in 1..n : rank[at[k]] = k
  BY <1>9
<1>11. up2(at)
  <2> HIDE DEF at
  <2> SUFFICES ASSUME NEW i \in 1..n, NEW j \in 1..n, i < j PROVE at[i] < at[j]
    BY <1>10
  <2>1. at[i] \in S /\ at[j] \in S /\ at[i] \in Nat /\ at[j] \in Nat
    BY <1>10
  <2>2. rank[at[i]] = i /\ rank[at[j]] = j
    BY <1>10
  <2>3. ~(at[j] < at[i]) /\ at[j] # at[i]
    BY <1>4, <2>1, <2>2
  <2> QED BY <2>1, <2>3
<1> HIDE DEF at
<1> DEFINE a == Ascending(S)
<1>12. a \in [1..n -> S] /\ up2(a)
  BY <1>10, <1>11 DEF Ascending, n
<1> HIDE DEF a
<1>13. \A i, j \in 1..n : a[i] = a[j] => i = j
  <2> SUFFICES ASSUME NEW i \in 1..n, NEW j \in 1..n, i < j PROVE a[i] # a[j]
    OBVIOUS
  <2>1. a[i] < a[j] /\ a[i] \in Nat /\ a[j] \in Nat
    BY <1>12
  <2> QED BY <2>1
<1>14. a \in Injection(1..n, S)
  BY <1>12, <1>13, Fun_IsInj
<1>15. a \in Surjection(1..n, S)
  BY <1>2, <1>14, FS_Injection DEF n
<1>16. \A x \in S : \E i \in 1..n : a[i] = x
  BY <1>15 DEF Surjection
<1> QED BY <1>12, <1>13, <1>16 DEF a, n

\* What Kahn's algorithm may list next, and a round of it.
Frontier(s) == {i \in DOMAIN items \ ToSet(s) : items[i].deps \cap DOMAIN items \subseteq ToSet(s)}
KahnStep(s) == IF Frontier(s) = {} THEN s ELSE Append(s, Min(Frontier(s)))

Kahn(f) ==
  f = [k \in 0..Cardinality(DOMAIN items) |-> IF k = 0 THEN <<>> ELSE KahnStep(f[k - 1])]

\* Each segment once, and after all it depends on.
Listed(s) ==
  /\ s \in Seq(DOMAIN items)
  /\ \A p, q \in 1..Len(s) : s[p] = s[q] => p = q
  /\ \A p \in 1..Len(s) : \A d \in items[s[p]].deps \cap DOMAIN items :
       \E q \in 1..Len(s) : q < p /\ s[q] = d

LEMMA KahnKeeps ==
  ASSUME DOMAIN items \subseteq Nat, NEW s, Listed(s)
  PROVE  /\ KahnStep(s) \in Seq(DOMAIN items) /\ Listed(KahnStep(s))
         /\ (Len(KahnStep(s)) = Len(s) + 1 \/ (KahnStep(s) = s /\ Frontier(s) = {}))
<1>1. CASE Frontier(s) = {}
  BY <1>1 DEF KahnStep, Listed
<1>2. CASE Frontier(s) # {}
  <2> DEFINE m == Min(Frontier(s))
             a == Append(s, m)
  <2>1. m \in Frontier(s)
    <3>1. Frontier(s) \in SUBSET Nat
      BY DEF Frontier
    <3> QED BY <1>2, <3>1, MinMember
  <2> HIDE DEF m
  <2>2. s \in Seq(DOMAIN items) /\ m \in DOMAIN items
    BY <2>1 DEF Listed, Frontier
  <2>3. /\ a \in Seq(DOMAIN items) /\ Len(a) = Len(s) + 1
        /\ \A p \in 1..Len(s) : a[p] = s[p]
        /\ a[Len(s) + 1] = m
    BY <2>2, AppendProperties
  <2> HIDE DEF a
  <2>4. Len(s) \in Nat /\ DOMAIN s = 1..Len(s)
    BY <2>2, LenProperties
  <2>5. \A p \in 1..Len(a) : p \in 1..Len(s) \/ p = Len(s) + 1
    BY <2>3, <2>4
  <2>6. ToSet(s) = {s[p] : p \in 1..Len(s)}
    BY <2>4 DEF ToSet
  <2>7. /\ \A p \in 1..Len(s) : s[p] # m
        /\ \A d \in items[m].deps \cap DOMAIN items : \E q \in 1..Len(s) : s[q] = d
    BY <2>1, <2>6 DEF Frontier
  <2>8. ASSUME NEW p \in 1..Len(a), NEW q \in 1..Len(a), a[p] = a[q]
        PROVE  p = q
    <3>1. CASE p \in 1..Len(s) /\ q \in 1..Len(s)
      BY <2>3, <2>8, <3>1 DEF Listed
    <3>2. CASE p = Len(s) + 1 \/ q = Len(s) + 1
      BY <2>3, <2>5, <2>7, <2>8, <3>2
    <3> QED BY <2>5, <3>1, <3>2
  <2>9. ASSUME NEW p \in 1..Len(a), NEW d \in items[a[p]].deps \cap DOMAIN items
        PROVE  \E q \in 1..Len(a) : q < p /\ a[q] = d
    <3>1. CASE p \in 1..Len(s)
      <4>1. PICK q \in 1..Len(s) : q < p /\ s[q] = d
        BY <2>3, <2>9, <3>1 DEF Listed
      <4> QED BY <2>3, <2>4, <4>1
    <3>2. CASE p = Len(s) + 1
      <4>1. PICK q \in 1..Len(s) : s[q] = d
        BY <2>3, <2>7, <2>9, <3>2
      <4>2. q \in 1..Len(a) /\ q < p
        BY <2>3, <2>4, <3>2
      <4> QED BY <2>3, <4>1, <4>2
    <3> QED BY <2>5, <3>1, <3>2
  <2>10. Listed(a)
    BY <2>3, <2>8, <2>9 DEF Listed
  <2>11. KahnStep(s) = a
    BY <1>2 DEF KahnStep, a, m
  <2> QED BY <2>3, <2>10, <2>11
<1> QED BY <1>1, <1>2

\* A list is as long as it has members, and has all when it is as long as they are.
LEMMA ListedCount ==
  ASSUME IsFiniteSet(DOMAIN items), NEW s, Listed(s)
  PROVE  /\ Cardinality(ToSet(s)) = Len(s) /\ ToSet(s) \subseteq DOMAIN items
         /\ Len(s) = Cardinality(DOMAIN items) => ToSet(s) = DOMAIN items
<1>1. Len(s) \in Nat /\ DOMAIN s = 1..Len(s) /\ \A p \in 1..Len(s) : s[p] \in DOMAIN items
  BY LenProperties, ElementOfSeq DEF Listed
<1>2. IsFiniteSet(1..Len(s)) /\ Cardinality(1..Len(s)) = Len(s)
  <2>1. \A n \in Nat : IsFiniteSet(1..n) /\ Cardinality(1..n) = n
    BY FS_Interval
  <2> QED BY <1>1, <2>1
<1>3. ToSet(s) = {s[p] : p \in 1..Len(s)}
  BY <1>1 DEF ToSet
<1>4. s \in [1..Len(s) -> ToSet(s)]
  <2>1. s = [p \in DOMAIN s |-> s[p]]
    BY SeqDef DEF Listed
  <2> QED BY <1>1, <1>3, <2>1
<1>5. s \in Injection(1..Len(s), ToSet(s))
  BY <1>4, Fun_IsInj DEF Listed
<1>6. s \in Surjection(1..Len(s), ToSet(s))
  BY <1>3, <1>4, Fun_IsSurj
<1>7. Cardinality(ToSet(s)) = Len(s)
  BY <1>2, <1>5, <1>6, FS_Surjection
<1>8. ToSet(s) \in SUBSET DOMAIN items
  BY <1>1, <1>3
<1>9. Cardinality(DOMAIN items) = Cardinality(ToSet(s)) => DOMAIN items = ToSet(s)
  BY <1>8, FS_Subset
<1> QED BY <1>7, <1>8, <1>9

\* Kahn's rounds end with an empty frontier.
LEMMA KahnEnds ==
  ASSUME DOMAIN items \subseteq Nat, IsFiniteSet(DOMAIN items)
  PROVE  \E s : /\ Listed(s) /\ Frontier(s) = {}
                /\ TopoOrder = s \o Ascending(DOMAIN items \ ToSet(s))
<1> DEFINE N == Cardinality(DOMAIN items)
           T == {s \in Seq(DOMAIN items) : Listed(s)}
           step == [s \in T |-> KahnStep(s)]
<1>1. N \in Nat
  BY FS_CardinalityType
<1>2. <<>> \in T
  <2>1. <<>> \in Seq(DOMAIN items) /\ Len(<<>>) = 0
    BY EmptySeq
  <2> QED BY <2>1 DEF Listed
<1>3. step \in [T -> T]
  <2>1. ASSUME NEW s \in T PROVE KahnStep(s) \in T
    BY KahnKeeps
  <2> QED BY <2>1
<1>4. \A s \in T : step[s] = KahnStep(s)
  OBVIOUS
<1>5. T \subseteq Seq(DOMAIN items) /\ \A s \in T : Listed(s)
  OBVIOUS
<1> HIDE DEF N, T, step
<1>6. \E f \in [0..N -> T] : Rounds(f, <<>>, step, N)
  BY <1>1, <1>2, <1>3, RoundsExist
<1>7. ASSUME NEW f \in [0..N -> T], Rounds(f, <<>>, step, N)
      PROVE  Kahn(f)
  <2>1. ASSUME NEW k \in 0..N
        PROVE  f[k] = IF k = 0 THEN <<>> ELSE KahnStep(f[k - 1])
    <3>1. f[k] = IF k = 0 THEN <<>> ELSE step[f[k - 1]]
      BY <1>7 DEF Rounds
    <3>2. k # 0 => k - 1 \in 0..N
      BY <1>1
    <3> QED BY <1>4, <3>1, <3>2
  <2>2. f = [k \in 0..N |-> IF k = 0 THEN <<>> ELSE KahnStep(f[k - 1])]
    BY <2>1
  <2> QED BY <2>2 DEF Kahn, N
<1> DEFINE g == CHOOSE h : Kahn(h)
<1>8. Kahn(g)
  BY <1>6, <1>7
<1>9. TopoOrder = g[N] \o Ascending(DOMAIN items \ ToSet(g[N]))
  BY DEF TopoOrder, Kahn, KahnStep, Frontier, N
<1> HIDE DEF g
<1>10. g[0] = <<>> /\ \A k \in 1..N : g[k] = KahnStep(g[k - 1])
  <2>1. g = [k \in 0..N |-> IF k = 0 THEN <<>> ELSE KahnStep(g[k - 1])]
    BY <1>8 DEF Kahn, N
  <2>2. 0 \in 0..N /\ \A k \in 1..N : k \in 0..N /\ k # 0
    BY <1>1
  <2> QED BY <2>1, <2>2
<1> DEFINE P(k) == Listed(g[k]) /\ (Len(g[k]) = k \/ Frontier(g[k]) = {})
           S == {k \in Nat : k <= N => P(k)}
<1>11. 0 \in S
  <2>1. Listed(g[0]) /\ Len(g[0]) = 0
    BY <1>2, <1>5, <1>10, EmptySeq
  <2> QED BY <2>1
<1>12. ASSUME NEW k \in Nat, k \in S
       PROVE  k + 1 \in S
  <2> SUFFICES ASSUME k + 1 <= N PROVE P(k + 1)
    OBVIOUS
  <2>1. P(k) /\ k + 1 \in 1..N /\ (k + 1) - 1 = k
    BY <1>1, <1>12
  <2>2. g[k + 1] = KahnStep(g[k])
    BY <1>10, <2>1
  <2>3. /\ Listed(KahnStep(g[k]))
        /\ (Len(KahnStep(g[k])) = Len(g[k]) + 1 \/ (KahnStep(g[k]) = g[k] /\ Frontier(g[k]) = {}))
    BY <2>1, KahnKeeps
  <2>4. Frontier(g[k]) = {} => KahnStep(g[k]) = g[k]
    BY DEF KahnStep
  <2>5. CASE Frontier(g[k]) = {}
    BY <2>2, <2>3, <2>4, <2>5
  <2>6. CASE Frontier(g[k]) # {}
    <3>1. Len(g[k + 1]) = k + 1
      BY <2>1, <2>2, <2>3, <2>6
    <3> QED BY <2>2, <2>3, <3>1
  <2> QED BY <2>5, <2>6
<1>13. P(N)
  <2>1. N \in S
    <3> HIDE DEF S
    <3> QED BY <1>1, <1>11, <1>12, NatInduct
  <2> QED BY <1>1, <2>1
<1>14. Frontier(g[N]) = {}
  <2>1. CASE Len(g[N]) = N
    <3>1. ToSet(g[N]) = DOMAIN items
      BY <1>13, <2>1, ListedCount DEF N
    <3> QED BY <3>1 DEF Frontier
  <2> QED BY <1>13, <2>1
<1> QED BY <1>9, <1>13, <1>14

LEMMA ReachesSteps ==
  /\ \A i : Reaches(i, i)
  /\ \A i \in DOMAIN items : \A j \in items[i].deps : Reaches(i, j)
  /\ \A i, j, k : Reaches(i, j) => (Reaches(j, k) => Reaches(i, k))
<1>1. \A i : Reaches(i, i)
  BY DEF Reaches
<1>2. \A i \in DOMAIN items : \A j \in items[i].deps : Reaches(i, j)
  BY DEF Reaches, Closed, DependsOn
<1>3. \A i, j, k : Reaches(i, j) => (Reaches(j, k) => Reaches(i, k))
  BY DEF Reaches
<1> QED BY <1>1, <1>2, <1>3

Looped == {i \in DOMAIN items : DependsOn(i, i) \/
             \E j \in DOMAIN items : i # j /\ Reaches(i, j) /\ Reaches(j, i)}

\* What is left when nothing is free is on or behind a cycle: of what is left and
\* what one of them reaches, the one that reaches least still waits for another,
\* which reaches less, unless it reaches back.
LEMMA LeftIsHeldUp ==
  ASSUME IsFiniteSet(DOMAIN items), NEW s, Frontier(s) = {}, NEW i \in DOMAIN items \ ToSet(s)
  PROVE  \E j \in Looped : Reaches(i, j)
<1> DEFINE R == DOMAIN items \ ToSet(s)
           T == {j \in R : Reaches(i, j)}
           G(j) == {k \in DOMAIN items : Reaches(j, k)}
           C == {Cardinality(G(j)) : j \in T}
<1>1. SUFFICES ASSUME T \cap Looped = {} PROVE FALSE
  OBVIOUS
<1>2. \A j : G(j) \in SUBSET DOMAIN items
  OBVIOUS
<1>3. \A j : IsFiniteSet(G(j)) /\ Cardinality(G(j)) \in Nat
  <2> SUFFICES ASSUME NEW j PROVE IsFiniteSet(G(j)) /\ Cardinality(G(j)) \in Nat
    OBVIOUS
  <2>1. IsFiniteSet(G(j))
    BY <1>2, FS_Subset
  <2> HIDE DEF G
  <2> QED BY <2>1, FS_CardinalityType
<1>4. i \in T
  BY ReachesSteps
<1>5. PICK j \in T : \A k \in T : Cardinality(G(j)) <= Cardinality(G(k))
  <2> HIDE DEF T, G
  <2>1. C \in SUBSET Nat /\ C # {}
    BY <1>3, <1>4
  <2>2. PICK x \in C : \A y \in C : x <= y
    BY <2>1, LeastMember
  <2> QED BY <2>2
<1>6. PICK d \in items[j].deps \cap DOMAIN items : d \notin ToSet(s)
  BY DEF Frontier
<1>7. Reaches(j, d) /\ d \in T
  BY <1>5, <1>6, ReachesSteps
<1>8. d # j /\ ~Reaches(d, j)
  <2>1. j \in DOMAIN items /\ j \notin Looped
    BY <1>1
  <2> QED BY <1>6, <1>7, <2>1 DEF Looped, DependsOn
<1>9. G(d) \in SUBSET G(j) /\ j \in G(j) /\ j \notin G(d)
  BY <1>7, <1>8, ReachesSteps
<1> HIDE DEF T, G
<1>10. Cardinality(G(d)) <= Cardinality(G(j)) /\ Cardinality(G(d)) # Cardinality(G(j))
  BY <1>3, <1>9, FS_Subset
<1>11. Cardinality(G(j)) <= Cardinality(G(d))
  BY <1>5, <1>7
<1>12. Cardinality(G(j)) \in Nat /\ Cardinality(G(d)) \in Nat
  BY <1>3
<1> QED BY <1>10, <1>11, <1>12

LEMMA TopoHolds ==
  ASSUME DOMAIN items \subseteq Nat, IsFiniteSet(DOMAIN items)
  PROVE  TopoSound
<1> DEFINE D == DOMAIN items
<1>1. PICK s : /\ Listed(s) /\ Frontier(s) = {}
               /\ TopoOrder = s \o Ascending(D \ ToSet(s))
  BY KahnEnds
<1> DEFINE R == D \ ToSet(s)
           r == Ascending(R)
           m == Len(s)
           n == Len(r)
           order == TopoOrder
<1>2. s \in Seq(D) /\ m \in Nat /\ DOMAIN s = 1..m /\ ToSet(s) = {s[p] : p \in 1..m}
  <2>1. s \in Seq(D)
    BY <1>1 DEF Listed
  <2>2. m \in Nat /\ DOMAIN s = 1..m
    BY <2>1, LenProperties
  <2> QED BY <2>1, <2>2 DEF ToSet
<1>3. /\ Cardinality(ToSet(s)) = m /\ ToSet(s) \subseteq D
      /\ Cardinality(R) = Cardinality(D) - m
      /\ Cardinality(D) \in Nat /\ Cardinality(R) \in Nat
  <2>1. Cardinality(ToSet(s)) = m /\ ToSet(s) \subseteq D
    BY <1>1, ListedCount
  <2>2. D \cap ToSet(s) = ToSet(s)
    BY <2>1
  <2>3. IsFiniteSet(R) /\ Cardinality(R) = Cardinality(D) - Cardinality(D \cap ToSet(s))
    BY FS_Difference
  <2>4. Cardinality(D) \in Nat /\ Cardinality(R) \in Nat
    BY <2>3, FS_CardinalityType
  <2> QED BY <2>1, <2>2, <2>3, <2>4
<1>4. /\ r \in [1..Cardinality(R) -> R]
      /\ \A p, q \in 1..Cardinality(R) : r[p] = r[q] => p = q
      /\ \A x \in R : \E p \in 1..Cardinality(R) : r[p] = x
  <2>1. R \in SUBSET Nat /\ IsFiniteSet(R)
    BY FS_Subset
  <2> HIDE DEF R
  <2> QED BY <2>1, AscendingCorrect
<1> HIDE DEF D, r
<1>5. r \in Seq(R) /\ r \in Seq(D) /\ n = Cardinality(R)
  <2>1. ASSUME NEW k \in Nat, NEW f \in [1..k -> R]
        PROVE  f \in Seq(R) /\ f \in Seq(D) /\ Len(f) = k
    <3>1. f \in [1..k -> D]
      BY DEF R
    <3> QED BY <3>1, SeqDef
  <2> QED BY <1>3, <1>4, <2>1
<1> HIDE DEF R
<1>6. /\ Len(order) = m + n /\ order \in Seq(D)
      /\ \A p \in 1..(m + n) : order[p] = IF p <= m THEN s[p] ELSE r[p - m]
  BY <1>1, <1>2, <1>5, ConcatProperties DEF r, R
<1> HIDE DEF order, m, n
<1>7. m \in Nat /\ n \in Nat /\ m + n = Cardinality(D) /\ DOMAIN order = 1..(m + n)
  BY <1>2, <1>3, <1>5, <1>6, LenProperties
<1>8. \A p \in 1..m : p \in 1..(m + n) /\ order[p] = s[p]
  BY <1>6, <1>7
<1>9. \A p \in 1..n : m + p \in 1..(m + n) /\ order[m + p] = r[p]
  BY <1>6, <1>7
<1>10. \A p \in 1..(m + n) : p \in 1..m \/ \E q \in 1..n : p = m + q
  <2> SUFFICES ASSUME NEW p \in 1..(m + n), p \notin 1..m PROVE p - m \in 1..n /\ p = m + (p - m)
    OBVIOUS
  <2> QED BY <1>7
<1>11. \A p \in 1..m : \A q \in 1..n : s[p] # r[q]
  BY <1>2, <1>4, <1>5 DEF R
<1>12. \A p, q \in 1..(m + n) : order[p] = order[q] => p = q
  <2> SUFFICES ASSUME NEW p \in 1..(m + n), NEW q \in 1..(m + n), order[p] = order[q]
               PROVE  p = q
    OBVIOUS
  <2>1. CASE p \in 1..m /\ q \in 1..m
    BY <1>1, <1>8, <2>1 DEF Listed, m
  <2>2. CASE p \in 1..m /\ q \notin 1..m
    BY <1>8, <1>9, <1>10, <1>11, <2>2
  <2>3. CASE p \notin 1..m /\ q \in 1..m
    BY <1>8, <1>9, <1>10, <1>11, <2>3
  <2>4. CASE p \notin 1..m /\ q \notin 1..m
    <3>1. PICK x \in 1..n, y \in 1..n : p = m + x /\ q = m + y
      BY <1>10, <2>4
    <3>2. r[x] = r[y]
      BY <1>9, <3>1
    <3> QED BY <1>4, <1>5, <3>1, <3>2
  <2> QED BY <2>1, <2>2, <2>3, <2>4
<1>13. ToSet(order) = D
  <2>1. ToSet(order) = {order[p] : p \in 1..(m + n)}
    BY <1>7 DEF ToSet
  <2>2. \A p \in 1..(m + n) : order[p] \in D
    BY <1>6, ElementOfSeq
  <2>3. ASSUME NEW x \in D PROVE \E p \in 1..(m + n) : order[p] = x
    <3>1. CASE x \in ToSet(s)
      BY <1>2, <1>8, <3>1
    <3>2. CASE x \in R
      BY <1>4, <1>5, <1>9, <3>2
    <3> QED BY <3>1, <3>2 DEF R
  <2> QED BY <2>1, <2>2, <2>3
<1> DEFINE place(i) == CHOOSE k \in DOMAIN order : order[k] = i
           heldUp == {i \in D : \E j \in Looped : Reaches(i, j) \/ i = j}
<1>14. \A p \in 1..(m + n) : place(order[p]) = p
  BY <1>7, <1>12
<1>15. ASSUME NEW i \in D \ heldUp, NEW d \in items[i].deps \cap D
       PROVE  place(d) < place(i)
  <2>1. i \in ToSet(s)
    BY <1>1, LeftIsHeldUp DEF D
  <2>2. PICK p \in 1..m : s[p] = i
    BY <1>2, <2>1
  <2>3. PICK q \in 1..m : q < p /\ s[q] = d
    BY <1>1, <2>2 DEF Listed, m, D
  <2>4. place(i) = p /\ place(d) = q
    BY <1>8, <1>14, <2>2, <2>3
  <2> HIDE DEF place
  <2> QED BY <2>3, <2>4
<1> QED BY <1>6, <1>7, <1>13, <1>15 DEF TopoSound, Looped, D, order

\* TopoSort lists every segment once, and what no cycle holds up after all it
\* depends on (graph.go:443-502).
THEOREM TopoCorrect == Spec => []TopoSound
<1>1. IInv => TopoSound
  <2> SUFFICES ASSUME IInv PROVE TopoSound
    OBVIOUS
  <2>1. DOMAIN items \in SUBSET (1..MaxItems)
    BY DEF IInv, GraphOK, Graph, IDs
  <2>2. IsFiniteSet(DOMAIN items)
    <3>1. IsFiniteSet(1..MaxItems)
      BY GraphAssumption, FS_Interval
    <3> QED BY <2>1, <3>1, FS_Subset
  <2>3. DOMAIN items \subseteq Nat
    BY <2>1
  <2> QED BY <2>2, <2>3, TopoHolds
<1> QED BY <1>1, InitHolds, StepKeeps, PTL DEF Spec

\* The types hold for any segments, agents and files to start from; what an agent
\* is about to do, it does with a segment that is there (graph.go:126-177).
THEOREM GraphTypeCorrect == Spec => []TypeOK
<1> DEFINE Ranges == savePC \in {"idle", "create", "write", "rename"} /\ up \in BOOLEAN
<1>1. Init => IInv /\ Stopped /\ Ranges
  BY InitHolds DEF Init, Stopped, OutdatedStops
<1>2. Ranges /\ [Next]_vars => Ranges'
  BY DEF Next, Edit, Add, AddGiven, FillDraft, UpdateStatus, Reorder, Cascade, AgentStep, Pick, Claim, Start,
         Complete, SaveStep, SaveCopy, SaveCreate, SaveWrite, SaveRename, EndSave, End, Boot,
         vars, saveVars
<1>3. IInv /\ Stopped /\ Ranges => TypeOK
  <2> SUFFICES ASSUME IInv, Stopped, Ranges PROVE TypeOK
    OBVIOUS
  <2> QED BY DEF IInv, GraphOK, Graph, AgentsOK, Stopped, TypeOK
<1>4. IInv /\ Stopped /\ [Next]_vars => IInv' /\ Stopped'
  BY StepKeeps, StoppedKeeps
<1> QED BY <1>1, <1>2, <1>3, <1>4, PTL DEF Spec
=============================================================================
