------------------------- MODULE ConfigStoreProofs --------------------------
(***************************************************************************)
(* Theorems about ConfigStore, for any requests, settings and restarts.    *)
(***************************************************************************)
EXTENDS ConfigStore, TLAPS

\* What the assumptions say of the settings.
LEMMA Settings ==
    /\ Cached \subseteq Setting
    /\ Len(Order) \in Nat
    /\ DOMAIN Order = 1 .. Len(Order)
    /\ \A i \in 1 .. Len(Order) : Order[i] \in Setting
    /\ \A s \in Setting : \E i \in 1 .. Len(Order) : s = Order[i]
<1>1. Edits["import"] \subseteq Setting
  BY StoreAssumption DEF Kinds
<1>2. Cached \subseteq Setting
  BY <1>1 DEF Edits, Cached
<1>3. Order \in Seq(STRING)
  BY StoreAssumption
<1>4. Len(Order) \in Nat /\ DOMAIN Order = 1 .. Len(Order)
  BY <1>3
<1> QED BY <1>2, <1>4 DEF Setting, Range

LEMMA KindsTyped ==
    ASSUME kind \in Traffic
    PROVE  \A r \in Request : kind[r] \in Kinds /\ Edits[kind[r]] \subseteq Setting
BY StoreAssumption

\* Every variable keeps its type.
THEOREM TypeCorrect == Spec => []TypeOK
<1>1. Init => TypeOK
  <2> SUFFICES ASSUME Init PROVE TypeOK
    OBVIOUS
  <2>1. /\ memory \in [Setting -> Value] /\ file \in [Setting -> Value]
        /\ NoDump \in [Setting -> Value]
    BY DEF Init, NoDump, Value
  <2>2. cached \in [Cached -> Value]
    BY DEF Init, Value
  <2>3. buffer \in [Request -> [Setting -> Value]]
    BY <2>1 DEF Init
  <2>4. left \in [Request -> 0 .. 2]
    BY DEF Init, Saves
  <2>5. todo \in [Request -> 0 .. Len(Order)]
    BY Settings DEF Init
  <2>6. /\ pc \in [Request -> Stages] /\ mixed \in [Request -> BOOLEAN]
        /\ outcome \in [Request -> Outcomes] /\ updated \in [Request -> BOOLEAN]
        /\ edited \in [Request -> 0 .. MaxRestarts] /\ life \in 0 .. MaxRestarts
    BY StoreAssumption DEF Init, Stages, Outcomes
  <2> QED BY <2>1, <2>2, <2>3, <2>4, <2>5, <2>6 DEF Init, TypeOK
<1>2. TypeOK /\ [Next]_vars => TypeOK'
  <2> SUFFICES ASSUME TypeOK, [Next]_vars PROVE TypeOK'
    OBVIOUS
  <2> USE DEF TypeOK, Stages, Outcomes
  <2>1. ASSUME NEW r \in Request, CheckPassword(r) PROVE TypeOK'
    BY <2>1 DEF CheckPassword
  <2>2. ASSUME NEW r \in Request, Edit(r) PROVE TypeOK'
    <3>1. memory' \in [Setting -> Value]
      BY <2>2 DEF Edit, Value
    <3>2. edited' \in [Request -> 0 .. MaxRestarts]
      BY <2>2 DEF Edit
    <3> QED BY <2>2, <3>1, <3>2 DEF Edit
  <2>3. ASSUME NEW r \in Request, RefuseField(r) PROVE TypeOK'
    BY <2>3 DEF RefuseField
  <2>4. ASSUME NEW r \in Request, Open(r) PROVE TypeOK'
    <3>1. todo' \in [Request -> 0 .. Len(Order)] /\ mixed' \in [Request -> BOOLEAN]
      BY <2>4, Settings DEF Open, Mix
    <3> QED BY <2>4, <3>1 DEF Open
  <2>5. ASSUME NEW r \in Request, OpenFails(r) PROVE TypeOK'
    BY <2>5 DEF OpenFails
  <2>6. ASSUME NEW r \in Request, Dump(r) PROVE TypeOK'
    <3> DEFINE s == Order[Len(Order) + 1 - todo[r]]
    <3>1. todo[r] \in 0 .. Len(Order) /\ todo[r] > 0
      BY <2>6 DEF Dump
    <3>2. todo[r] - 1 \in 0 .. Len(Order) /\ Len(Order) + 1 - todo[r] \in 1 .. Len(Order)
      BY <3>1, Settings
    <3>3. memory[s] \in Value
      BY <3>2, Settings
    <3>4. buffer' = [buffer EXCEPT ![r][s] = memory[s]]
      BY <2>6 DEF Dump
    <3>5. buffer' \in [Request -> [Setting -> Value]]
      BY <3>3, <3>4
    <3>6. todo' \in [Request -> 0 .. Len(Order)]
      BY <2>6, <3>2 DEF Dump
    <3> QED BY <2>6, <3>5, <3>6 DEF Dump
  <2>7. ASSUME NEW r \in Request, Close(r) PROVE TypeOK'
    <3>1. buffer' \in [Request -> [Setting -> Value]]
      BY <2>7 DEF Close, NoDump, Value
    <3>2. mixed' \in [Request -> BOOLEAN]
      BY <2>7 DEF Close, Mix
    <3>3. /\ pc' = [pc EXCEPT ![r] = "ended"] /\ pc[r] = "dumping" /\ up
          /\ outcome' = [outcome EXCEPT ![r] = "saved"] /\ harmed' = FALSE
          /\ UNCHANGED <<kind, memory, cached, todo, left, updated, edited, life, up>>
      BY <2>7 DEF Close, Saving
    <3>4. file' \in [Setting -> Value] \cup {Empty, Torn}
      BY <2>7 DEF Close
    <3> QED BY <3>1, <3>2, <3>3, <3>4
  <2>8. ASSUME NEW r \in Request, DumpFails(r) PROVE TypeOK'
    <3>1. buffer' \in [Request -> [Setting -> Value]]
      BY <2>8 DEF DumpFails, NoDump, Value
    <3>2. mixed' \in [Request -> BOOLEAN] /\ todo' \in [Request -> 0 .. Len(Order)]
      BY <2>8, Settings DEF DumpFails, Mix
    <3> QED BY <2>8, <3>1, <3>2 DEF DumpFails, Saving
  <2>9. ASSUME NEW r \in Request, AfterSave(r) PROVE TypeOK'
    <3>1. cached' \in [Cached -> Value] /\ updated' \in [Request -> BOOLEAN]
      BY <2>9, Settings DEF AfterSave, LiveUpdate, LiveUpdateFails, AfterReload
    <3>2. left' = [left EXCEPT ![r] = left[r] - 1]
      BY <2>9 DEF AfterSave
    <3>3. left' \in [Request -> 0 .. 2]
      BY <2>9, <3>2 DEF AfterSave
    <3>4. pc' \in [Request -> Stages]
          /\ \A q \in Request : pc'[q] \in {"dumping", "ended"} => left'[q] > 0
      BY <2>9, <3>2 DEF AfterSave
    <3>5. UNCHANGED <<kind, memory, file, todo, buffer, mixed, outcome, harmed, edited,
                      life, up>> /\ up
      BY <2>9 DEF AfterSave
    <3> QED BY <3>1, <3>3, <3>4, <3>5
  <2>10. CASE Crash
    <3>1. buffer' \in [Request -> [Setting -> Value]]
      BY <2>10 DEF Crash, NoDump, Value
    <3>2. todo' \in [Request -> 0 .. Len(Order)]
      BY <2>10, Settings DEF Crash
    <3>3. /\ pc' \in [Request -> Stages]
          /\ \A q \in Request : pc'[q] \in {"new", "done"}
          /\ outcome' \in [Request -> Outcomes]
      BY <2>10 DEF Crash
    <3>4. file' \in [Setting -> Value] \cup {Empty, Torn} /\ harmed' \in BOOLEAN
      BY <2>10 DEF Crash
    <3>5. UNCHANGED <<kind, memory, cached, mixed, left, updated, edited, life>>
          /\ up' = FALSE
      BY <2>10 DEF Crash
    <3> QED BY <3>1, <3>2, <3>3, <3>4, <3>5
  <2>11. CASE Restart
    <3>1. cached' \in [Cached -> Value] /\ memory' \in [Setting -> Value]
      BY <2>11, Settings DEF Restart
    <3>2. life' \in 0 .. MaxRestarts
      BY <2>11, StoreAssumption DEF Restart
    <3> QED BY <2>11, <3>1, <3>2 DEF Restart
  <2>12. CASE UNCHANGED vars
    BY <2>12 DEF vars
  <2> QED
    BY <2>1, <2>2, <2>3, <2>4, <2>5, <2>6, <2>7, <2>8, <2>9, <2>10, <2>11, <2>12
       DEF Next
<1> QED
  BY <1>1, <1>2, PTL DEF Spec

-----------------------------------------------------------------------------
(* The file.                                                                 *)

LEMMA MixGrows ==
    ASSUME TypeOK, NEW r \in Request, mixed' = Mix(r)
    PROVE  Overlapped => Overlapped'
BY DEF Overlapped, Mix, TypeOK

LEMMA IncompleteStep == TypeOK /\ IncompleteIsExplained /\ [Next]_vars => IncompleteIsExplained'
<1> SUFFICES ASSUME TypeOK, IncompleteIsExplained, [Next]_vars
             PROVE  IncompleteIsExplained'
  OBVIOUS
<1> USE DEF IncompleteIsExplained, Complete, Saving
<1>t. pc \in [Request -> Stages] /\ buffer \in [Request -> [Setting -> Value]]
      /\ mixed \in [Request -> BOOLEAN]
  BY DEF TypeOK
<1>1. ASSUME NEW r \in Request, Open(r) PROVE IncompleteIsExplained'
  <2>1. pc'[r] = "dumping"
    BY <1>1, <1>t DEF Open
  <2> QED BY <2>1
<1>2. ASSUME NEW r \in Request, Close(r) PROVE IncompleteIsExplained'
  <2>1. file' = buffer[r] \/ mixed[r]
    BY <1>2 DEF Close
  <2>2. mixed[r] => Overlapped'
    BY <1>2, MixGrows DEF Close, Overlapped
  <2> QED BY <1>t, <2>1, <2>2
<1>3. ASSUME NEW r \in Request, DumpFails(r) PROVE IncompleteIsExplained'
  BY <1>3 DEF DumpFails
<1>4. ASSUME NEW r \in Request,
             \/ CheckPassword(r) \/ Edit(r) \/ RefuseField(r) \/ OpenFails(r)
             \/ Dump(r) \/ AfterSave(r)
      PROVE  IncompleteIsExplained'
  <2>1. UNCHANGED <<file, mixed, harmed>>
    BY <1>4 DEF CheckPassword, Edit, RefuseField, OpenFails, Dump, AfterSave
  <2>2. \A q \in Request : pc[q] = "dumping" => pc'[q] = "dumping"
    BY <1>4, <1>t DEF CheckPassword, Edit, RefuseField, OpenFails, Dump, AfterSave
  <2> QED BY <2>1, <2>2 DEF Overlapped
<1>5. CASE Crash
  <2>1. harmed' = (harmed \/ \E r \in Request : pc[r] = "dumping") /\ UNCHANGED mixed
    BY <1>5 DEF Crash
  <2>2. file' = file \/ harmed'
    BY <1>5 DEF Crash
  <2> QED BY <2>1, <2>2 DEF Overlapped
<1>6. CASE Restart
  BY <1>6 DEF Restart
<1>7. CASE UNCHANGED vars
  BY <1>7 DEF vars, Overlapped
<1> QED
  BY <1>1, <1>2, <1>3, <1>4, <1>5, <1>6, <1>7 DEF Next

\* The file holds no complete dump only during a save, after one that broke off, or after two
\* that overlapped.
THEOREM FileExplained == Spec => []IncompleteIsExplained
<1>1. Init => IncompleteIsExplained
  BY DEF Init, IncompleteIsExplained, Complete, Value
<1> QED
  BY <1>1, IncompleteStep, TypeCorrect, PTL DEF Spec

\* A request that has not edited memory has saved nothing and updated nothing.
Fresh ==
    \A r \in Request :
        pc[r] \in {"new", "checked"} => outcome[r] = "none" /\ ~updated[r]

\* A setting may differ from a dump, or from the file, because its author has not
\* completed a save.
Unsaved(s) == memory[s] \in Request /\ outcome[memory[s]] # "saved"

\* As long as no two saves overlapped there is one at a time, and what it has dumped
\* so far is what the memory holds, except for what others have written since.
DumpFollows ==
    ~Overlapped =>
        /\ \A q, r \in Request : Saving(q) /\ Saving(r) => q = r
        /\ \A r \in Request : Saving(r) =>
              \A i \in 1 .. (Len(Order) - todo[r]) :
                  \/ buffer[r][Order[i]] = memory[Order[i]]
                  \/ Unsaved(Order[i]) /\ memory[Order[i]] # r
        /\ FileFollowsMemory

LEMMA FreshStep == TypeOK /\ Fresh /\ [Next]_vars => Fresh'
<1> SUFFICES ASSUME TypeOK, Fresh, [Next]_vars PROVE Fresh'
  OBVIOUS
<1> USE DEF Fresh
<1>t. /\ pc \in [Request -> Stages] /\ outcome \in [Request -> Outcomes]
      /\ updated \in [Request -> BOOLEAN]
  BY DEF TypeOK
<1>1. ASSUME NEW r \in Request,
             CheckPassword(r) \/ Edit(r) \/ RefuseField(r) \/ Open(r) \/ OpenFails(r)
      PROVE  Fresh'
  BY <1>1, <1>t DEF CheckPassword, Edit, RefuseField, Open, OpenFails
<1>2. ASSUME NEW r \in Request, Dump(r) \/ Close(r) \/ DumpFails(r) PROVE Fresh'
  BY <1>2, <1>t DEF Dump, Close, DumpFails, Saving
<1>3. ASSUME NEW r \in Request, AfterSave(r) PROVE Fresh'
  <2>1. /\ pc'[r] \notin {"new", "checked"} /\ UNCHANGED outcome
        /\ \A q \in Request \ {r} : pc'[q] = pc[q] /\ updated'[q] = updated[q]
    BY <1>3, <1>t DEF AfterSave
  <2> QED BY <2>1
<1>4. CASE Crash
  <2>1. \A r \in Request : pc'[r] \in {"new", "checked"} => pc[r] = "new"
    BY <1>4 DEF Crash
  <2>2. \A r \in Request : pc[r] = "new" => outcome'[r] = outcome[r]
    BY <1>4 DEF Crash, Saving
  <2> QED BY <1>4, <2>1, <2>2 DEF Crash
<1>5. CASE Restart \/ UNCHANGED vars
  BY <1>5 DEF Restart, vars
<1> QED
  BY <1>1, <1>2, <1>3, <1>4, <1>5 DEF Next

LEMMA DumpFollowsStep ==
    TypeOK /\ Fresh /\ DumpFollows /\ [Next]_vars => DumpFollows'
<1> SUFFICES ASSUME TypeOK, Fresh, DumpFollows, [Next]_vars, ~Overlapped'
             PROVE  DumpFollows'
  BY DEF DumpFollows
<1>t. /\ pc \in [Request -> Stages] /\ outcome \in [Request -> Outcomes]
      /\ buffer \in [Request -> [Setting -> Value]]
      /\ todo \in [Request -> 0 .. Len(Order)]
      /\ memory \in [Setting -> Value] /\ Shipped \notin Request
  BY StoreAssumption DEF TypeOK
<1>m. ASSUME NEW r \in Request, mixed' = Mix(r)
      PROVE  ~Overlapped /\ Others(r) = {} /\ ~mixed[r]
  BY <1>m DEF Mix, Overlapped, TypeOK
<1>1. ASSUME NEW r \in Request, Edit(r) PROVE DumpFollows'
  <2>1. ~Overlapped /\ UNCHANGED <<file, buffer, todo, outcome, mixed>>
    BY <1>1 DEF Edit, Overlapped
  <2>2. \A q \in Request : Saving(q)' <=> Saving(q) /\ q # r
    BY <1>1, <1>t DEF Edit, Saving
  <2>3. outcome[r] = "none"
    BY <1>1 DEF Edit, Fresh
  <2>4. \A s \in Setting : memory'[s] = memory[s] \/ memory'[s] = r
    BY <1>1 DEF Edit
  <2>5. FileFollowsMemory'
    BY <2>1, <2>3, <2>4 DEF DumpFollows, FileFollowsMemory, Complete, Overlapped
  <2>6. ASSUME NEW q \in Request, Saving(q)', NEW i \in 1 .. (Len(Order) - todo'[q])
        PROVE  \/ buffer'[q][Order[i]] = memory'[Order[i]]
               \/ Unsaved(Order[i])' /\ memory'[Order[i]] # q
    <3>1. i \in 1 .. (Len(Order) - todo[q]) /\ i \in 1 .. Len(Order)
      BY <1>t, <2>1, Settings
    <3>2. \/ buffer[q][Order[i]] = memory[Order[i]]
          \/ Unsaved(Order[i]) /\ memory[Order[i]] # q
      BY <2>1, <2>2, <2>6, <3>1 DEF DumpFollows
    <3>3. Order[i] \in Setting
      BY <3>1, Settings
    <3> QED BY <2>1, <2>2, <2>3, <2>4, <2>6, <3>2, <3>3 DEF Unsaved
  <2> QED BY <2>1, <2>2, <2>5, <2>6 DEF DumpFollows
<1>2. ASSUME NEW r \in Request, Open(r) PROVE DumpFollows'
  <2>1. ~Overlapped /\ Others(r) = {}
    BY <1>2, <1>m DEF Open
  <2>2. file' = Empty /\ todo'[r] = Len(Order) /\ pc' = [pc EXCEPT ![r] = "dumping"]
    BY <1>2, <1>t DEF Open
  <2>3. FileFollowsMemory'
    BY <2>2, StoreAssumption DEF FileFollowsMemory, Complete
  <2>4. \A q \in Request : Saving(q)' => q = r
    BY <1>t, <2>1, <2>2 DEF Others, Saving
  <2>5. 1 .. (Len(Order) - todo'[r]) = {}
    BY <2>2, Settings
  <2> QED BY <2>3, <2>4, <2>5 DEF DumpFollows
<1>3. ASSUME NEW r \in Request, Dump(r) PROVE DumpFollows'
  <2> DEFINE k == Len(Order) + 1 - todo[r]
  <2>1. ~Overlapped /\ UNCHANGED <<file, memory, outcome, mixed, pc>> /\ Saving(r)
    BY <1>3 DEF Dump, Overlapped
  <2>2. k \in 1 .. Len(Order) /\ todo[r] \in Nat /\ Len(Order) \in Nat
    BY <1>3, <1>t, Settings DEF Dump
  <2>3. /\ buffer'[r] = [buffer[r] EXCEPT ![Order[k]] = memory[Order[k]]]
        /\ todo'[r] = todo[r] - 1
        /\ buffer[r] \in [Setting -> Value] /\ Order[k] \in Setting
    BY <1>3, <1>t, <2>2, Settings DEF Dump
  <2>4. \A q \in Request : Saving(q)' => Saving(q) /\ q = r
    BY <2>1 DEF DumpFollows, Saving
  <2>5. FileFollowsMemory'
    BY <2>1 DEF DumpFollows, FileFollowsMemory, Complete, Overlapped
  <2>6. ASSUME NEW i \in 1 .. (Len(Order) - todo'[r])
        PROVE  \/ buffer'[r][Order[i]] = memory'[Order[i]]
               \/ Unsaved(Order[i])' /\ memory'[Order[i]] # r
    <3>1. i \in 1 .. Len(Order) /\ Order[i] \in Setting
      BY <1>t, <2>2, <2>3, Settings
    <3>2. CASE Order[i] = Order[k]
      BY <2>1, <2>3, <3>2
    <3>3. CASE Order[i] # Order[k]
      <4>1. i \in 1 .. (Len(Order) - todo[r])
        BY <2>2, <2>3, <3>1, <3>3
      <4>2. buffer'[r][Order[i]] = buffer[r][Order[i]]
        BY <2>3, <3>1, <3>3
      <4> QED BY <2>1, <4>1, <4>2 DEF DumpFollows, Unsaved
    <3> QED BY <3>2, <3>3
  <2> QED BY <2>4, <2>5, <2>6 DEF DumpFollows
<1>4. ASSUME NEW r \in Request, Close(r) PROVE DumpFollows'
  <2>1. ~Overlapped /\ Others(r) = {} /\ ~mixed[r]
    BY <1>4, <1>m DEF Close
  <2>2. /\ file' = buffer[r] /\ outcome' = [outcome EXCEPT ![r] = "saved"]
        /\ pc' = [pc EXCEPT ![r] = "ended"] /\ todo[r] = 0 /\ UNCHANGED memory
        /\ Saving(r)
    BY <1>4, <2>1 DEF Close
  <2>3. \A q \in Request : ~Saving(q)'
    BY <1>t, <2>1, <2>2 DEF Others, Saving
  <2>4. ASSUME NEW s \in Setting
        PROVE  file'[s] = memory'[s] \/ Unsaved(s)'
    <3>1. PICK i \in 1 .. Len(Order) : s = Order[i]
      BY Settings
    <3>2. i \in 1 .. (Len(Order) - todo[r])
      BY <2>2, <3>1, Settings
    <3>3. buffer[r][s] = memory[s] \/ (Unsaved(s) /\ memory[s] # r)
      BY <2>1, <2>2, <3>1, <3>2 DEF DumpFollows
    <3> QED BY <1>t, <2>2, <3>3 DEF Unsaved
  <2>5. FileFollowsMemory'
    BY <2>4 DEF FileFollowsMemory, Unsaved
  <2> QED BY <2>3, <2>5 DEF DumpFollows
<1>5. ASSUME NEW r \in Request, DumpFails(r) PROVE DumpFollows'
  <2>1. ~Overlapped /\ Others(r) = {}
    BY <1>5, <1>m DEF DumpFails
  <2>2. file' \in {Empty, Torn} /\ pc' = [pc EXCEPT ![r] = "ended"]
    BY <1>5 DEF DumpFails
  <2>3. FileFollowsMemory'
    BY <2>2, StoreAssumption DEF FileFollowsMemory, Complete
  <2>4. \A q \in Request : ~Saving(q)'
    BY <1>t, <2>1, <2>2 DEF Others, Saving
  <2> QED BY <2>3, <2>4 DEF DumpFollows
<1>6. ASSUME NEW r \in Request,
             CheckPassword(r) \/ RefuseField(r) \/ OpenFails(r) \/ AfterSave(r)
      PROVE  DumpFollows'
  <2>1. ~Overlapped /\ UNCHANGED <<file, memory, buffer, todo, mixed>>
    BY <1>6 DEF CheckPassword, RefuseField, OpenFails, AfterSave, Overlapped
  <2>2. \A q \in Request : Saving(q)' => Saving(q)
    BY <1>6, <1>t DEF CheckPassword, RefuseField, OpenFails, AfterSave, Saving
  <2>3. \A q \in Request : outcome'[q] = "saved" => outcome[q] = "saved"
    BY <1>6, <1>t DEF CheckPassword, RefuseField, OpenFails, AfterSave
  <2>4. FileFollowsMemory'
    BY <2>1, <2>3 DEF DumpFollows, FileFollowsMemory, Complete, Overlapped
  <2>5. ASSUME NEW q \in Request, Saving(q)', NEW i \in 1 .. (Len(Order) - todo'[q])
        PROVE  \/ buffer'[q][Order[i]] = memory'[Order[i]]
               \/ Unsaved(Order[i])' /\ memory'[Order[i]] # q
    BY <2>1, <2>2, <2>3, <2>5 DEF DumpFollows, Unsaved
  <2> QED BY <2>1, <2>2, <2>4, <2>5 DEF DumpFollows
<1>7. CASE Crash
  <2>1. ~Overlapped /\ UNCHANGED memory /\ file' \in {file, Torn}
    BY <1>7 DEF Crash, Overlapped
  <2>2. \A q \in Request : ~Saving(q)'
    BY <1>7 DEF Crash, Saving
  <2>3. \A q \in Request : outcome'[q] = "saved" => outcome[q] = "saved"
    BY <1>7 DEF Crash
  <2>4. FileFollowsMemory'
    BY <2>1, <2>3, StoreAssumption DEF DumpFollows, FileFollowsMemory, Complete
  <2> QED BY <2>2, <2>4 DEF DumpFollows
<1>8. CASE Restart
  <2>1. ~Overlapped /\ UNCHANGED <<file, buffer, todo, outcome, pc, mixed>>
        /\ memory' = file /\ file \in [Setting -> Value]
    BY <1>8 DEF Restart, Overlapped
  <2>2. FileFollowsMemory'
    BY <2>1 DEF FileFollowsMemory
  <2>3. \A q \in Request : ~Saving(q)'
    BY <1>8, <2>1 DEF Restart, Saving, TypeOK
  <2> QED BY <2>2, <2>3 DEF DumpFollows
<1>9. CASE UNCHANGED vars
  BY <1>9 DEF vars, DumpFollows, FileFollowsMemory, Complete, Overlapped, Saving, Unsaved
<1> QED
  BY <1>1, <1>2, <1>3, <1>4, <1>5, <1>6, <1>7, <1>8, <1>9 DEF Next

\* What the process runs on is what a restart would bring back, unless the author of
\* the value has not completed a save or two saves overlapped.
THEOREM FileCorrect == Spec => []FileFollowsMemory
<1>1. Init => Fresh /\ DumpFollows
  BY DEF Init, Fresh, DumpFollows, Saving, FileFollowsMemory
<1>2. DumpFollows => FileFollowsMemory
  BY DEF DumpFollows, FileFollowsMemory
<1> QED
  BY <1>1, <1>2, FreshStep, DumpFollowsStep, TypeCorrect, PTL DEF Spec

-----------------------------------------------------------------------------
(* The copies.                                                               *)

LEMMA CopiesStep ==
    TypeOK /\ Fresh /\ StaleCopyIsExplained /\ [Next]_vars => StaleCopyIsExplained'
<1> SUFFICES ASSUME TypeOK, Fresh, StaleCopyIsExplained, [Next]_vars
             PROVE  StaleCopyIsExplained'
  OBVIOUS
<1> USE DEF StaleCopyIsExplained
<1>t. /\ Cached \subseteq Setting /\ updated \in [Request -> BOOLEAN]
      /\ edited \in [Request -> 0 .. MaxRestarts]
  BY Settings DEF TypeOK
<1>1. ASSUME NEW r \in Request, Edit(r) PROVE StaleCopyIsExplained'
  <2>1. /\ edited' = [edited EXCEPT ![r] = life]
        /\ UNCHANGED <<kind, cached, updated, life, up>> /\ ~updated[r] /\ up
    BY <1>1 DEF Edit, Fresh
  <2>2. \A c \in Cached : memory'[c] = memory[c] \/ memory'[c] = r
    BY <1>1, <1>t DEF Edit
  <2> QED BY <1>t, <2>1, <2>2
<1>2. ASSUME NEW r \in Request, AfterSave(r) PROVE StaleCopyIsExplained'
  <2>1. UNCHANGED <<kind, memory, edited, life, up>>
    BY <1>2 DEF AfterSave
  <2>2. CASE UNCHANGED updated /\ cached' \in {cached, AfterReload(r)}
    BY <1>t, <2>1, <2>2 DEF AfterReload
  <2>3. CASE LiveUpdate(r) /\ updated' = [updated EXCEPT ![r] = TRUE]
    BY <1>t, <2>1, <2>3 DEF LiveUpdate, AfterReload
  <2> QED BY <1>2, <2>2, <2>3 DEF AfterSave, LiveUpdateFails
<1>3. ASSUME NEW r \in Request,
             \/ CheckPassword(r) \/ RefuseField(r) \/ Open(r) \/ OpenFails(r)
             \/ Dump(r) \/ Close(r) \/ DumpFails(r)
      PROVE  StaleCopyIsExplained'
  <2>1. UNCHANGED <<kind, memory, cached, updated, edited, life, up>>
    BY <1>3 DEF CheckPassword, RefuseField, Open, OpenFails, Dump, Close, DumpFails
  <2> QED BY <2>1
<1>4. CASE Crash
  BY <1>4 DEF Crash
<1>5. CASE Restart
  BY <1>5 DEF Restart
<1>6. CASE UNCHANGED vars
  BY <1>6 DEF vars
<1> QED
  BY <1>1, <1>2, <1>3, <1>4, <1>5, <1>6 DEF Next

\* A component's copy is stale only for a value written in this life of the process
\* whose own live update does not reload it, was not made or failed.
THEOREM CopiesCorrect == Spec => []StaleCopyIsExplained
<1>1. Init => Fresh /\ StaleCopyIsExplained
  BY Settings DEF Init, Fresh, StaleCopyIsExplained
<1> QED
  BY <1>1, FreshStep, CopiesStep, TypeCorrect, PTL DEF Spec
=============================================================================
