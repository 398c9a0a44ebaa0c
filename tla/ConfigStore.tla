---------------------------- MODULE ConfigStore ----------------------------
(***************************************************************************)
(* The configuration of an OpenHop repeater: one dictionary shared by the  *)
(* web endpoints, the mesh CLI and the running daemon, one YAML file, and  *)
(* the values some components keep from when they were built.  A request   *)
(* edits the dictionary first and saves it afterwards; save_to_file        *)
(* truncates the file and then dumps the dictionary into it, without a     *)
(* lock, so that requests of several server threads interleave at every    *)
(* step, a save may fail before or after the truncation, and the process   *)
(* may die in the middle of it.                                            *)
(*                                                                         *)
(* A value of a setting is the request that wrote it, or Shipped.          *)
(***************************************************************************)
EXTENDS Naturals, Sequences, FiniteSets, Functions

CONSTANTS
    Request,    \* the requests of one behaviour
    Traffic,    \* bound: the kinds those requests may be of
    Order,      \* the settings in the order in which the YAML writer meets them
    Shipped,    \* the value of a setting no request has written yet
    Empty,      \* the file after it was truncated
    Torn,       \* parts of a dump, or of several: unreadable, or a smaller dictionary
    MaxRestarts \* bound: the restarts of one behaviour

Kinds   == {"duty", "advert", "import", "radio", "quick", "password", "cli"}
Setting == Range(Order)
Value   == Request \cup {Shipped}

\* The settings a request of each kind writes before it saves anything.
Edits == [duty     |-> {"limit"},       advert |-> {"rate"},
          import   |-> {"limit", "rate"}, radio |-> {"power"},
          quick    |-> {"enforcement"}, cli    |-> {"cliPassword"},
          password |-> {"password"}]

\* The settings of which a component keeps a copy: AirtimeManager the limit,
\* the advert helper the rate.  The others are read when they are used.
Cached == {"limit", "rate"}

ASSUME StoreAssumption ==
    /\ Traffic \subseteq [Request -> Kinds]
    /\ Order \in Seq(STRING)
    /\ \A k \in Kinds : Edits[k] \subseteq Setting
    /\ Shipped \notin Request
    /\ {Empty, Torn} \cap [Setting -> Value] = {}
    /\ Empty # Torn
    /\ MaxRestarts \in Nat

VARIABLES
    kind,       \* what each request is
    memory,     \* self.config, the dictionary everyone shares
    file,       \* config.yaml
    cached,     \* the copies of the components
    pc,         \* where each request is
    todo,       \* how many settings its dump has still to write
    buffer,     \* what its dump has written
    mixed,      \* another save opened or closed the file during its dump
    outcome,    \* how its last save ended
    harmed,     \* a save broke off after the truncation, and none was completed since
    left,       \* the saves it has still to make
    updated,    \* whether its live update came through
    edited,     \* the life of the process in which it edited memory
    life,       \* restarts so far
    up          \* the process is running

vars == <<kind, memory, file, cached, pc, todo, buffer, mixed, outcome, harmed, left,
          updated, edited, life, up>>

Stages   == {"new", "checked", "edited", "dumping", "ended", "done"}
Outcomes == {"none", "saved", "failed"}

\* The import endpoint saves through update_and_save and then once more; the
\* quick controls save nothing, and the quoted part of update_radio_config ends
\* at a bad field.
Saves(k) == CASE k = "import" -> 2 [] k \in {"quick", "radio"} -> 0 [] OTHER -> 1

NoDump == [s \in Setting |-> Shipped]

Init ==
    /\ kind \in Traffic
    /\ memory = [s \in Setting |-> Shipped]
    /\ file = memory
    /\ cached = [c \in Cached |-> Shipped]
    /\ pc = [r \in Request |-> "new"]
    /\ todo = [r \in Request |-> 0]
    /\ buffer = [r \in Request |-> NoDump]
    /\ mixed = [r \in Request |-> FALSE]
    /\ outcome = [r \in Request |-> "none"]
    /\ harmed = FALSE
    /\ left = [r \in Request |-> Saves(kind[r])]
    /\ updated = [r \in Request |-> FALSE]
    /\ edited = [r \in Request |-> 0]
    /\ life = 0
    /\ up = TRUE

Saving(r) == pc[r] = "dumping"
Others(r) == {q \in Request \ {r} : Saving(q)}

\* Another thread's truncation or write changes the file under those that save.
Mix(r) == [q \in Request |-> mixed[q] \/ q \in Others(r) \/ (q = r /\ Others(r) # {})]

-----------------------------------------------------------------------------
(* The endpoints up to their first save *)

\* change_password compares the password it was given with the running one; a
\* wrong one is answered 401 and changes nothing.  Without a config manager it
\* edits and then answers 500, as after a save that could not open the file.
CheckPassword(r) ==
    /\ up
    /\ pc[r] = "new"
    /\ kind[r] = "password"
    /\ \E correct \in BOOLEAN :
          pc' = [pc EXCEPT ![r] = IF correct THEN "checked" ELSE "done"]
    /\ UNCHANGED <<kind, memory, file, cached, todo, buffer, mixed, outcome, harmed, left,
                   updated, edited, life, up>>

\* Every endpoint writes the shared dictionary before anything is saved; the
\* quick controls stop there.
Edit(r) ==
    /\ up
    /\ pc[r] = IF kind[r] = "password" THEN "checked" ELSE "new"
    /\ memory' = [s \in Setting |-> IF s \in Edits[kind[r]] THEN r ELSE memory[s]]
    /\ edited' = [edited EXCEPT ![r] = life]
    /\ pc' = [pc EXCEPT ![r] = IF kind[r] = "quick" THEN "done" ELSE "edited"]
    /\ UNCHANGED <<kind, file, cached, todo, buffer, mixed, outcome, harmed, left, updated,
                   life, up>>

\* update_radio_config meets a bad bandwidth after it has written the power.
RefuseField(r) ==
    /\ up
    /\ pc[r] = "edited"
    /\ kind[r] = "radio"
    /\ pc' = [pc EXCEPT ![r] = "done"]
    /\ UNCHANGED <<kind, memory, file, cached, todo, buffer, mixed, outcome, harmed, left,
                   updated, edited, life, up>>

-----------------------------------------------------------------------------
(* save_to_file *)

\* open(path, "w") truncates the file.
Open(r) ==
    /\ up
    /\ pc[r] = "edited"
    /\ left[r] > 0
    /\ file' = Empty
    /\ mixed' = Mix(r)
    /\ todo' = [todo EXCEPT ![r] = Len(Order)]
    /\ outcome' = [outcome EXCEPT ![r] = "none"]
    /\ pc' = [pc EXCEPT ![r] = "dumping"]
    /\ UNCHANGED <<kind, memory, cached, buffer, harmed, left, updated, edited, life, up>>

\* A failed open that has already truncated the file.
OpenFailsTruncating(r) ==
    /\ up
    /\ pc[r] = "edited"
    /\ left[r] > 0
    /\ file' = Empty
    /\ outcome' = [outcome EXCEPT ![r] = "failed"]
    /\ pc' = [pc EXCEPT ![r] = "ended"]
    /\ UNCHANGED <<kind, memory, cached, todo, buffer, mixed, harmed, left,
                   updated, edited, life, up>>

\* A failed open whose answer is taken for a save.
OpenFailsUnnoticed(r) ==
    /\ up
    /\ pc[r] = "edited"
    /\ left[r] > 0
    /\ outcome' = [outcome EXCEPT ![r] = "saved"]
    /\ pc' = [pc EXCEPT ![r] = "ended"]
    /\ UNCHANGED <<kind, memory, file, cached, todo, buffer, mixed, harmed, left,
                   updated, edited, life, up>>

\* makedirs or open raises: the file is as it was.
OpenFails(r) ==
    /\ up
    /\ pc[r] = "edited"
    /\ left[r] > 0
    /\ outcome' = [outcome EXCEPT ![r] = "failed"]
    /\ pc' = [pc EXCEPT ![r] = "ended"]
    /\ UNCHANGED <<kind, memory, file, cached, todo, buffer, mixed, harmed, left,
                   updated, edited, life, up>>

\* yaml.safe_dump walks the dictionary while other threads may write it.
Dump(r) ==
    /\ up
    /\ Saving(r)
    /\ todo[r] > 0
    /\ LET s == Order[Len(Order) + 1 - todo[r]]
       IN  buffer' = [buffer EXCEPT ![r][s] = memory[s]]
    /\ todo' = [todo EXCEPT ![r] = @ - 1]
    /\ UNCHANGED <<kind, memory, file, cached, pc, mixed, outcome, harmed, left, updated,
                   edited, life, up>>

\* The file is closed.  If another save was at it too, what it holds depends on
\* buffer sizes and lengths: this dump, or pieces of both.
Close(r) ==
    /\ up
    /\ Saving(r)
    /\ todo[r] = 0
    /\ file' \in {buffer[r]} \cup (IF mixed[r] THEN {Torn} ELSE {})
    /\ mixed' = Mix(r)
    /\ outcome' = [outcome EXCEPT ![r] = "saved"]
    /\ harmed' = FALSE
    /\ buffer' = [buffer EXCEPT ![r] = NoDump]
    /\ pc' = [pc EXCEPT ![r] = "ended"]
    /\ UNCHANGED <<kind, memory, cached, todo, left, updated, edited, life, up>>

\* The dump or the write raises; the with statement closes what was written.
DumpFails(r) ==
    /\ up
    /\ Saving(r)
    /\ file' \in {Empty, Torn}
    /\ mixed' = Mix(r)
    /\ outcome' = [outcome EXCEPT ![r] = "failed"]
    /\ harmed' = TRUE
    /\ buffer' = [buffer EXCEPT ![r] = NoDump]
    /\ todo' = [todo EXCEPT ![r] = 0]
    /\ pc' = [pc EXCEPT ![r] = "ended"]
    /\ UNCHANGED <<kind, memory, cached, left, updated, edited, life, up>>

-----------------------------------------------------------------------------
(* After the save *)

\* The kinds that call update_and_save; the others call save_to_file.
ThroughUpdate == {"duty", "advert", "import"}

\* live_update_daemon reloads the advert helper when the repeater section is
\* among the sections; no branch of it reloads AirtimeManager.
Reloaded(k) == IF "rate" \in Edits[k] THEN {"rate"} ELSE {}

AfterReload(r) ==
    [c \in Cached |-> IF c \in Reloaded(kind[r]) THEN memory[c] ELSE cached[c]]

\* A live update that is not made, as after an edit of another section.
LiveUpdateOmitted(r) == UNCHANGED cached

LiveUpdate(r) == cached' = AfterReload(r)

\* live_update_daemon finds no daemon, or something raises before, in or after the
\* reload: reload_config, live_update_daemon and update_and_save each catch it.
LiveUpdateFails(r) == cached' \in {cached, AfterReload(r)}

\* update_and_save returns before the live update when the save failed.  The
\* import endpoint saves once more whatever came of it; the CLI unpacks the
\* Boolean answer, which raises, and never reaches its live update.
AfterSave(r) ==
    /\ up
    /\ pc[r] = "ended"
    /\ left' = [left EXCEPT ![r] = @ - 1]
    /\ IF kind[r] \in ThroughUpdate /\ outcome[r] = "saved" /\ left[r] = Saves(kind[r])
       THEN \/ LiveUpdate(r) /\ updated' = [updated EXCEPT ![r] = TRUE]
            \/ LiveUpdateFails(r) /\ UNCHANGED updated
       ELSE UNCHANGED <<cached, updated>>
    /\ pc' = [pc EXCEPT ![r] = IF left[r] > 1 THEN "edited" ELSE "done"]
    /\ UNCHANGED <<kind, memory, file, todo, buffer, mixed, outcome, harmed, edited, life,
                   up>>

-----------------------------------------------------------------------------
(* The end of the process, and its start *)

\* The process dies; a dump that was running may have written a part.
Crash ==
    /\ up
    /\ up' = FALSE
    /\ file' \in {file} \cup (IF \E r \in Request : Saving(r) THEN {Torn} ELSE {})
    /\ harmed' = (harmed \/ \E r \in Request : Saving(r))
    /\ outcome' = [r \in Request |-> IF Saving(r) THEN "failed" ELSE outcome[r]]
    /\ pc' = [r \in Request |-> IF pc[r] = "new" THEN "new" ELSE "done"]
    /\ buffer' = [r \in Request |-> NoDump]
    /\ todo' = [r \in Request |-> 0]
    /\ UNCHANGED <<kind, memory, cached, mixed, left, updated, edited, life>>

\* Components are built from the dictionary that was read.  What a start makes of
\* a file that holds no complete dump is not in the repository: the model ends there.
Restart ==
    /\ ~up
    /\ life < MaxRestarts
    /\ file \in [Setting -> Value]
    /\ memory' = file
    /\ cached' = [c \in Cached |-> file[c]]
    /\ life' = life + 1
    /\ up' = TRUE
    /\ UNCHANGED <<kind, file, pc, todo, buffer, mixed, outcome, harmed, left, updated, edited>>

Next ==
    \/ \E r \in Request :
          \/ CheckPassword(r) \/ Edit(r) \/ RefuseField(r)
          \/ Open(r) \/ OpenFails(r) \/ Dump(r) \/ Close(r) \/ DumpFails(r)
          \/ AfterSave(r)
    \/ Crash
    \/ Restart

Spec == Init /\ [][Next]_vars

-----------------------------------------------------------------------------
(* Properties *)

TypeOK ==
    /\ kind \in Traffic
    /\ memory \in [Setting -> Value]
    /\ file \in [Setting -> Value] \cup {Empty, Torn}
    /\ cached \in [Cached -> Value]
    /\ pc \in [Request -> Stages]
    /\ todo \in [Request -> 0 .. Len(Order)]
    /\ buffer \in [Request -> [Setting -> Value]]
    /\ mixed \in [Request -> BOOLEAN]
    /\ outcome \in [Request -> Outcomes]
    /\ harmed \in BOOLEAN
    /\ left \in [Request -> 0 .. 2]
    /\ \A r \in Request : pc[r] \in {"dumping", "ended"} => left[r] > 0
    /\ ~up => \A r \in Request : pc[r] \in {"new", "done"}
    /\ updated \in [Request -> BOOLEAN]
    /\ edited \in [Request -> 0 .. MaxRestarts]
    /\ life \in 0 .. MaxRestarts
    /\ up \in BOOLEAN

Complete == file \in [Setting -> Value]
Overlapped == \E r \in Request : mixed[r]

\* The file says what the daemon runs on, setting by setting, unless the request
\* that wrote the running value never completed a save (a quick control, a field
\* written before a later one was refused, a save that failed or was cut off) or
\* two saves overlapped.  A value acknowledged as saved is therefore the one a
\* restart brings back, whichever requests edited while it was dumped.
FileFollowsMemory ==
    Complete /\ ~Overlapped =>
        \A s \in Setting :
            \/ file[s] = memory[s]
            \/ memory[s] \in Request /\ outcome[memory[s]] # "saved"

\* The file holds no complete dump only while a save is under way, or since a save
\* that raised after it had truncated it or was cut off by a crash, or after two
\* saves that overlapped: a request that is refused or cannot open the file costs nothing,
\* and the next completed save repairs it.
IncompleteIsExplained ==
    ~Complete => Overlapped \/ harmed \/ \E r \in Request : Saving(r)

\* A component's copy differs from the running configuration only if the value was
\* written in this life of the process and either no live update reloads that
\* component (the duty-cycle limit) or the author's own live update has not come
\* through: its save failed, was cut off or is still under way, or the live update
\* after a completed save failed, which the answer need not say (BUG-007).  Edits
\* and reloads by other requests never leave a value stale that came through.
StaleCopyIsExplained ==
    up => \A c \in Cached :
        \/ cached[c] = memory[c]
        \/ /\ memory[c] \in Request
           /\ edited[memory[c]] = life
           /\ c \in Reloaded(kind[memory[c]]) => ~updated[memory[c]]
=============================================================================
