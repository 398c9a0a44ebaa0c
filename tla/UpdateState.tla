------------------------------ MODULE UpdateState ------------------------------
(* The self-updater of repeater/web/update_endpoints.py: the shared            *)
(* _UpdateState, the background check and install threads, and the install and *)
(* set_channel endpoints that CherryPy serves from several threads.            *)
(*                                                                             *)
(* Every method of _UpdateState runs under its lock and is one step; what      *)
(* happens between two methods (the fetch, the endpoint's decisions, unlocked  *)
(* reads of _state) is not protected and interleaves.                          *)
EXTENDS Naturals

CONSTANTS
    Checks,     \* the check requests that may arrive, each once
    Installs,   \* the install requests, each once
    Choosers,   \* the set_channel requests, each once
    Channels,   \* the release channels
    Target,     \* the channel each set_channel request asks for
    Offer,      \* the newest version each channel publishes
    Base,       \* the version installed at first
    None        \* no channel, no version, no check

ASSUME UpdateAssumption ==
    /\ None \notin Checks \cup Installs \cup Choosers \cup Channels \cup Nat
    /\ Target \in [Choosers -> Channels]
    /\ Offer \in [Channels -> Nat]
    /\ Base \in Nat

VARIABLES
    st,         \* _state.state
    channel,    \* _state.channel
    saved,      \* the channel in _CHANNELS_FILE, None when its last write was cut off
    latest,     \* _state.latest_version
    current,    \* _state.current_version
    hasUpdate,  \* _state.has_update
    limited,    \* _state.rate_limit_until is set
    installed,  \* what _get_installed_version finds on disk
    check,      \* the thread of each check request
    checkCh,    \* the channel it read when it started
    inst,       \* the install requests and their threads
    chooser,    \* the set_channel requests
    shown,      \* the check whose result latest_version is (history)
    moved,      \* checks during which set_channel ran (history)
    broken,     \* checks whose _finish_check raised (history)
    trampled    \* a check ended while an install ran (history)

shared == <<st, channel, saved, latest, current, hasUpdate, limited, installed>>
threads == <<check, checkCh, inst, chooser>>
history == <<shown, moved, broken, trampled>>
vars == <<st, channel, saved, latest, current, hasUpdate, limited, installed,
          check, checkCh, inst, chooser, shown, moved, broken, trampled>>

States == {"idle", "checking", "installing", "complete", "error"}

\* A check thread that has not ended, an install thread that has not ended.
Installing == {i \in Installs : inst[i] = "running"}

\* _has_update.
Newer(v, than) == v > than

Init ==
    /\ st = "idle"
    /\ channel \in Channels /\ saved = channel
    /\ latest = None /\ current = Base /\ installed = Base
    /\ hasUpdate = FALSE /\ limited = FALSE
    /\ check = [c \in Checks |-> "new"]
    /\ checkCh = [c \in Checks |-> None]
    /\ inst = [i \in Installs |-> "new"]
    /\ chooser = [k \in Choosers |-> "new"]
    /\ shown = None /\ moved = {} /\ broken = {} /\ trampled = FALSE

-----------------------------------------------------------------------------
(* Checking for a version.                                                   *)

\* Fault: a check starts in any state.
SetCheckingAlways(c) ==
    /\ check[c] = "new"
    /\ st' = "checking"
    /\ check' = [check EXCEPT ![c] = "started"]
    /\ UNCHANGED <<channel, saved, latest, current, hasUpdate, limited, installed,
                   checkCh, inst, chooser>>
    /\ UNCHANGED history

\* _set_checking, then the thread is started; otherwise the request is refused.
SetChecking(c) ==
    /\ check[c] = "new"
    /\ IF st \in {"idle", "complete", "error"}
         THEN st' = "checking" /\ check' = [check EXCEPT ![c] = "started"]
         ELSE check' = [check EXCEPT ![c] = "refused"] /\ UNCHANGED st
    /\ UNCHANGED <<channel, saved, latest, current, hasUpdate, limited, installed,
                   checkCh, inst, chooser>>
    /\ UNCHANGED history

\* _do_check reads _state.channel, without the lock.
ReadChannel(c) ==
    /\ check[c] = "started"
    /\ check' = [check EXCEPT ![c] = "read"]
    /\ checkCh' = [checkCh EXCEPT ![c] = channel]
    /\ UNCHANGED <<inst, chooser>>
    /\ UNCHANGED shared
    /\ UNCHANGED history

\* The fetch succeeded: the rate-limit hold is cleared, under the lock ...
FetchSucceeds(c) ==
    /\ check[c] = "read"
    /\ check' = [check EXCEPT ![c] = "fetched"]
    /\ limited' = FALSE
    /\ UNCHANGED <<st, channel, saved, latest, current, hasUpdate, installed,
                   checkCh, inst, chooser>>
    /\ UNCHANGED history

\* A check thread ends with the state it leaves behind.
EndCheck(c, state) ==
    /\ check' = [check EXCEPT ![c] = "done"]
    /\ st' = state
    /\ trampled' = (trampled \/ Installing # {})

\* _finish_check stores the version before it looks at the installed one, which, if
\* it cannot be read, keeps the value known before.
Publish(c) ==
    /\ check[c] = "fetched"
    /\ latest' = Offer[checkCh[c]]
    /\ current' \in {current, installed}
    /\ shown' = c

\* ... and _finish_check publishes the result in a later critical section.
FinishCheck(c) ==
    /\ Publish(c)
    /\ EndCheck(c, "idle")
    /\ hasUpdate' = Newer(latest', current')
    /\ UNCHANGED <<channel, saved, limited, installed, checkCh, inst, chooser, moved,
                   broken>>

\* A helper of _finish_check raises: has_update stays what it was, and _fail_check is
\* a critical section of its own.
FinishRaises(c) ==
    /\ Publish(c)
    /\ check' = [check EXCEPT ![c] = "raised"]
    /\ broken' = broken \cup {c}
    /\ UNCHANGED <<st, channel, saved, hasUpdate, limited, installed, checkCh, inst,
                   chooser, moved, trampled>>

\* Fault: a failed check leaves the state busy.
FailCheckStaysBusy(c) ==
    /\ check[c] \in {"read", "raised"}
    /\ EndCheck(c, st)
    /\ UNCHANGED <<channel, saved, latest, current, hasUpdate, limited, installed,
                   checkCh, inst, chooser, shown, moved, broken>>

\* _fail_check, after the fetch or _finish_check raised.
FailCheck(c) ==
    /\ check[c] \in {"read", "raised"}
    /\ EndCheck(c, "error")
    /\ UNCHANGED <<channel, saved, latest, current, hasUpdate, limited, installed,
                   checkCh, inst, chooser, shown, moved, broken>>

\* _fail_check_ratelimit keeps the version data and records the hold.
FailCheckRateLimit(c) ==
    /\ check[c] = "read"
    /\ EndCheck(c, "idle")
    /\ limited' = TRUE
    /\ UNCHANGED <<channel, saved, latest, current, hasUpdate, installed,
                   checkCh, inst, chooser, shown, moved, broken>>

-----------------------------------------------------------------------------
(* snapshot and the install endpoint.                                        *)

\* Fault: has_update is not recomputed with the version.
RefreshVersionOnly ==
    /\ current' \in {current, installed}
    /\ UNCHANGED hasUpdate

\* snapshot refreshes the installed version, if it can be read, and what
\* follows from it.
Refresh ==
    \/ /\ current' = installed
       /\ hasUpdate' = IF latest = None THEN hasUpdate ELSE Newer(latest, installed)
    \/ UNCHANGED <<current, hasUpdate>>

\* A status request.
Snapshot ==
    /\ Refresh
    /\ UNCHANGED <<st, channel, saved, latest, limited, installed>>
    /\ UNCHANGED threads
    /\ UNCHANGED history

\* install: refused while installing, or when the snapshot knows a version and
\* sees no update, unless forced.
RequestInstall(i, force) ==
    /\ inst[i] = "new"
    /\ Refresh
    /\ inst' = [inst EXCEPT ![i] =
                  IF \/ st = "installing"
                     \/ ~force /\ ~hasUpdate' /\ latest # None
                  THEN "refused" ELSE "admitted"]
    /\ UNCHANGED <<st, channel, saved, latest, limited, installed,
                   check, checkCh, chooser>>
    /\ UNCHANGED history

\* start_install: the only state that keeps a second install out is "installing".
StartInstall(i) ==
    /\ inst[i] = "admitted"
    /\ IF st = "installing"
         THEN inst' = [inst EXCEPT ![i] = "refused"] /\ UNCHANGED st
         ELSE inst' = [inst EXCEPT ![i] = "running"] /\ st' = "installing"
    /\ UNCHANGED <<channel, saved, latest, current, hasUpdate, limited, installed,
                   check, checkCh, chooser>>
    /\ UNCHANGED history

\* finish_install(True): a channel's package is on disk.  _do_install reads the
\* channel at a moment of its own, so it may be any that was selected.
FinishInstall(i) ==
    /\ inst[i] = "running"
    /\ inst' = [inst EXCEPT ![i] = "done"]
    /\ st' = "complete"
    /\ hasUpdate' = FALSE
    /\ \E ch \in Channels : installed' = Offer[ch]
    /\ UNCHANGED <<channel, saved, latest, current, limited, check, checkCh, chooser>>
    /\ UNCHANGED history

\* finish_install(False).
FailInstall(i) ==
    /\ inst[i] = "running"
    /\ inst' = [inst EXCEPT ![i] = "done"]
    /\ st' = "error"
    /\ UNCHANGED <<channel, saved, latest, current, hasUpdate, limited, installed,
                   check, checkCh, chooser>>
    /\ UNCHANGED history

-----------------------------------------------------------------------------
(* set_channel and the process.                                              *)

\* The endpoint reads _state.state without the lock.
RequestChannel(k) ==
    /\ chooser[k] = "new"
    /\ chooser' = [chooser EXCEPT ![k] =
                     IF st = "installing" THEN "refused" ELSE "allowed"]
    /\ UNCHANGED <<check, checkCh, inst>>
    /\ UNCHANGED shared
    /\ UNCHANGED history

\* Fault: the cached result of the old channel is kept.
SetChannelKeepsResult(k) ==
    /\ chooser[k] = "allowed"
    /\ chooser' = [chooser EXCEPT ![k] = "done"]
    /\ channel' = Target[k]
    /\ saved' \in {Target[k], saved, None}
    /\ moved' = moved \cup {c \in Checks : check[c] \in {"read", "fetched"}}
    /\ UNCHANGED <<st, latest, current, hasUpdate, limited, installed, check,
                   checkCh, inst, shown, broken, trampled>>

\* set_channel: the cached result is invalidated; _save_channel may fail before it
\* opens the file or after, when the old channel is gone from it; that is logged and
\* nothing else.
SetChannel(k) ==
    /\ chooser[k] = "allowed"
    /\ chooser' = [chooser EXCEPT ![k] = "done"]
    /\ channel' = Target[k]
    /\ saved' \in {Target[k], saved, None}
    /\ latest' = None /\ hasUpdate' = FALSE /\ shown' = None
    /\ moved' = moved \cup {c \in Checks : check[c] \in {"read", "fetched"}}
    /\ UNCHANGED <<st, current, limited, installed, check, checkCh, inst, broken,
                   trampled>>

\* The service restarts: threads and the shared state are gone, the channel is
\* the one on disk.  What is made of a file that was cut off is not quoted.
Restart ==
    /\ st' = "idle"
    /\ channel' \in IF saved = None THEN Channels ELSE {saved}
    /\ latest' = None /\ hasUpdate' = FALSE /\ limited' = FALSE
    /\ current' = installed
    /\ check' = [c \in Checks |-> IF check[c] = "new" THEN "new" ELSE "done"]
    /\ inst' = [i \in Installs |-> IF inst[i] = "new" THEN "new" ELSE "done"]
    /\ chooser' = [k \in Choosers |-> IF chooser[k] = "new" THEN "new" ELSE "done"]
    /\ shown' = None /\ trampled' = FALSE
    /\ UNCHANGED <<saved, installed, checkCh, moved, broken>>

EndsCheck(c) == FinishCheck(c) \/ FailCheck(c) \/ FailCheckRateLimit(c)

Next ==
    \/ \E c \in Checks :
         SetChecking(c) \/ ReadChannel(c) \/ FetchSucceeds(c)
         \/ FinishRaises(c) \/ EndsCheck(c)
    \/ Snapshot
    \/ \E i \in Installs, force \in BOOLEAN : RequestInstall(i, force)
    \/ \E i \in Installs : StartInstall(i) \/ FinishInstall(i) \/ FailInstall(i)
    \/ \E k \in Choosers : RequestChannel(k) \/ SetChannel(k)
    \/ Restart

Spec == Init /\ [][Next]_vars

\* Threads run, a fetch ends by an answer or its timeout, an installer exits.
FairSpec ==
    /\ Spec
    /\ \A c \in Checks :
         /\ WF_vars(ReadChannel(c))
         /\ WF_vars(FetchSucceeds(c) \/ FinishRaises(c) \/ EndsCheck(c))
    /\ \A i \in Installs : WF_vars(FinishInstall(i) \/ FailInstall(i))

-----------------------------------------------------------------------------
(* Properties.                                                               *)

TypeOK ==
    /\ st \in States
    /\ channel \in Channels /\ saved \in Channels \cup {None}
    /\ latest \in Nat \cup {None}
    /\ current \in Nat /\ installed \in Nat
    /\ hasUpdate \in BOOLEAN /\ limited \in BOOLEAN
    /\ check \in [Checks -> {"new", "started", "read", "fetched", "raised", "done",
                         "refused"}]
    /\ checkCh \in [Checks -> Channels \cup {None}]
    /\ inst \in [Installs -> {"new", "admitted", "running", "done", "refused"}]
    /\ chooser \in [Choosers -> {"new", "allowed", "done", "refused"}]
    /\ shown \in Checks \cup {None}
    /\ moved \subseteq Checks /\ broken \subseteq Checks
    /\ trampled \in BOOLEAN

\* While an install runs the state says so, unless a check that was overtaken by
\* the install has ended since: nothing else makes the updater look free.
InstallOwnsState ==
    Installing # {} /\ ~trampled => st = "installing"

\* Two installs run at once only after such a check.
SecondInstallNeedsTrample ==
    \A i, j \in Installing : i # j => trampled

\* A displayed version is the newest one of the selected channel, unless the
\* channel was changed while the check that produced it was in flight.
ResultMatchesChannel ==
    latest # None =>
        /\ shown # None
        /\ shown \notin moved => latest = Offer[channel]

\* An update is announced only for a known version that is newer than the one
\* the updater reports as installed: no order of checks, installs and channel
\* changes leaves a stale announcement, except that of a version stored by a
\* _finish_check that raised before it compared the two.
AnnouncedUpdateIsNewer ==
    hasUpdate => latest # None /\ (shown \notin broken => Newer(latest, current))

\* A state that refuses requests belongs to a thread that has not ended, and that
\* ends it: no check or install leaves its own state behind, nor that of another.
BusyHasThread ==
    /\ st = "checking" => \E c \in Checks : check[c] \in {"started", "read", "fetched", "raised"}
    /\ st = "installing" => Installing # {}

\* The updater is not left busy: a state that refuses requests ends.
BusyEnds == st \in {"checking", "installing"} ~> st \notin {"checking", "installing"}

=============================================================================
