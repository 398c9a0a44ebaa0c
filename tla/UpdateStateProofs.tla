--------------------------- MODULE UpdateStateProofs ---------------------------
(* Machine-checked safety of the self-updater's shared state, for any number   *)
(* of requests, channels and versions.                                         *)
EXTENDS UpdateState, TLAPS

\* A check in flight fetches for the selected channel until set_channel runs.
FlightOnChannel ==
    \A c \in Checks :
        check[c] \in {"read", "fetched"} =>
            /\ checkCh[c] \in Channels
            /\ c \notin moved => checkCh[c] = channel

\* A check that finishes leaves a well-typed state behind.
LEMMA FinishType ==
    ASSUME TypeOK, FlightOnChannel, NEW c \in Checks, FinishCheck(c)
    PROVE  TypeOK'
<1>1. latest' \in Nat /\ current' \in Nat /\ hasUpdate' \in BOOLEAN
  BY UpdateAssumption DEF TypeOK, FlightOnChannel, FinishCheck, Publish, Newer
<1> QED
  BY <1>1 DEF TypeOK, FinishCheck, Publish, EndCheck, States

\* So does one that raises.
LEMMA RaiseType ==
    ASSUME TypeOK, FlightOnChannel, NEW c \in Checks, FinishRaises(c)
    PROVE  TypeOK'
<1>1. latest' \in Nat /\ current' \in Nat
  BY UpdateAssumption DEF TypeOK, FlightOnChannel, FinishRaises, Publish
<1> QED
  BY <1>1 DEF TypeOK, FinishRaises, Publish

LEMMA RefreshType ==
    ASSUME TypeOK, Refresh
    PROVE  current' \in Nat /\ hasUpdate' \in BOOLEAN
<1>1. current' \in Nat
  BY DEF TypeOK, Refresh
<1>2. hasUpdate \in BOOLEAN /\ (latest # None => Newer(latest, installed) \in BOOLEAN)
  BY DEF TypeOK, Newer
<1>3. hasUpdate' \in BOOLEAN
  BY <1>2, Zenon DEF Refresh
<1> QED
  BY <1>1, <1>3

LEMMA TypeStep == TypeOK /\ FlightOnChannel /\ [Next]_vars => TypeOK'
<1> SUFFICES ASSUME TypeOK, FlightOnChannel, [Next]_vars PROVE TypeOK'
  OBVIOUS
<1>1. ASSUME NEW c \in Checks, SetChecking(c) PROVE TypeOK'
  BY <1>1 DEF TypeOK, SetChecking, history, States
<1>2. ASSUME NEW c \in Checks, ReadChannel(c) PROVE TypeOK'
  BY <1>2 DEF TypeOK, ReadChannel, shared, history
<1>3. ASSUME NEW c \in Checks, FetchSucceeds(c) PROVE TypeOK'
  BY <1>3 DEF TypeOK, FetchSucceeds, history
<1>4. ASSUME NEW c \in Checks, FinishCheck(c) \/ FinishRaises(c) PROVE TypeOK'
  BY <1>4, FinishType, RaiseType
<1>5. ASSUME NEW c \in Checks, FailCheck(c) \/ FailCheckRateLimit(c) PROVE TypeOK'
  BY <1>5 DEF TypeOK, FailCheck, FailCheckRateLimit, EndCheck, States
<1>6. CASE Snapshot
  BY <1>6, RefreshType DEF TypeOK, Snapshot, threads, history
<1>7. ASSUME NEW i \in Installs, NEW force \in BOOLEAN, RequestInstall(i, force)
      PROVE  TypeOK'
  <2>1. current' \in Nat /\ hasUpdate' \in BOOLEAN
    BY <1>7, RefreshType DEF RequestInstall
  <2> QED
    BY <1>7, <2>1 DEF TypeOK, RequestInstall, history
<1>8. ASSUME NEW i \in Installs, StartInstall(i) PROVE TypeOK'
  BY <1>8 DEF TypeOK, StartInstall, history, States
<1>9. ASSUME NEW i \in Installs, FinishInstall(i) PROVE TypeOK'
  <2>1. installed' \in Nat
    BY <1>9, UpdateAssumption DEF TypeOK, FinishInstall
  <2> QED
    BY <1>9, <2>1 DEF TypeOK, FinishInstall, history, States
<1>14. ASSUME NEW i \in Installs, FailInstall(i) PROVE TypeOK'
  BY <1>14 DEF TypeOK, FailInstall, history, States
<1>10. ASSUME NEW k \in Choosers, RequestChannel(k) PROVE TypeOK'
  BY <1>10 DEF TypeOK, RequestChannel, shared, history
<1>11. ASSUME NEW k \in Choosers, SetChannel(k) PROVE TypeOK'
  <2>1. Target[k] \in Channels
    BY UpdateAssumption
  <2>2. channel' \in Channels /\ saved' \in Channels \cup {None}
    BY <1>11, <2>1 DEF TypeOK, SetChannel
  <2>3. moved' \subseteq Checks /\ chooser' \in [Choosers -> {"new", "allowed", "done", "refused"}]
    BY <1>11 DEF TypeOK, SetChannel
  <2> QED
    BY <1>11, <2>2, <2>3 DEF TypeOK, SetChannel
<1>12. CASE Restart
  BY <1>12 DEF TypeOK, Restart, States
<1>13. CASE UNCHANGED vars
  BY <1>13 DEF TypeOK, vars
<1> QED
  BY <1>1, <1>2, <1>3, <1>4, <1>5, <1>6, <1>7, <1>8, <1>9, <1>10, <1>11, <1>12,
     <1>13, <1>14
  DEF Next, EndsCheck

LEMMA FlightStep == TypeOK /\ FlightOnChannel /\ [Next]_vars => FlightOnChannel'
<1> SUFFICES ASSUME TypeOK, FlightOnChannel, [Next]_vars PROVE FlightOnChannel'
  OBVIOUS
<1>1. ASSUME NEW c \in Checks, ReadChannel(c) PROVE FlightOnChannel'
  BY <1>1 DEF TypeOK, FlightOnChannel, ReadChannel, shared, history
<1>2. ASSUME NEW c \in Checks,
             \/ SetChecking(c) \/ FetchSucceeds(c) \/ FinishCheck(c)
             \/ FinishRaises(c) \/ FailCheck(c) \/ FailCheckRateLimit(c)
      PROVE  FlightOnChannel'
  BY <1>2
  DEF TypeOK, FlightOnChannel, SetChecking, FetchSucceeds, FinishCheck, FinishRaises,
      Publish, FailCheck, FailCheckRateLimit, EndCheck, history
<1>3. ASSUME NEW k \in Choosers, SetChannel(k) PROVE FlightOnChannel'
  BY <1>3 DEF TypeOK, FlightOnChannel, SetChannel
<1>4. CASE Restart
  BY <1>4 DEF TypeOK, FlightOnChannel, Restart
<1>5. CASE UNCHANGED <<check, checkCh, channel, moved>>
  BY <1>5 DEF FlightOnChannel
<1> QED
  BY <1>1, <1>2, <1>3, <1>4, <1>5
  DEF Next, EndsCheck, Snapshot, RequestInstall, StartInstall, FinishInstall,
      FailInstall, RequestChannel, shared, threads, history, vars

LEMMA TypesAndFlight == Spec => [](TypeOK /\ FlightOnChannel)
<1>1. Init => TypeOK /\ FlightOnChannel
  BY UpdateAssumption DEF Init, TypeOK, FlightOnChannel, States
<1> QED
  BY <1>1, TypeStep, FlightStep, PTL DEF Spec

\* Type correctness of the updater.
THEOREM TypeCorrect == Spec => []TypeOK
  BY TypesAndFlight, PTL

-----------------------------------------------------------------------------
(* Who owns the state.                                                       *)

LEMMA OwnerStep ==
    TypeOK /\ InstallOwnsState /\ SecondInstallNeedsTrample /\ [Next]_vars
        => InstallOwnsState' /\ SecondInstallNeedsTrample'
<1> SUFFICES ASSUME TypeOK, InstallOwnsState, SecondInstallNeedsTrample,
                    [Next]_vars
             PROVE  InstallOwnsState' /\ SecondInstallNeedsTrample'
  OBVIOUS
<1> USE DEF InstallOwnsState, SecondInstallNeedsTrample, Installing
<1>1. ASSUME NEW c \in Checks, SetChecking(c)
      PROVE  InstallOwnsState' /\ SecondInstallNeedsTrample'
  BY <1>1 DEF SetChecking, history
<1>2. ASSUME NEW c \in Checks, EndsCheck(c)
      PROVE  InstallOwnsState' /\ SecondInstallNeedsTrample'
  <2>1. UNCHANGED inst /\ trampled' = (trampled \/ Installing # {})
    BY <1>2 DEF EndsCheck, FinishCheck, FailCheck, FailCheckRateLimit, EndCheck
  <2> QED
    BY <2>1
<1>3. ASSUME NEW i \in Installs, NEW force \in BOOLEAN, RequestInstall(i, force)
      PROVE  InstallOwnsState' /\ SecondInstallNeedsTrample'
  <2>1. Installing' = Installing /\ UNCHANGED <<st, trampled>>
    BY <1>3 DEF RequestInstall, TypeOK, history
  <2> QED
    BY <2>1
<1>4. ASSUME NEW i \in Installs, StartInstall(i)
      PROVE  InstallOwnsState' /\ SecondInstallNeedsTrample'
  <2>1. CASE st = "installing"
    <3>1. Installing' = Installing /\ UNCHANGED <<st, trampled>>
      BY <1>4, <2>1 DEF StartInstall, TypeOK, history
    <3> QED
      BY <3>1
  <2>2. CASE st # "installing"
    <3>1. Installing = {} \/ trampled
      BY <2>2
    <3>2. /\ Installing' = Installing \cup {i}
          /\ st' = "installing" /\ UNCHANGED trampled
      BY <1>4, <2>2 DEF StartInstall, TypeOK, history
    <3> QED
      BY <3>1, <3>2
  <2> QED
    BY <2>1, <2>2
<1>5. ASSUME NEW i \in Installs, FinishInstall(i) \/ FailInstall(i)
      PROVE  InstallOwnsState' /\ SecondInstallNeedsTrample'
  <2>1. i \in Installing /\ Installing' = Installing \ {i} /\ UNCHANGED trampled
    BY <1>5 DEF FinishInstall, FailInstall, TypeOK, history
  <2>2. Installing' = {} \/ trampled
    BY <2>1
  <2> QED
    BY <2>1, <2>2
<1>6. CASE Restart
  <2>1. Installing' = {}
    BY <1>6 DEF Restart, TypeOK
  <2> QED
    BY <2>1
<1>7. CASE UNCHANGED <<st, inst, trampled>>
  BY <1>7
<1> QED
  BY <1>1, <1>2, <1>3, <1>4, <1>5, <1>6, <1>7
  DEF Next, ReadChannel, FetchSucceeds, FinishRaises, Snapshot, RequestChannel, SetChannel,
      shared, threads, history, vars

\* An install loses the state, and a second one can start, only through a check
\* that it overtook: the single cause of overlapping updates.
THEOREM OwnershipCorrect ==
    Spec => [](InstallOwnsState /\ SecondInstallNeedsTrample)
<1>1. Init => InstallOwnsState /\ SecondInstallNeedsTrample
  BY DEF Init, InstallOwnsState, SecondInstallNeedsTrample, Installing
<1> QED
  BY <1>1, OwnerStep, TypeCorrect, PTL DEF Spec

LEMMA BusyStep == TypeOK /\ BusyHasThread /\ [Next]_vars => BusyHasThread'
<1> SUFFICES ASSUME TypeOK, BusyHasThread, [Next]_vars PROVE BusyHasThread'
  OBVIOUS
<1> USE DEF BusyHasThread, Installing
<1>1. ASSUME NEW c \in Checks, SetChecking(c) PROVE BusyHasThread'
  BY <1>1 DEF SetChecking, TypeOK
<1>2. ASSUME NEW c \in Checks, ReadChannel(c) \/ FetchSucceeds(c) \/ FinishRaises(c)
      PROVE  BusyHasThread'
  <2>1. UNCHANGED <<st, inst>>
    BY <1>2 DEF ReadChannel, FetchSucceeds, FinishRaises, shared
  <2>2. /\ check'[c] \in {"read", "fetched", "raised"}
        /\ \A d \in Checks \ {c} : check'[d] = check[d]
    BY <1>2 DEF ReadChannel, FetchSucceeds, FinishRaises, TypeOK
  <2> QED BY <2>1, <2>2
<1>3. ASSUME NEW c \in Checks, EndsCheck(c) PROVE BusyHasThread'
  BY <1>3 DEF EndsCheck, FinishCheck, FailCheck, FailCheckRateLimit, EndCheck
<1>4. ASSUME NEW i \in Installs, NEW force \in BOOLEAN, RequestInstall(i, force)
      PROVE  BusyHasThread'
  <2>1. Installing' = Installing /\ UNCHANGED <<st, check>>
    BY <1>4 DEF RequestInstall, TypeOK
  <2> QED BY <2>1
<1>5. ASSUME NEW i \in Installs, StartInstall(i) PROVE BusyHasThread'
  <2>1. CASE st = "installing"
    <3>1. Installing' = Installing /\ UNCHANGED <<st, check>>
      BY <1>5, <2>1 DEF StartInstall, TypeOK
    <3> QED BY <3>1
  <2>2. CASE st # "installing"
    <3>1. st' = "installing" /\ inst'[i] = "running"
      BY <1>5, <2>2 DEF StartInstall, TypeOK
    <3> QED BY <3>1
  <2> QED BY <2>1, <2>2
<1>6. ASSUME NEW i \in Installs, FinishInstall(i) \/ FailInstall(i) PROVE BusyHasThread'
  BY <1>6 DEF FinishInstall, FailInstall
<1>7. CASE Restart
  BY <1>7 DEF Restart
<1>8. CASE UNCHANGED <<st, check, inst>>
  BY <1>8
<1> QED
  BY <1>1, <1>2, <1>3, <1>4, <1>5, <1>6, <1>7, <1>8
  DEF Next, Snapshot, RequestChannel, SetChannel, shared, threads, vars

\* A busy state has a thread behind it that will end it, whatever checks and installs
\* overlap: what BusyEnds needs besides the fairness of the threads.
THEOREM BusyCorrect == Spec => []BusyHasThread
<1>1. Init => BusyHasThread
  BY DEF Init, BusyHasThread
<1> QED
  BY <1>1, BusyStep, TypeCorrect, PTL DEF Spec

-----------------------------------------------------------------------------
(* What is displayed.                                                        *)

LEMMA ResultStep ==
    TypeOK /\ FlightOnChannel /\ ResultMatchesChannel /\ [Next]_vars
        => ResultMatchesChannel'
<1> SUFFICES ASSUME TypeOK, FlightOnChannel, ResultMatchesChannel, [Next]_vars
             PROVE  ResultMatchesChannel'
  OBVIOUS
<1> USE DEF ResultMatchesChannel
<1>1. ASSUME NEW c \in Checks, FinishCheck(c) \/ FinishRaises(c)
      PROVE  ResultMatchesChannel'
  <2>1. /\ latest' = Offer[checkCh[c]] /\ shown' = c
        /\ UNCHANGED <<moved, channel>>
    BY <1>1 DEF FinishCheck, FinishRaises, Publish
  <2>2. c \notin moved => checkCh[c] = channel
    BY <1>1 DEF FinishCheck, FinishRaises, Publish, FlightOnChannel
  <2>3. c # None
    BY UpdateAssumption
  <2> QED
    BY <2>1, <2>2, <2>3
<1>2. CASE latest' = None
  BY <1>2
<1>3. CASE UNCHANGED <<latest, shown, moved, channel>>
  BY <1>3
<1> QED
  BY <1>1, <1>2, <1>3
  DEF Next, EndsCheck, SetChecking, ReadChannel, FetchSucceeds, FailCheck,
      FailCheckRateLimit, Snapshot, RequestInstall, StartInstall, FinishInstall,
      FailInstall, RequestChannel, SetChannel, Restart, shared, history, vars

\* What the updater shows as the newest version belongs to the selected channel
\* unless the channel changed under the check: the only way a stale result of
\* the old channel is installed over set_channel's invalidation.
THEOREM ResultCorrect == Spec => []ResultMatchesChannel
<1>1. Init => ResultMatchesChannel
  BY DEF Init, ResultMatchesChannel
<1> QED
  BY <1>1, ResultStep, TypesAndFlight, PTL DEF Spec

LEMMA AnnouncedStep ==
    TypeOK /\ FlightOnChannel /\ AnnouncedUpdateIsNewer /\ [Next]_vars
        => AnnouncedUpdateIsNewer'
<1> SUFFICES ASSUME TypeOK, FlightOnChannel, AnnouncedUpdateIsNewer, [Next]_vars
             PROVE  AnnouncedUpdateIsNewer'
  OBVIOUS
<1> USE DEF AnnouncedUpdateIsNewer, Newer
<1>1. ASSUME NEW c \in Checks, FinishCheck(c) PROVE AnnouncedUpdateIsNewer'
  <2>1. hasUpdate' = (latest' > current') /\ latest' = Offer[checkCh[c]]
    BY <1>1 DEF FinishCheck, Publish
  <2>2. latest' # None
    BY <1>1, <2>1, UpdateAssumption DEF FinishCheck, Publish, FlightOnChannel
  <2> QED
    BY <2>1, <2>2
<1>5. ASSUME NEW c \in Checks, FinishRaises(c) PROVE AnnouncedUpdateIsNewer'
  <2>1. shown' = c /\ c \in broken' /\ latest' = Offer[checkCh[c]]
    BY <1>5 DEF FinishRaises, Publish
  <2>2. latest' # None
    BY <1>5, <2>1, UpdateAssumption DEF FinishRaises, Publish, FlightOnChannel
  <2> QED
    BY <2>1, <2>2
<1>2. CASE Refresh /\ UNCHANGED <<latest, shown, broken>>
  BY <1>2 DEF Refresh
<1>3. CASE hasUpdate' = FALSE
  BY <1>3
<1>4. CASE UNCHANGED <<latest, current, hasUpdate, shown, broken>>
  BY <1>4
<1> QED
  BY <1>1, <1>2, <1>3, <1>4, <1>5
  DEF Next, EndsCheck, SetChecking, ReadChannel, FetchSucceeds, FailCheck,
      FailCheckRateLimit, Snapshot, RequestInstall, StartInstall, FinishInstall,
      FailInstall, RequestChannel, SetChannel, Restart, shared, history, vars

\* No order of checks, installs, refreshes and channel changes leaves an
\* announced update that is not newer than the version reported as installed, but
\* for a version that a _finish_check stored and raised before it compared it.
THEOREM AnnouncementCorrect == Spec => []AnnouncedUpdateIsNewer
<1>1. Init => AnnouncedUpdateIsNewer
  BY DEF Init, AnnouncedUpdateIsNewer
<1> QED
  BY <1>1, AnnouncedStep, TypesAndFlight, PTL DEF Spec
=============================================================================
