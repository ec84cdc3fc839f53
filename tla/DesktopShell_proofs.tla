------------------------ MODULE DesktopShell_proofs ------------------------
(* Theorems about DesktopShell and the modules it extends, with proofs.    *)
EXTENDS DesktopShell, TLAPS

USE NoneAssumption, ClockAssumption, TaskAssumption, StartsAssumption, TwoTasks,
    SavedAssumption

LEMMA CallFacts ==
  /\ NoCall \in CallStates /\ Failure \in CallStates /\ Stopping \in CallStates
  /\ NoCall.at = "none" /\ Failure.at = "failed" /\ Stopping.at = "stop"
  /\ \A p \in Paths : Starting(p) \in CallStates /\ Starting(p).at = "start"
  /\ \A at, s : Doing(at, s).at = at /\ Doing(at, s).sidecar = s
  /\ \A s \in Sidecars \cup {None} :
       \A at \in {"answered", "awaiting", "closing", "asking", "asked", "dropping"} :
         Doing(at, s) \in CallStates
<1>1. /\ NoCall \in CallStates /\ Failure \in CallStates /\ Stopping \in CallStates
      /\ NoCall.at = "none" /\ Failure.at = "failed" /\ Stopping.at = "stop"
  BY DEF CallStates, NoCall, Failure, Stopping
<1>2. \A p \in Paths : Starting(p) \in CallStates /\ Starting(p).at = "start"
  BY DEF CallStates, Starting
<1>3. \A at, s : Doing(at, s).at = at /\ Doing(at, s).sidecar = s
  BY DEF Doing
<1>4. \A s \in Sidecars \cup {None} :
        \A at \in {"answered", "awaiting", "closing", "asking", "asked", "dropping"} :
          Doing(at, s) \in CallStates
  BY DEF CallStates, Doing
<1>5. QED
  BY <1>1, <1>2, <1>3, <1>4

\* What the record of a call holds at each point.
LEMMA CallContents ==
  ASSUME NEW c \in CallStates
  PROVE  /\ c.at = "start" => c.path \in Paths
         /\ c.at \in {"answered", "awaiting", "closing", "asking", "asked", "dropping"} =>
              c.sidecar \in Sidecars \cup {None}
BY DEF CallStates, NoCall, Failure, Stopping, Starting, Doing

-----------------------------------------------------------------------------
(* The credentials and the clock.                                          *)

\* All that any step of the program does to the keyring and the clock.
GateChange ==
  \/ UNCHANGED gateVars
  \/ /\ UNCHANGED time
     /\ \/ CheckLicense \/ StoreSession \/ DeleteSession \/ DeleteBoth \/ ResetCheckpoint
        \/ session # None /\ StoreEntitlement(clock)
  \/ ClockChanges

LEMMA GateChanges == [Next]_vars => GateChange
<1> SUFFICES ASSUME [Next]_vars PROVE GateChange
  OBVIOUS
<1> USE DEF GateChange
<1>1. CASE Press
  BY <1>1 DEF Press, PressSignIn, PressActivate, PressSignOut, PressReset, PressSwitch,
     PressRetry, Calls
<1>2. CASE GateStep
  BY <1>2 DEF GateStep, SignInAccepted, SignInRefused, ReadStatus, StatusFails,
       BootstrapStarted, BootstrapFails, Activate, ActivateRefused, SignOutStopped,
       SignOutFails, SignOut, ResetEnds, Returned, Raised, Calls, gateVars, credentials
<1>3. CASE WorkspaceStep
  BY <1>3 DEF WorkspaceStep, SwitchStarts, SwitchEnds, StopFailsSwitch, StartFailsSwitch,
       RequestFailsSwitch, Restored, RestoreFails, RetryStarted, RetryFails,
       GoBack, Returned, Raised, Calls
<1>4. CASE \E t \in Tasks : Command(t)
  BY <1>4 DEF Command, CommandStep, StartReturnsRunning, StartRefused, StartSpawns, StartReady,
       StartFails, StopReadsRuntime, StopCloses, StopRefused, StopAsks, StopAskFails,
       StopTakes, StopDrops
<1>5. CASE ProcessStep
  BY <1>5 DEF ProcessStep, WorkerExits, LauncherExits, Dies
<1>6. CASE Reopen
  BY <1>6 DEF Reopen, Exit, ShellDies
<1>7. CASE ClockStep
  BY <1>7 DEF ClockStep
<1>8. CASE UNCHANGED vars
  BY <1>8 DEF vars
<1>9. QED
  BY <1>1, <1>2, <1>3, <1>4, <1>5, <1>6, <1>7, <1>8 DEF Next

\* No licence was accepted later than at the checkpoint.
SeenBelowCheckpoint ==
  /\ checkpoint = None => seen = 0
  /\ checkpoint # None => seen <= checkpoint

LEMMA GateInvariant == Spec => [](GateTypeOK /\ SeenBelowCheckpoint)
<1>1. Init => GateTypeOK /\ SeenBelowCheckpoint
  BY DEF Init, GateInit, GateTypeOK, SeenBelowCheckpoint, Times
<1>2. GateTypeOK /\ SeenBelowCheckpoint /\ [Next]_vars => (GateTypeOK /\ SeenBelowCheckpoint)'
  <2> SUFFICES ASSUME GateTypeOK, SeenBelowCheckpoint, GateChange
               PROVE  (GateTypeOK /\ SeenBelowCheckpoint)'
    BY GateChanges
  <2> USE DEF GateTypeOK, SeenBelowCheckpoint, gateVars, credentials, time, Times
  <2>1. CASE UNCHANGED gateVars
    BY <2>1
  <2>2. CASE UNCHANGED time /\ CheckLicense
    BY <2>2 DEF CheckLicense, AdvancedCheckpoint, ClockAcceptable, LicenseActive
  <2>3. CASE UNCHANGED time /\ (StoreSession \/ DeleteSession \/ DeleteBoth \/ ResetCheckpoint)
    BY <2>3 DEF StoreSession, DeleteSession, DeleteBoth, ResetCheckpoint
  <2>4. CASE UNCHANGED time /\ session # None /\ StoreEntitlement(clock)
    <3>1. entitlement' \in [account : Accounts, expires : Nat]
      BY <2>4 DEF StoreEntitlement
    <3>2. QED
      BY <2>4, <3>1 DEF StoreEntitlement
  <2>5. CASE ClockChanges
    BY <2>5 DEF ClockChanges
  <2>6. QED
    BY <2>1, <2>2, <2>3, <2>4, <2>5 DEF GateChange
<1>3. QED
  BY <1>1, <1>2, PTL DEF Spec

\* For any tolerance, validity and number of clock changes: whoever signs out and
\* in and however the clock is moved meanwhile, a licence is not accepted at a time
\* more than the tolerance before one at which it was accepted.
THEOREM RollbackStaysRefusedAlways == Spec => []RollbackStaysRefused
<1>1. GateTypeOK /\ SeenBelowCheckpoint => RollbackStaysRefused
  BY DEF GateTypeOK, SeenBelowCheckpoint, RollbackStaysRefused, LicenseActive,
         ClockAcceptable, Times
<1>2. QED
  BY <1>1, GateInvariant, PTL

-----------------------------------------------------------------------------
(* The processes.                                                          *)

\* The types of the interface: a switch that starts a sidecar knows the old path.
UiTypeOK ==
  /\ preferred \in Paths /\ previous \in Paths \cup {None}
  /\ shown \in Sidecars \cup {None}
  /\ step \in [Tasks -> {"idle", "status", "signing in", "starting", "activating",
                         "stopping", "signing out", "resetting", "restoring", "retrying"}]
  /\ step[Workspace] = "starting" => previous \in Paths

\* A task that is not waiting for a command has called none.
CallsMade ==
  \A t \in Tasks :
    step[t] \notin {"starting", "stopping", "restoring", "retrying"} => call[t] = NoCall

\* Only the task that holds the mutex waits for a first line, and there is no runtime.
MutexHeld ==
  \A t \in Tasks :
    At(t, "awaiting") => mutex = t /\ runtime = None /\ call[t].sidecar \in Sidecars

\* All that a handler of the interface does to the processes: nothing, or its task
\* takes an answer or calls a command.
HandlerChange ==
  \/ UNCHANGED shell
  \/ \E t \in Tasks, c \in CallStates :
       /\ Invokes(t, c)
       /\ c.at \in {"none", "stop", "start", "answered"}
       /\ call[t] = NoCall \/ call[t].at \in {"answered", "failed"}

LEMMA HandlerChanges ==
  ASSUME UiTypeOK, CallsMade, Press \/ GateStep \/ WorkspaceStep \/ ClockStep
  PROVE  HandlerChange
<1> USE CallFacts DEF HandlerChange
<1>0. Gate \in Tasks /\ Workspace \in Tasks
  OBVIOUS
<1>1. ASSUME NEW t \in Tasks, Returned(t) \/ Raised(t) PROVE HandlerChange
  BY <1>1 DEF Returned, Raised, Calls, At
<1>2. ASSUME NEW t \in Tasks, NEW p \in Paths, At(t, "answered") \/ At(t, "failed"),
             Calls(t, Starting(p))
      PROVE  HandlerChange
  BY <1>2 DEF Calls, At
<1>3. CASE Press
  <2>1. CASE Quiet
    BY <2>1 DEF Quiet
  <2>2. CASE step[Gate] = "idle" /\ Calls(Gate, Stopping)
    BY <2>2, <1>0 DEF Calls, CallsMade
  <2>3. CASE step[Workspace] = "idle"
             /\ Calls(Workspace, IF shown # None THEN Stopping ELSE Answer(None))
    BY <2>3, <1>0 DEF Calls, CallsMade, Answer
  <2>4. CASE step[Workspace] = "idle" /\ Calls(Workspace, Starting(preferred))
    BY <2>4, <1>0 DEF Calls, CallsMade, UiTypeOK
  <2>5. QED
    BY <1>3, <2>1, <2>2, <2>3, <2>4
       DEF Press, PressSignIn, PressActivate, PressSignOut, PressReset, PressSwitch,
           PressRetry, BeginsTask, OnlyStep
<1>4. CASE GateStep
  <2>1. CASE Quiet
    BY <2>1 DEF Quiet
  <2>2. CASE Returned(Gate) \/ Raised(Gate)
    BY <2>2, <1>0, <1>1
  <2>3. CASE step[Gate] = "status" /\ Invokes(Gate, Starting(preferred))
    BY <2>3, <1>0 DEF CallsMade, UiTypeOK
  <2>4. QED
    BY <1>4, <2>1, <2>2, <2>3
       DEF GateStep, SignInAccepted, SignInRefused, ReadStatus, StatusFails,
           BootstrapStarted, BootstrapFails, Activate, ActivateRefused, SignOutStopped,
           SignOutFails, SignOut, ResetEnds, OnlyStep
<1>5. CASE WorkspaceStep
  <2>1. CASE Returned(Workspace) \/ Raised(Workspace)
    BY <2>1, <1>0, <1>1
  <2>2. CASE StopFailsSwitch
    BY <2>2, <1>0, <1>2 DEF StopFailsSwitch, UiTypeOK
  <2>3. CASE SwitchStarts
    BY <2>3, <1>0, <1>2 DEF SwitchStarts
  <2>4. CASE StartFailsSwitch \/ RequestFailsSwitch
    <3>1. previous \in Paths
      BY <2>4, <1>0 DEF UiTypeOK, StartFailsSwitch, RequestFailsSwitch, OnlyStep
    <3>2. QED
      BY <2>4, <3>1, <1>0, <1>2 DEF StartFailsSwitch, RequestFailsSwitch, GoBack
  <2>5. QED
    BY <1>5, <2>1, <2>2, <2>3, <2>4 DEF WorkspaceStep, SwitchEnds, Restored, RestoreFails,
       RetryStarted, RetryFails
<1>6. CASE ClockStep
  BY <1>6 DEF ClockStep
<1>7. QED
  BY <1>3, <1>4, <1>5, <1>6

LEMMA HandlerTyped == SidecarTypeOK /\ HandlerChange => SidecarTypeOK'
<1> SUFFICES ASSUME SidecarTypeOK, HandlerChange PROVE SidecarTypeOK'
  OBVIOUS
<1>1. CASE UNCHANGED shell
  BY <1>1 DEF shell, SidecarTypeOK
<1>2. ASSUME NEW t \in Tasks, NEW c \in CallStates, Invokes(t, c) PROVE SidecarTypeOK'
  <2>1. call' \in [Tasks -> CallStates]
    BY <1>2 DEF Invokes, Becomes, SidecarTypeOK
  <2>2. QED
    BY <1>2, <2>1 DEF Invokes, SidecarTypeOK
<1>3. QED
  BY <1>1, <1>2 DEF HandlerChange

\* What a step of a command does to the state that the types constrain.
LEMMA CommandTyped ==
  ASSUME SidecarTypeOK, NEW t \in Tasks, CommandStep(t)
  PROVE  SidecarTypeOK'
<1>1. call[t] \in CallStates
  BY DEF SidecarTypeOK
<1>2. ASSUME NEW s, NEW state \in WorkerStates, WorkerBecomes(s, state)
      PROVE  worker' \in [Sidecars -> WorkerStates]
  BY <1>2 DEF WorkerBecomes, SidecarTypeOK
<1>3. ASSUME NEW c \in CallStates, Becomes(t, c) PROVE call' \in [Tasks -> CallStates]
  BY <1>3 DEF Becomes, SidecarTypeOK
<1>4. {"none", "asked to exit", "abandoned"} \subseteq WorkerStates
  BY DEF WorkerStates
<1>5. CASE StartReturnsRunning(t)
  <2>1. Answer(runtime) \in CallStates
    BY CallFacts DEF Answer, SidecarTypeOK
  <2>2. QED
    BY <1>3, <1>5, <2>1 DEF StartReturnsRunning, SidecarTypeOK
<1>6. CASE StartRefused(t)
  BY <1>2, <1>3, <1>4, <1>6, CallFacts DEF StartRefused, WorkerKilled, SidecarTypeOK
<1>7. CASE StartSpawns(t)
  <2>1. spawned' \in Sidecars /\ spawned' \in 0 .. MaxStarts
    BY <1>7 DEF StartSpawns, Sidecars, SidecarTypeOK
  <2>2. call[t].path \in Paths
    BY <1>1, <1>7, CallContents DEF StartSpawns, At
  <2>3. directory' \in [Sidecars -> Paths \cup {None}]
    BY <1>7, <2>2 DEF StartSpawns, SidecarTypeOK
  <2>4. call' \in [Tasks -> CallStates]
    BY <1>3, <1>7, <2>1, CallFacts DEF StartSpawns
  <2>5. worker' \in [Sidecars -> WorkerStates]
    BY <1>7 DEF StartSpawns, SidecarTypeOK, WorkerStates
  <2>6. QED
    BY <1>7, <2>1, <2>3, <2>4, <2>5 DEF StartSpawns, SidecarTypeOK
<1>8. CASE StartReady(t)
  <2>1. call[t].sidecar \in Sidecars
    BY <1>8 DEF StartReady, SidecarTypeOK
  <2>2. call' \in [Tasks -> CallStates]
    BY <1>3, <1>8, <2>1, CallFacts DEF StartReady, Answer
  <2>3. QED
    BY <1>8, <2>1, <2>2 DEF StartReady, SidecarTypeOK
<1>9. CASE StartFails(t)
  <2>1. worker' \in [Sidecars -> WorkerStates]
    BY <1>2, <1>4, <1>9 DEF StartFails
  <2>2. call' \in [Tasks -> CallStates]
    BY <1>3, <1>9, CallFacts DEF StartFails
  <2>3. QED
    BY <1>9, <2>1, <2>2 DEF StartFails, SidecarTypeOK
<1>10. CASE StopReadsRuntime(t)
  <2>1. Answer(None) \in CallStates /\ Doing("closing", runtime) \in CallStates
    BY CallFacts DEF Answer, SidecarTypeOK
  <2>2. QED
    BY <1>3, <1>10, <2>1 DEF StopReadsRuntime, SidecarTypeOK
<1>11. CASE StopCloses(t) \/ StopRefused(t)
  <2>1. At(t, "closing") /\ call[t].sidecar \in Sidecars \cup {None}
    BY <1>1, <1>11, CallContents DEF StopCloses, StopRefused, At
  <2>2. call' \in [Tasks -> CallStates]
    BY <1>3, <1>11, <2>1, CallFacts DEF StopCloses, StopRefused
  <2>3. QED
    BY <1>11, <2>2 DEF StopCloses, StopRefused, SidecarTypeOK
<1>12. CASE StopAsks(t) \/ StopAskFails(t)
  <2>1. At(t, "asking") /\ call[t].sidecar \in Sidecars \cup {None}
    BY <1>1, <1>12, CallContents DEF StopAsks, StopAskFails, At
  <2>2. call' \in [Tasks -> CallStates]
    BY <1>3, <1>12, <2>1, CallFacts DEF StopAsks, StopAskFails
  <2>3. worker' \in [Sidecars -> WorkerStates]
    BY <1>2, <1>4, <1>12 DEF StopAsks, StopAskFails, SidecarTypeOK
  <2>4. QED
    BY <1>12, <2>2, <2>3 DEF StopAsks, StopAskFails, SidecarTypeOK
<1>13. CASE StopTakes(t) \/ StopDrops(t)
  <2>1. call' \in [Tasks -> CallStates]
    BY <1>3, <1>13, CallFacts DEF StopTakes, StopDrops, Answer, SidecarTypeOK
  <2>2. worker' \in [Sidecars -> WorkerStates]
    BY <1>2, <1>4, <1>13 DEF StopTakes, StopDrops, WorkerKilled
  <2>3. QED
    BY <1>13, <2>1, <2>2 DEF StopTakes, StopDrops, SidecarTypeOK
<1>14. QED
  BY <1>5, <1>6, <1>7, <1>8, <1>9, <1>10, <1>11, <1>12, <1>13 DEF CommandStep

LEMMA ProcessTyped ==
  ASSUME SidecarTypeOK, ProcessStep \/ Exit \/ ShellDies
  PROVE  SidecarTypeOK'
<1>1. ASSUME NEW s, NEW state \in WorkerStates, WorkerBecomes(s, state)
      PROVE  worker' \in [Sidecars -> WorkerStates]
  BY <1>1 DEF WorkerBecomes, SidecarTypeOK
<1>2. {"none", "asked to exit", "abandoned"} \subseteq WorkerStates
  BY DEF WorkerStates
<1>3. ASSUME ends < MaxEnds, ends' = ends + 1 PROVE ends' \in 0 .. MaxEnds
  BY <1>3 DEF SidecarTypeOK
<1>4. ASSUME NEW s \in Sidecars, WorkerExits(s) \/ LauncherExits(s) \/ Dies(s)
      PROVE  SidecarTypeOK'
  <2>1. worker' \in [Sidecars -> WorkerStates]
    BY <1>1, <1>2, <1>4 DEF WorkerExits, LauncherExits, Dies, SidecarTypeOK
  <2>2. launchers' \subseteq Sidecars
    BY <1>4 DEF WorkerExits, LauncherExits, Dies, SidecarTypeOK
  <2>3. QED
    BY <1>3, <1>4, <2>1, <2>2 DEF WorkerExits, LauncherExits, Dies, SidecarTypeOK
<1>5. ASSUME call' = [t \in Tasks |-> NoCall] PROVE call' \in [Tasks -> CallStates]
  BY <1>5, CallFacts
<1>6. CASE Exit
  <2>1. worker' \in [Sidecars -> WorkerStates]
    BY <1>1, <1>2, <1>6 DEF Exit, WorkerKilled
  <2>2. QED
    BY <1>3, <1>5, <1>6, <2>1 DEF Exit, SidecarTypeOK
<1>7. CASE ShellDies
  <2>1. worker' \in [Sidecars -> WorkerStates]
    BY <1>2, <1>7 DEF ShellDies, SidecarTypeOK
  <2>2. QED
    BY <1>3, <1>5, <1>7, <2>1 DEF ShellDies, SidecarTypeOK
<1>8. QED
  BY <1>4, <1>6, <1>7 DEF ProcessStep

-----------------------------------------------------------------------------
(* The interface.                                                          *)

LEMMA UiTyped == SidecarTypeOK /\ UiTypeOK /\ [Next]_vars => UiTypeOK'
<1> SUFFICES ASSUME SidecarTypeOK, UiTypeOK, [Next]_vars PROVE UiTypeOK'
  OBVIOUS
<1>0. Gate \in Tasks /\ Workspace \in Tasks /\ Gate # Workspace
  OBVIOUS
<1>1. CASE UNCHANGED ui
  BY <1>1 DEF ui, UiTypeOK
<1>2. CASE Press
  BY <1>0, <1>2 DEF Press, PressSignIn, PressActivate, PressSignOut, PressReset, PressSwitch,
     PressRetry, BeginsTask, Step, OnlyStep, UiTypeOK
<1>3. CASE GateStep
  <2>1. CASE BootstrapStarted
    <3>1. call[Gate].sidecar \in Sidecars \cup {None}
      BY <1>0, <2>1, CallContents DEF BootstrapStarted, Returned, At, SidecarTypeOK
    <3>2. QED
      BY <1>0, <2>1, <3>1 DEF BootstrapStarted, OnlyStep, UiTypeOK
  <2>2. CASE ReadStatus
    BY <1>0, <2>2 DEF ReadStatus, OnlyStep, UiTypeOK
  <2>3. CASE Activate \/ SignOut \/ SignOutStopped
    BY <1>0, <2>3 DEF Activate, SignOut, SignOutStopped, Step, OnlyStep, UiTypeOK
  <2>4. CASE SignInAccepted \/ SignInRefused \/ StatusFails \/ BootstrapFails \/ ActivateRefused
             \/ SignOutFails \/ ResetEnds
    BY <1>0, <2>4 DEF SignInAccepted, SignInRefused, StatusFails, BootstrapFails,
       ActivateRefused, SignOutFails, ResetEnds, Step, OnlyStep, UiTypeOK
  <2>5. QED
    BY <1>3, <2>1, <2>2, <2>3, <2>4 DEF GateStep
<1>4. CASE WorkspaceStep
  <2>1. At(Workspace, "answered") => call[Workspace].sidecar \in Sidecars \cup {None}
    BY <1>0, CallContents DEF At, SidecarTypeOK
  <2>2. CASE SwitchStarts
    BY <1>0, <2>2 DEF SwitchStarts, OnlyStep, UiTypeOK
  <2>3. CASE StopFailsSwitch
    BY <1>0, <2>3 DEF StopFailsSwitch, Step, OnlyStep, UiTypeOK
  <2>4. CASE SwitchEnds \/ Restored \/ RestoreFails
    BY <1>0, <2>1, <2>4 DEF SwitchEnds, Restored, RestoreFails, OnlyStep, Returned, UiTypeOK
  <2>5. CASE StartFailsSwitch \/ RequestFailsSwitch
    BY <1>0, <2>1, <2>5 DEF StartFailsSwitch, RequestFailsSwitch, GoBack, OnlyStep, UiTypeOK
  <2>6. CASE RetryStarted \/ RetryFails
    BY <1>0, <2>1, <2>6 DEF RetryStarted, RetryFails, Step, OnlyStep, Returned, UiTypeOK
  <2>7. QED
    BY <1>4, <2>2, <2>3, <2>4, <2>5, <2>6 DEF WorkspaceStep
<1>5. CASE Reopen
  BY <1>0, <1>5 DEF Reopen, Opened, UiTypeOK
<1>6. QED
  BY <1>1, <1>2, <1>3, <1>4, <1>5 DEF Next, Command, ClockStep, vars, ui

LEMMA CallsStayMade == SidecarTypeOK /\ UiTypeOK /\ CallsMade /\ [Next]_vars => CallsMade'
<1> SUFFICES ASSUME SidecarTypeOK, UiTypeOK, CallsMade, [Next]_vars PROVE CallsMade'
  OBVIOUS
<1>0. /\ Tasks = {Gate, Workspace} /\ Gate # Workspace
      /\ call \in [Tasks -> CallStates] /\ DOMAIN step = Tasks
  BY DEF SidecarTypeOK, UiTypeOK
<1> DEFINE Calling == {"starting", "stopping", "restoring", "retrying"}
<1>a. ASSUME NEW t \in Tasks, NEW c, NEW j, NEW k \in Calling, OnlyStep(t, j, k), Calls(t, c)
      PROVE  CallsMade'
  BY <1>0, <1>a DEF OnlyStep, Calls, Invokes, Becomes, CallsMade
<1>b. ASSUME NEW t \in Tasks, NEW j, NEW k, OnlyStep(t, j, k), Returned(t) \/ Raised(t)
      PROVE  CallsMade'
  BY <1>0, <1>b DEF OnlyStep, Returned, Raised, Calls, Invokes, Becomes, CallsMade
<1>c. ASSUME NEW t \in Tasks, NEW j, NEW k, OnlyStep(t, j, k), j \notin Calling, Quiet
      PROVE  CallsMade'
  BY <1>0, <1>c DEF OnlyStep, Quiet, shell, CallsMade
<1>2. CASE Press
  <2>1. CASE PressSignIn \/ PressActivate \/ PressReset
    BY <1>0, <1>c, <2>1 DEF PressSignIn, PressActivate, PressReset, Step
  <2>2. CASE PressSignOut
    BY <1>0, <1>a, <1>c, <2>2 DEF PressSignOut
  <2>3. CASE PressSwitch \/ PressRetry
    BY <1>0, <1>a, <2>3 DEF PressSwitch, PressRetry, BeginsTask
  <2>4. QED
    BY <1>2, <2>1, <2>2, <2>3 DEF Press
<1>3. CASE GateStep
  <2>1. CASE SignInAccepted \/ SignInRefused \/ StatusFails \/ ActivateRefused \/ ResetEnds
    BY <1>0, <1>c, <2>1
       DEF SignInAccepted, SignInRefused, StatusFails, ActivateRefused, ResetEnds, Step
  <2>2. CASE Activate \/ SignOut
    BY <1>0, <1>c, <2>2 DEF Activate, SignOut, Step
  <2>3. CASE ReadStatus
    BY <1>0, <1>c, <2>3 DEF ReadStatus, OnlyStep, Invokes, Becomes, CallsMade
  <2>4. CASE BootstrapStarted \/ BootstrapFails
    BY <1>0, <1>b, <2>4 DEF BootstrapStarted, BootstrapFails, Step
  <2>5. CASE SignOutStopped \/ SignOutFails
    BY <1>0, <1>b, <2>5 DEF SignOutStopped, SignOutFails, Step
  <2>6. QED
    BY <1>3, <2>1, <2>2, <2>3, <2>4, <2>5 DEF GateStep
<1>4. CASE WorkspaceStep
  <2>1. CASE SwitchStarts \/ StopFailsSwitch
    BY <1>0, <1>a, <2>1 DEF SwitchStarts, StopFailsSwitch, Step
  <2>2. CASE StartFailsSwitch \/ RequestFailsSwitch
    BY <1>0, <1>a, <2>2 DEF StartFailsSwitch, RequestFailsSwitch, GoBack
  <2>3. CASE SwitchEnds \/ Restored \/ RestoreFails \/ RetryStarted \/ RetryFails
    BY <1>0, <1>b, <2>3 DEF SwitchEnds, Restored, RestoreFails, RetryStarted, RetryFails, Step
  <2>4. QED
    BY <1>4, <2>1, <2>2, <2>3 DEF WorkspaceStep
<1>5. ASSUME NEW t \in Tasks, Command(t) PROVE CallsMade'
  <2>1. call[t] # NoCall /\ \E c : call' = [call EXCEPT ![t] = c]
    BY <1>5, CallFacts DEF Command, CommandStep, StartReturnsRunning, StartRefused,
       StartSpawns, StartReady, StartFails, StopReadsRuntime, StopCloses, StopRefused,
       StopAsks, StopAskFails, StopTakes, StopDrops, Becomes, At
  <2>2. QED
    BY <1>0, <1>5, <2>1 DEF Command, ui, CallsMade
<1>6. CASE ProcessStep /\ UNCHANGED ui
  BY <1>6 DEF ProcessStep, WorkerExits, LauncherExits, Dies, ui, CallsMade
<1>7. CASE Reopen
  BY <1>7 DEF Reopen, Exit, ShellDies, CallsMade
<1>8. CASE ClockStep \/ UNCHANGED vars
  BY <1>8 DEF vars, shell, ui, ClockStep, CallsMade
<1>9. QED
  BY <1>2, <1>3, <1>4, <1>5, <1>6, <1>7, <1>8 DEF Next

-----------------------------------------------------------------------------
(* The owner of a sidecar.                                                 *)

\* A handler leaves the mutex, the runtime, the workers and the awaiting task alone.
LEMMA HandlerKeepsOwner ==
  SidecarTypeOK /\ MutexHeld /\ OneOwnedSidecar /\ HandlerChange => (MutexHeld /\ OneOwnedSidecar)'
<1> SUFFICES ASSUME SidecarTypeOK, MutexHeld, OneOwnedSidecar, HandlerChange
             PROVE  (MutexHeld /\ OneOwnedSidecar)'
  OBVIOUS
<1>1. CASE UNCHANGED shell
  BY <1>1 DEF shell, MutexHeld, At, OneOwnedSidecar, Serving
<1>2. ASSUME NEW t \in Tasks, NEW c \in CallStates, Invokes(t, c),
             c.at \in {"none", "stop", "start", "answered"},
             call[t] = NoCall \/ call[t].at \in {"answered", "failed"}
      PROVE  (MutexHeld /\ OneOwnedSidecar)'
  <2>1. \A u \in Tasks : At(u, "awaiting")' => At(u, "awaiting") /\ call'[u] = call[u]
    BY <1>2 DEF Invokes, Becomes, At, SidecarTypeOK
  <2>2. \A u \in Tasks : At(u, "awaiting") => call'[u] = call[u]
    BY <1>2, CallFacts DEF Invokes, Becomes, At, SidecarTypeOK
  <2>3. MutexHeld'
    BY <1>2, <2>1 DEF Invokes, MutexHeld
  <2>4. \A u \in Tasks : \A s : call[u] = Doing("awaiting", s) => call'[u] = call[u]
    BY <2>2, CallFacts DEF At
  <2>5. OneOwnedSidecar'
    BY <1>2, <2>4 DEF Invokes, OneOwnedSidecar, Serving
  <2>6. QED
    BY <2>3, <2>5
<1>3. QED
  BY <1>1, <1>2 DEF HandlerChange

\* Who waits for a first line when the mutex is free, or when somebody else does.
LEMMA OnlyHolderAwaits ==
  ASSUME MutexHeld
  PROVE  /\ MutexFree => \A u \in Tasks : ~At(u, "awaiting")
         /\ \A t, u \in Tasks : At(t, "awaiting") /\ At(u, "awaiting") => t = u
BY DEF MutexHeld, MutexFree

\* Nobody else's worker begins to serve when that of s becomes something else.
LEMMA NoneBeginsToServe ==
  ASSUME SidecarTypeOK, NEW s, NEW state \in {"none", "asked to exit", "abandoned"},
         WorkerBecomes(s, state)
  PROVE  Serving' \subseteq Serving \ {s}
BY DEF WorkerBecomes, Alive, Serving, SidecarTypeOK

LEMMA CommandKeepsMutex ==
  ASSUME SidecarTypeOK, MutexHeld, NEW t \in Tasks, CommandStep(t)
  PROVE  MutexHeld'
<1>1. call \in [Tasks -> CallStates]
  BY DEF SidecarTypeOK
<1>2. ASSUME NEW c, c.at # "awaiting", Becomes(t, c)
      PROVE  \A u \in Tasks : At(u, "awaiting")' => u # t /\ At(u, "awaiting") /\ call'[u] = call[u]
  BY <1>1, <1>2 DEF Becomes, At
<1>3. CASE StartSpawns(t)
  <2>1. \A u \in Tasks : At(u, "awaiting")' => u = t
    BY <1>1, <1>3, OnlyHolderAwaits DEF StartSpawns, Becomes, At
  <2>2. call'[t].sidecar = spawned' /\ spawned' \in Sidecars
    BY <1>1, <1>3, CallFacts DEF StartSpawns, Becomes, Sidecars, SidecarTypeOK
  <2>3. QED
    BY <1>3, <2>1, <2>2 DEF StartSpawns, MutexHeld
<1>4. CASE StartReady(t) \/ StartFails(t)
  <2>1. At(t, "awaiting")
    BY <1>4 DEF StartReady, StartFails
  <2>2. \E c : c.at # "awaiting" /\ Becomes(t, c)
    BY <1>4, CallFacts DEF StartReady, StartFails, Answer
  <2>3. \A u \in Tasks : ~At(u, "awaiting")'
    BY <1>2, <2>1, <2>2, OnlyHolderAwaits
  <2>4. QED
    BY <2>3 DEF MutexHeld
<1>5. CASE StartReturnsRunning(t) \/ StartRefused(t) \/ StopReadsRuntime(t)
  <2>1. \E c : c.at # "awaiting" /\ Becomes(t, c)
    BY <1>5, CallFacts DEF StartReturnsRunning, StartRefused, StopReadsRuntime, Answer
  <2>2. MutexFree
    BY <1>5 DEF StartReturnsRunning, StartRefused, StopReadsRuntime
  <2>3. QED
    BY <1>2, <2>1, <2>2, OnlyHolderAwaits DEF MutexHeld
<1>6. CASE StopCloses(t) \/ StopRefused(t) \/ StopAsks(t) \/ StopAskFails(t) \/ StopDrops(t)
           \/ StopTakes(t)
  <2>1. \E c : c.at # "awaiting" /\ Becomes(t, c)
    <3>1. CASE StopCloses(t) \/ StopAsks(t)
      <4>1. PICK at \in {"asking", "asked"} : Becomes(t, Doing(at, call[t].sidecar))
        BY <3>1 DEF StopCloses, StopAsks
      <4>2. QED
        BY <4>1, CallFacts
    <3>2. CASE StopRefused(t) \/ StopAskFails(t)
      BY <3>2, CallFacts DEF StopRefused, StopAskFails
    <3>3. CASE StopTakes(t)
      <4>1. Becomes(t, Doing("dropping", runtime))
        BY <3>3 DEF StopTakes
      <4>2. QED
        BY <4>1, CallFacts
    <3>4. CASE StopDrops(t)
      <4>1. Becomes(t, Doing("answered", None))
        BY <3>4 DEF StopDrops, Answer
      <4>2. QED
        BY <4>1, CallFacts
    <3>5. QED
      BY <1>6, <3>1, <3>2, <3>3, <3>4
  <2>2. mutex' = mutex /\ runtime' \in {runtime, None}
    BY <1>6 DEF StopCloses, StopRefused, StopAsks, StopAskFails, StopDrops, StopTakes
  <2>3. QED
    BY <1>2, <2>1, <2>2 DEF MutexHeld
<1>7. QED
  BY <1>3, <1>4, <1>5, <1>6 DEF CommandStep

LEMMA CommandKeepsOwner ==
  ASSUME SidecarTypeOK, MutexHeld, OneOwnedSidecar, NEW t \in Tasks, CommandStep(t)
  PROVE  OneOwnedSidecar'
<1> DEFINE AwaitedBy(u, s) == call[u] = Doing("awaiting", s)
<1>1. call \in [Tasks -> CallStates] /\ None \notin Serving
  BY DEF SidecarTypeOK, Serving
<1>2. \A s \in Serving : s = runtime \/ \E u \in Tasks : AwaitedBy(u, s)
  BY DEF OneOwnedSidecar
<1>3. \A u, s : AwaitedBy(u, s) => At(u, "awaiting") /\ call[u].sidecar = s
  BY CallFacts DEF At
<1>4. ASSUME Serving' \subseteq Serving,
             \A s \in Serving' : s = runtime' \/ \E u \in Tasks : call'[u] = Doing("awaiting", s)
      PROVE  OneOwnedSidecar'
  BY <1>4 DEF OneOwnedSidecar
<1>5. ASSUME ~At(t, "awaiting"), NEW c, Becomes(t, c)
      PROVE  \A u \in Tasks : \A s : AwaitedBy(u, s) => call'[u] = Doing("awaiting", s)
  BY <1>1, <1>3, <1>5 DEF Becomes
<1>6. ASSUME ~At(t, "awaiting"), NEW c, Becomes(t, c), Serving' \subseteq Serving,
             runtime' = runtime \/ runtime \notin Serving'
      PROVE  OneOwnedSidecar'
  BY <1>2, <1>4, <1>5, <1>6
<1>7. CASE StartReturnsRunning(t) \/ StopReadsRuntime(t) \/ StopCloses(t) \/ StopRefused(t)
  <2>1. ~At(t, "awaiting") /\ \E c : Becomes(t, c)
    BY <1>7 DEF StartReturnsRunning, StopReadsRuntime, StopCloses, StopRefused, At
  <2>2. worker' = worker /\ runtime' = runtime
    BY <1>7 DEF StartReturnsRunning, StopReadsRuntime, StopCloses, StopRefused
  <2>3. QED
    BY <1>6, <2>1, <2>2 DEF Serving
<1>8. CASE StartRefused(t) \/ StopTakes(t)
  <2>1. ~At(t, "awaiting") /\ \E c : Becomes(t, c)
    BY <1>8 DEF StartRefused, StopTakes, At
  <2>2. Serving' \subseteq Serving \ {runtime}
    BY <1>8, NoneBeginsToServe DEF StartRefused, StopTakes, WorkerKilled
  <2>3. QED
    BY <1>6, <2>1, <2>2
<1>9. CASE StartSpawns(t)
  <2>1. \A s \in Serving : s = runtime
    BY <1>2, <1>3, <1>9, OnlyHolderAwaits DEF StartSpawns
  <2>2. \A s \in Serving' : s = spawned'
    BY <1>9, <2>1 DEF StartSpawns, Serving, SidecarTypeOK
  <2>3. call'[t] = Doing("awaiting", spawned')
    BY <1>1, <1>9 DEF StartSpawns, Becomes
  <2>4. QED
    BY <2>2, <2>3 DEF OneOwnedSidecar
<1>10. CASE StartReady(t) \/ StartFails(t)
  <2>1. At(t, "awaiting") /\ runtime = None
    BY <1>10 DEF StartReady, StartFails, MutexHeld
  <2>2. \A s \in Serving : s = call[t].sidecar
    BY <1>1, <1>2, <1>3, <2>1, OnlyHolderAwaits
  <2>3. CASE StartReady(t)
    BY <2>2, <2>3, <1>4 DEF StartReady, Serving
  <2>4. CASE StartFails(t)
    <3>1. Serving' \subseteq Serving \ {call[t].sidecar}
      BY <2>4, NoneBeginsToServe DEF StartFails
    <3>2. QED
      BY <1>4, <2>2, <3>1
  <2>5. QED
    BY <1>10, <2>3, <2>4
<1>11. CASE StopAsks(t) \/ StopAskFails(t) \/ StopDrops(t)
  <2>1. ~At(t, "awaiting") /\ \E c : Becomes(t, c)
    BY <1>11 DEF StopAsks, StopAskFails, StopDrops, At
  <2>2. Serving' \subseteq Serving
    BY <1>11, NoneBeginsToServe DEF StopAsks, StopAskFails, StopDrops, WorkerKilled, Serving
  <2>3. runtime' = runtime
    BY <1>11 DEF StopAsks, StopAskFails, StopDrops
  <2>4. QED
    BY <1>6, <2>1, <2>2, <2>3
<1>12. QED
  BY <1>7, <1>8, <1>9, <1>10, <1>11 DEF CommandStep

LEMMA ProcessKeepsOwner ==
  ASSUME SidecarTypeOK, MutexHeld, OneOwnedSidecar, ProcessStep \/ Exit \/ ShellDies
  PROVE  (MutexHeld /\ OneOwnedSidecar)'
<1>1. ASSUME NEW s \in Sidecars, WorkerExits(s) \/ LauncherExits(s) \/ Dies(s)
      PROVE  (MutexHeld /\ OneOwnedSidecar)'
  <2>1. Serving' \subseteq Serving
    BY <1>1, NoneBeginsToServe DEF WorkerExits, LauncherExits, Dies, Serving
  <2>2. UNCHANGED <<call, runtime, mutex>>
    BY <1>1 DEF WorkerExits, LauncherExits, Dies
  <2>3. QED
    BY <2>1, <2>2 DEF MutexHeld, At, OneOwnedSidecar
<1>2. ASSUME call' = [t \in Tasks |-> NoCall] PROVE MutexHeld'
  BY <1>2, CallFacts DEF MutexHeld, At
<1>3. CASE Exit
  <2>1. \A s \in Serving : s = runtime
    BY <1>3, CallFacts, OnlyHolderAwaits DEF Exit, OneOwnedSidecar, At
  <2>2. Serving' \subseteq Serving \ {runtime}
    BY <1>3, NoneBeginsToServe DEF Exit, WorkerKilled
  <2>3. QED
    BY <1>2, <1>3, <2>1, <2>2 DEF Exit, OneOwnedSidecar
<1>4. CASE ShellDies
  <2>1. Serving' = {}
    BY <1>4 DEF ShellDies, Serving, SidecarTypeOK
  <2>2. QED
    BY <1>2, <1>4, <2>1 DEF ShellDies, OneOwnedSidecar
<1>5. QED
  BY <1>1, <1>3, <1>4 DEF ProcessStep

\* The inductive invariant: types, who has called what, and who holds the mutex.
ShellInv ==
  SidecarTypeOK /\ UiTypeOK /\ CallsMade /\ MutexHeld /\ OneOwnedSidecar

LEMMA ShellInitHolds == Init => ShellInv
<1> SUFFICES ASSUME Init PROVE ShellInv
  OBVIOUS
<1>1. SidecarTypeOK
  BY CallFacts DEF Init, SidecarInit, SidecarTypeOK, WorkerStates
<1>2. UiTypeOK
  BY DEF Init, UiTypeOK, Opened
<1>3. CallsMade /\ MutexHeld
  BY CallFacts DEF Init, SidecarInit, CallsMade, MutexHeld, At
<1>4. OneOwnedSidecar
  BY DEF Init, SidecarInit, OneOwnedSidecar, Serving
<1>5. QED
  BY <1>1, <1>2, <1>3, <1>4 DEF ShellInv

LEMMA ShellKept == ShellInv /\ [Next]_vars => ShellInv'
<1> SUFFICES ASSUME ShellInv, [Next]_vars PROVE ShellInv'
  OBVIOUS
<1>0. SidecarTypeOK /\ UiTypeOK /\ CallsMade /\ MutexHeld /\ OneOwnedSidecar
  BY DEF ShellInv
<1>1. UiTypeOK' /\ CallsMade'
  BY <1>0, UiTyped, CallsStayMade
<1>2. CASE HandlerChange
  BY <1>0, <1>1, <1>2, HandlerTyped, HandlerKeepsOwner DEF ShellInv
<1>3. ASSUME NEW t \in Tasks, Command(t) PROVE ShellInv'
  BY <1>0, <1>1, <1>3, CommandTyped, CommandKeepsMutex, CommandKeepsOwner
     DEF ShellInv, Command
<1>4. CASE ProcessStep \/ Exit \/ ShellDies
  BY <1>0, <1>1, <1>4, ProcessTyped, ProcessKeepsOwner DEF ShellInv
<1>5. CASE Press \/ GateStep \/ WorkspaceStep \/ ClockStep
  BY <1>0, <1>2, <1>5, HandlerChanges
<1>6. CASE UNCHANGED vars
  BY <1>2, <1>6 DEF vars, HandlerChange
<1>7. QED
  BY <1>3, <1>4, <1>5, <1>6 DEF Next, Reopen

\* For any number of sidecars, directories and ends of processes: through stops and
\* starts that overlap, a worker that nobody asked to exit belongs to the runtime or
\* to the start in progress, and there is only one.
THEOREM OneOwnedSidecarAlways == Spec => []OneOwnedSidecar
BY ShellInitHolds, ShellKept, PTL DEF Spec, ShellInv

-----------------------------------------------------------------------------
(* What the interface knows of the sidecar.                                *)

\* The steps of a task, and where its command can be meanwhile.
Fits(t, k, c) ==
  /\ t = Gate => k \notin {"restoring", "retrying"}
  /\ t = Workspace => k \in {"idle", "stopping", "starting", "restoring", "retrying"}
  /\ k = "stopping" =>
       c.at \in {"stop", "closing", "asking", "asked", "dropping", "answered", "failed"}
  /\ k \in {"starting", "restoring", "retrying"} =>
       c.at \in {"start", "awaiting", "answered", "failed"}

StepCalls == \A t \in Tasks : Fits(t, step[t], call[t])

\* A task of the gate that starts or stops overlaps one of the workspace only with
\* a mark.
Apart ==
  step[Gate] \in {"starting", "stopping", "signing out"} /\ step[Workspace] # "idle" => disturbed

\* What is shown of the account, and that a switch that goes on after a sign-out has
\* no licence to start a sidecar with.
ViewInv ==
  /\ view.active => view.account # None
  /\ step[Gate] \in {"starting", "activating"} => view.account # None
  /\ step[Gate] = "resetting" => view.account = None
  /\ step[Gate] = "status" /\ session = None /\ (view.active \/ step[Workspace] # "idle") =>
       entitlement = None
  /\ view.account = None /\ step[Workspace] # "idle" => entitlement = None

\* What the runtime r is while a task is at step k and its command at c.
AnswerKnown(k, c, r) ==
  /\ k = "stopping" /\ c.at \in {"dropping", "answered"} => r = None
  /\ k \in {"starting", "restoring", "retrying"} /\ c.at = "answered" => r = c.sidecar
  /\ k \in {"starting", "restoring", "retrying"} /\ c.at = "failed" => r = None

\* The runtime is the one that is shown, or the one that a command has answered.
RuntimeKnown ==
  /\ step[Workspace] = "idle" /\ step[Gate] # "starting" => runtime \in {None, shown}
  /\ \A t \in Tasks : AnswerKnown(step[t], call[t], runtime)

\* A start is for directory p, among the directories d.
PathKnown(c, d, p) ==
  /\ c.at = "start" => c.path = p
  /\ c.at = "awaiting" => d[c.sidecar] = p

\* The runtime, the next one too, has the directory of the setting.
DirectoryKnown ==
  /\ runtime # None => directory[runtime] = preferred
  /\ \A t \in Tasks : PathKnown(call[t], directory, preferred)

\* No sidecar serves without an account.
NoneWithoutAccount ==
  session = None \/ view.account = None \/ step[Gate] = "signing out" => Serving = {}

InterfaceInv ==
  /\ StepCalls /\ Apart /\ ViewInv
  /\ ~disturbed => RuntimeKnown /\ DirectoryKnown /\ NoneWithoutAccount

LEMMA InterfaceInitHolds == Init => InterfaceInv
<1> SUFFICES ASSUME Init PROVE InterfaceInv
  OBVIOUS
<1>1. /\ step[Gate] = "status" /\ step[Workspace] = "idle" /\ session = None
      /\ \A t \in Tasks : call[t] = NoCall
      /\ view.account = None /\ ~view.active /\ runtime = None
  BY DEF Init, Opened, GateInit, SidecarInit, NotSignedIn
<1>2. StepCalls /\ Apart /\ ViewInv
  BY <1>1 DEF StepCalls, Fits, Apart, ViewInv
<1>3. RuntimeKnown /\ DirectoryKnown
  BY <1>1, CallFacts DEF RuntimeKnown, DirectoryKnown, AnswerKnown, PathKnown
<1>4. Serving = {}
  BY DEF Init, SidecarInit, Serving
<1> QED BY <1>2, <1>3, <1>4 DEF InterfaceInv, NoneWithoutAccount

LEMMA StepFacts ==
  ASSUME UiTypeOK, NEW t \in Tasks, NEW j, NEW k, OnlyStep(t, j, k)
  PROVE  /\ step[t] = j /\ step'[t] = k
         /\ \A u \in Tasks : u # t => step'[u] = step[u]
BY DEF OnlyStep, UiTypeOK

LEMMA InvokeFacts ==
  ASSUME SidecarTypeOK, NEW t \in Tasks, NEW c, Invokes(t, c)
  PROVE  /\ call'[t] = c /\ \A u \in Tasks : u # t => call'[u] = call[u]
         /\ UNCHANGED <<runtime, directory>> /\ Serving' = Serving
BY DEF Invokes, Becomes, SidecarTypeOK, Serving

LEMMA FitsKept ==
  ASSUME ShellInv, StepCalls, [Next]_vars
  PROVE  StepCalls'
<1>0. /\ SidecarTypeOK /\ UiTypeOK /\ CallsMade
      /\ Gate \in Tasks /\ Workspace \in Tasks /\ Gate # Workspace
  BY DEF ShellInv
<1>a. ASSUME NEW t \in Tasks, NEW j, NEW k, NEW c,
             OnlyStep(t, j, k), Invokes(t, c), Fits(t, k, c)
      PROVE  StepCalls'
  BY <1>0, <1>a, StepFacts, InvokeFacts DEF StepCalls
<1>b. ASSUME NEW j, NEW k, k \notin {"stopping", "starting", "restoring", "retrying"},
             OnlyStep(Gate, j, k), Quiet
      PROVE  StepCalls'
  <2>1. Fits(Gate, k, call[Gate])
    BY <1>0, <1>b DEF Fits
  <2>2. call' = call
    BY <1>b DEF Quiet, shell
  <2> QED BY <1>0, <1>b, <2>1, <2>2, StepFacts DEF StepCalls
<1>c. /\ \A t \in Tasks : Fits(t, "idle", NoCall)
      /\ Fits(Gate, "signing out", NoCall)
      /\ \A t \in Tasks : Fits(t, "stopping", Stopping) /\ Fits(t, "stopping", Answer(None))
      /\ \A p \in Paths : /\ \A t \in Tasks : Fits(t, "starting", Starting(p))
                           /\ Fits(Workspace, "restoring", Starting(p))
                           /\ Fits(Workspace, "retrying", Starting(p))
  BY <1>0, CallFacts DEF Fits, Answer
<1>1. CASE Press
  <2>1. CASE PressSignIn \/ PressActivate \/ PressReset
    BY <1>b, <2>1 DEF PressSignIn, PressActivate, PressReset, Step
  <2>2. CASE PressSignOut
    BY <1>0, <1>a, <1>b, <1>c, <2>2 DEF PressSignOut, Calls
  <2>3. CASE PressSwitch
    BY <1>0, <1>a, <1>c, <2>3 DEF PressSwitch, BeginsTask, Calls
  <2>4. CASE PressRetry
    <3>1. preferred \in Paths
      BY <1>0 DEF UiTypeOK
    <3> QED BY <1>0, <1>a, <1>c, <2>4, <3>1 DEF PressRetry, BeginsTask, Calls
  <2> QED BY <1>1, <2>1, <2>2, <2>3, <2>4 DEF Press
<1>2. CASE GateStep
  <2>1. CASE SignInAccepted \/ SignInRefused \/ StatusFails \/ ActivateRefused \/ ResetEnds
    BY <1>b, <2>1 DEF SignInAccepted, SignInRefused, StatusFails, ActivateRefused, ResetEnds, Step
  <2>2. CASE Activate \/ SignOut
    BY <1>b, <2>2 DEF Activate, SignOut, Step
  <2>3. CASE ReadStatus
    <3>1. preferred \in Paths
      BY <1>0 DEF UiTypeOK
    <3> QED BY <1>0, <1>a, <1>b, <1>c, <2>3, <3>1 DEF ReadStatus
  <2>4. CASE BootstrapStarted \/ BootstrapFails \/ SignOutStopped \/ SignOutFails
    BY <1>0, <1>a, <1>c, <2>4
       DEF BootstrapStarted, BootstrapFails, SignOutStopped, SignOutFails, Step, Returned,
           Raised, Calls
  <2> QED BY <1>2, <2>1, <2>2, <2>3, <2>4 DEF GateStep
<1>3. CASE WorkspaceStep
  <2>1. CASE SwitchStarts \/ StopFailsSwitch
    <3>1. preferred \in Paths
      BY <1>0 DEF UiTypeOK
    <3> QED BY <1>0, <1>a, <1>c, <2>1, <3>1 DEF SwitchStarts, StopFailsSwitch, Step, Calls
  <2>2. CASE StartFailsSwitch \/ RequestFailsSwitch
    <3>1. previous \in Paths
      BY <1>0, <2>2 DEF UiTypeOK, StartFailsSwitch, RequestFailsSwitch, OnlyStep
    <3> QED BY <1>0, <1>a, <1>c, <2>2, <3>1
               DEF StartFailsSwitch, RequestFailsSwitch, GoBack, Calls
  <2>3. CASE SwitchEnds \/ Restored \/ RestoreFails \/ RetryStarted \/ RetryFails
    BY <1>0, <1>a, <1>c, <2>3
       DEF SwitchEnds, Restored, RestoreFails, RetryStarted, RetryFails, Step, Returned,
           Raised, Calls
  <2> QED BY <1>3, <2>1, <2>2, <2>3 DEF WorkspaceStep
<1>4. ASSUME NEW t \in Tasks, Command(t)
      PROVE  StepCalls'
  <2>1. Fits(t, step[t], call[t])
    BY DEF StepCalls
  <2>2. PICK c : Becomes(t, c) /\ Fits(t, step[t], c)
    <3>1. CASE \/ StartReturnsRunning(t) \/ StartRefused(t) \/ StartSpawns(t)
               \/ StartReady(t) \/ StartFails(t)
      <4>1. /\ step[t] # "stopping"
            /\ \E c : Becomes(t, c) /\ c.at \in {"answered", "failed", "awaiting"}
        BY <2>1, <3>1, CallFacts DEF Fits, StartReturnsRunning, StartRefused, StartSpawns,
           StartReady, StartFails, At, Answer
      <4> QED BY <2>1, <4>1 DEF Fits
    <3>2. CASE \/ StopReadsRuntime(t) \/ StopCloses(t) \/ StopRefused(t) \/ StopAsks(t)
               \/ StopAskFails(t) \/ StopTakes(t) \/ StopDrops(t)
      <4>1. step[t] \notin {"starting", "restoring", "retrying"}
        BY <2>1, <3>2 DEF Fits, StopReadsRuntime, StopCloses, StopRefused, StopAsks,
           StopAskFails, StopTakes, StopDrops, At
      <4>2. CASE StopReadsRuntime(t)
        <5>1. PICK c \in {Answer(None), Doing("closing", runtime)} : Becomes(t, c)
          BY <4>2 DEF StopReadsRuntime
        <5> QED BY <2>1, <4>1, <5>1, CallFacts DEF Fits, Answer
      <4>3. CASE StopCloses(t) \/ StopAsks(t) \/ StopTakes(t) \/ StopDrops(t)
        <5>1. PICK at \in {"asking", "asked", "dropping", "answered"} :
                \E x : Becomes(t, Doing(at, x))
          BY <4>3 DEF StopCloses, StopAsks, StopTakes, StopDrops, Answer
        <5> QED BY <2>1, <4>1, <5>1, CallFacts DEF Fits
      <4>4. CASE StopRefused(t) \/ StopAskFails(t)
        BY <2>1, <4>1, <4>4, CallFacts DEF Fits, StopRefused, StopAskFails
      <4> QED BY <3>2, <4>2, <4>3, <4>4
    <3> QED BY <1>4, <3>1, <3>2 DEF Command, CommandStep
  <2>3. call'[t] = c /\ \A u \in Tasks : u # t => call'[u] = call[u]
    BY <1>0, <2>2 DEF Becomes, SidecarTypeOK
  <2> QED BY <1>4, <2>2, <2>3 DEF Command, ui, StepCalls
<1>5. CASE ProcessStep /\ UNCHANGED ui
  BY <1>5 DEF ProcessStep, WorkerExits, LauncherExits, Dies, ui, StepCalls
<1>6. CASE Reopen
  BY <1>c, <1>6 DEF Reopen, Exit, ShellDies, Opened, StepCalls, Fits
<1>7. CASE ClockStep \/ UNCHANGED vars
  BY <1>7 DEF vars, shell, ui, ClockStep, StepCalls
<1> QED BY <1>1, <1>2, <1>3, <1>4, <1>5, <1>6, <1>7 DEF Next

LEMMA ReadFacts ==
  ASSUME ShellInv, ReadStatus
  PROVE  /\ step[Gate] = "status" /\ step'[Workspace] = step[Workspace]
         /\ disturbed => disturbed'
         /\ \/ step'[Gate] = "idle" /\ UNCHANGED <<shell, disturbed>> /\ ~LicenseActive
            \/ /\ step'[Gate] = "starting" /\ Invokes(Gate, Starting(preferred))
               /\ LicenseActive /\ (step[Workspace] # "idle" => disturbed')
<1>0. /\ UiTypeOK /\ Gate \in Tasks /\ Workspace \in Tasks /\ Gate # Workspace
  BY DEF ShellInv
<1>1. \/ OnlyStep(Gate, "status", "idle") /\ Quiet /\ disturbed' = disturbed /\ ~LicenseActive
      \/ /\ OnlyStep(Gate, "status", "starting") /\ Invokes(Gate, Starting(preferred))
         /\ LicenseActive /\ disturbed' = (disturbed \/ step[Workspace] # "idle")
  BY Zenon DEF ReadStatus
<1>2. CASE OnlyStep(Gate, "status", "idle") /\ Quiet /\ disturbed' = disturbed /\ ~LicenseActive
  <2>1. step[Gate] = "status" /\ step'[Gate] = "idle" /\ step'[Workspace] = step[Workspace]
    BY <1>0, <1>2, StepFacts
  <2> QED BY <1>2, <2>1 DEF Quiet
<1>3. CASE /\ OnlyStep(Gate, "status", "starting") /\ Invokes(Gate, Starting(preferred))
           /\ LicenseActive /\ disturbed' = (disturbed \/ step[Workspace] # "idle")
  <2>1. step[Gate] = "status" /\ step'[Gate] = "starting" /\ step'[Workspace] = step[Workspace]
    BY <1>0, <1>3, StepFacts
  <2>2. (disturbed => disturbed') /\ (step[Workspace] # "idle" => disturbed')
    BY <1>3
  <2> QED BY <1>3, <2>1, <2>2
<1> QED BY <1>1, <1>2, <1>3

LEMMA ApartKept ==
  ASSUME ShellInv, Apart, [Next]_vars
  PROVE  Apart' /\ (disturbed => disturbed')
<1>0. /\ UiTypeOK /\ Gate \in Tasks /\ Workspace \in Tasks /\ Gate # Workspace
  BY DEF ShellInv
<1>a. ASSUME disturbed => disturbed',
             \/ step'[Workspace] = "idle"
             \/ step'[Gate] \notin {"starting", "stopping", "signing out"}
             \/ disturbed'
             \/ step'[Gate] = step[Gate] /\ step[Workspace] # "idle"
             \/ /\ step[Gate] \in {"starting", "stopping", "signing out"}
                /\ step'[Workspace] = step[Workspace]
      PROVE  Apart' /\ (disturbed => disturbed')
  BY <1>a DEF Apart
<1>b. ASSUME NEW j, NEW k, OnlyStep(Gate, j, k), UNCHANGED disturbed,
             \/ k \notin {"starting", "stopping", "signing out"}
             \/ j \in {"starting", "stopping", "signing out"}
      PROVE  Apart' /\ (disturbed => disturbed')
  <2>1. step[Gate] = j /\ step'[Gate] = k /\ step'[Workspace] = step[Workspace]
    BY <1>0, <1>b, StepFacts
  <2>2. disturbed => disturbed'
    BY <1>b
  <2> QED BY <1>a, <1>b, <2>1, <2>2
<1>c. ASSUME NEW j, NEW k, j # "idle", OnlyStep(Workspace, j, k), disturbed => disturbed'
      PROVE  Apart' /\ (disturbed => disturbed')
  <2>1. step[Workspace] = j /\ step'[Gate] = step[Gate]
    BY <1>0, <1>c, StepFacts
  <2> QED BY <1>a, <1>c, <2>1
<1>1. CASE PressSignIn \/ PressActivate \/ PressReset
  BY <1>1, <1>b DEF PressSignIn, PressActivate, PressReset, Step
<1>2. CASE PressSignOut
  <2>1. PICK k : OnlyStep(Gate, "idle", k)
    BY <1>2, Zenon DEF PressSignOut
  <2>2. disturbed' = (disturbed \/ step[Workspace] # "idle")
    BY <1>2, Zenon DEF PressSignOut
  <2>3. step'[Workspace] = step[Workspace]
    BY <1>0, <2>1, StepFacts
  <2>4. (disturbed => disturbed') /\ (step[Workspace] # "idle" => disturbed')
    BY <2>2
  <2> QED BY <1>a, <2>3, <2>4
<1>3. CASE PressSwitch \/ PressRetry
  <2>1. PICK k : OnlyStep(Workspace, "idle", k) /\ step[Gate] # "starting"
    BY <1>3, Zenon DEF PressSwitch, PressRetry, BeginsTask, WorkspaceBusy
  <2>2. disturbed' = (disturbed \/ step[Gate] \in {"stopping", "signing out"})
    BY <1>3, Zenon DEF PressSwitch, PressRetry, BeginsTask
  <2>3. step'[Gate] = step[Gate]
    BY <1>0, <2>1, StepFacts
  <2>4. (disturbed => disturbed') /\ (step[Gate] \in {"stopping", "signing out"} => disturbed')
    BY <2>2
  <2> QED BY <1>a, <2>1, <2>3, <2>4
<1>4. CASE GateStep
  <2>1. CASE \/ SignInAccepted \/ SignInRefused \/ StatusFails \/ ActivateRefused \/ ResetEnds
             \/ Activate \/ SignOut
    BY <1>b, <2>1, Zenon
       DEF SignInAccepted, SignInRefused, StatusFails, ActivateRefused, ResetEnds, Activate,
           SignOut, Step
  <2>2. CASE ReadStatus
    BY <1>a, <2>2, ReadFacts
  <2>3. CASE BootstrapStarted \/ BootstrapFails \/ SignOutStopped \/ SignOutFails
    BY <1>b, <2>3, Zenon DEF BootstrapStarted, BootstrapFails, SignOutStopped, SignOutFails, Step
  <2> QED BY <1>4, <2>1, <2>2, <2>3 DEF GateStep
<1>5. CASE WorkspaceStep
  <2>1. CASE \/ SwitchStarts \/ SwitchEnds \/ StopFailsSwitch \/ StartFailsSwitch \/ Restored
             \/ RetryStarted \/ RetryFails
    BY <1>c, <2>1
       DEF SwitchStarts, SwitchEnds, StopFailsSwitch, StartFailsSwitch, Restored,
           RetryStarted, RetryFails, Step
  <2>2. CASE RequestFailsSwitch \/ RestoreFails
    BY <1>c, <2>2 DEF RequestFailsSwitch, RestoreFails
  <2> QED BY <1>5, <2>1, <2>2 DEF WorkspaceStep
<1>6. CASE Reopen
  <2>1. step'[Gate] = "status" /\ disturbed' = disturbed
    BY <1>0, <1>6 DEF Reopen, Opened
  <2> QED BY <1>a, <2>1
<1>7. CASE UNCHANGED ui
  BY <1>7 DEF ui, Apart
<1> QED
  BY <1>1, <1>2, <1>3, <1>4, <1>5, <1>6, <1>7 DEF Next, Press, Command, ClockStep, vars, ui

LEMMA ViewKept ==
  ASSUME ShellInv, ViewInv, [Next]_vars
  PROVE  ViewInv'
<1>0. /\ UiTypeOK /\ Gate \in Tasks /\ Workspace \in Tasks /\ Gate # Workspace
  BY DEF ShellInv
<1>a. ASSUME UNCHANGED <<view, session, entitlement>>, step'[Workspace] = step[Workspace],
             \/ step'[Gate] = step[Gate]
             \/ step'[Gate] \in {"idle", "signing in", "stopping", "signing out"}
             \/ step'[Gate] = "activating" /\ view.account # None
             \/ step'[Gate] = "resetting" /\ view.account = None
      PROVE  ViewInv'
  BY <1>a DEF ViewInv
<1>b. ASSUME UNCHANGED gateVars
      PROVE  UNCHANGED <<session, entitlement>>
  BY <1>b DEF gateVars, credentials
<1>1. CASE Press
  <2>1. CASE PressSignIn \/ PressActivate \/ PressReset
    BY <1>0, <1>a, <1>b, <2>1, StepFacts DEF PressSignIn, PressActivate, PressReset, Step
  <2>2. CASE PressSignOut
    BY <1>0, <1>a, <1>b, <2>2, StepFacts DEF PressSignOut, Calls
  <2>3. CASE PressSwitch \/ PressRetry
    BY <1>0, <1>b, <2>3, StepFacts DEF PressSwitch, PressRetry, BeginsTask, Calls, ViewInv
  <2> QED BY <1>1, <2>1, <2>2, <2>3 DEF Press
<1>2. CASE GateStep
  <2>1. CASE SignInRefused \/ StatusFails \/ ActivateRefused
    BY <1>0, <1>a, <1>b, <2>1, StepFacts DEF SignInRefused, StatusFails, ActivateRefused, Step
  <2>2. CASE BootstrapStarted \/ BootstrapFails \/ SignOutStopped \/ SignOutFails
    BY <1>0, <1>a, <1>b, <2>2, StepFacts
       DEF BootstrapStarted, BootstrapFails, SignOutStopped, SignOutFails, Step, Returned,
           Raised, Calls
  <2>3. CASE SignInAccepted
    <3>1. session' # None /\ entitlement' = entitlement
      BY <2>3 DEF SignInAccepted, StoreSession
    <3>2. /\ step'[Gate] = "status" /\ step'[Workspace] = step[Workspace]
          /\ view' = view
      BY <1>0, <2>3, StepFacts DEF SignInAccepted, Step
    <3> QED BY <3>1, <3>2 DEF ViewInv
  <2>4. CASE ReadStatus
    <3>1. /\ session' = session /\ entitlement' = entitlement
          /\ view'.account = session /\ view'.active = LicenseActive
      BY <2>4 DEF ReadStatus, CheckLicense
    <3>2. LicenseActive => session # None
      BY DEF LicenseActive
    <3>3. /\ step[Gate] = "status" /\ step'[Workspace] = step[Workspace]
          /\ step'[Gate] = "idle" \/ (step'[Gate] = "starting" /\ LicenseActive)
      BY <2>4, ReadFacts, Zenon
    <3> QED BY <3>1, <3>2, <3>3 DEF ViewInv
  <2>5. CASE Activate
    <3>1. /\ session # None /\ session' = session /\ view' = view
          /\ step[Gate] = "activating" /\ step'[Workspace] = step[Workspace]
          /\ step'[Gate] \in {"status", "idle"}
      BY <1>0, <2>5, StepFacts DEF Activate, StoreEntitlement, ResetCheckpoint, Step
    <3> QED BY <3>1 DEF ViewInv
  <2>6. CASE SignOut
    <3>1. /\ view' = view /\ step'[Workspace] = step[Workspace]
          /\ entitlement' \in {entitlement, None}
          /\ \/ step'[Gate] = "status" /\ entitlement' = None
             \/ step'[Gate] = "idle"
      BY <1>0, <2>6, StepFacts DEF SignOut, DeleteBoth, DeleteSession, Step
    <3> QED BY <3>1 DEF ViewInv
  <2>7. CASE ResetEnds
    <3>1. /\ view' = view /\ step'[Workspace] = step[Workspace] /\ step'[Gate] = "idle"
          /\ entitlement' \in {entitlement, None}
      BY <1>0, <2>7, StepFacts DEF ResetEnds, DeleteBoth, DeleteSession, credentials, Step
    <3> QED BY <3>1 DEF ViewInv
  <2> QED BY <1>2, <2>1, <2>2, <2>3, <2>4, <2>5, <2>6, <2>7 DEF GateStep
<1>3. CASE WorkspaceStep
  <2>1. /\ step'[Gate] = step[Gate] /\ step[Workspace] # "idle" /\ view' = view
        /\ UNCHANGED gateVars
    BY <1>0, <1>3, StepFacts
       DEF WorkspaceStep, SwitchStarts, SwitchEnds, StopFailsSwitch, StartFailsSwitch,
           RequestFailsSwitch, Restored, RestoreFails, RetryStarted, RetryFails, Step, GoBack,
           Returned, Raised, Calls
  <2> QED BY <1>b, <2>1 DEF ViewInv
<1>4. CASE Reopen
  BY <1>0, <1>4 DEF Reopen, Opened, NotSignedIn, ViewInv
<1>5. CASE UNCHANGED <<ui, session, entitlement>>
  BY <1>5 DEF ui, ViewInv
<1>6. ASSUME NEW t \in Tasks, Command(t)
      PROVE  UNCHANGED <<ui, session, entitlement>>
  BY <1>6, <1>b DEF Command, CommandStep, StartReturnsRunning, StartRefused, StartSpawns,
     StartReady, StartFails, StopReadsRuntime, StopCloses, StopRefused, StopAsks,
     StopAskFails, StopTakes, StopDrops, CheckLicense
<1>7. CASE ProcessStep /\ UNCHANGED ui
  BY <1>b, <1>5, <1>7 DEF ProcessStep, WorkerExits, LauncherExits, Dies
<1>8. CASE ClockStep \/ UNCHANGED vars
  BY <1>b, <1>5, <1>8 DEF ClockStep, ClockChanges, credentials, vars
<1> QED BY <1>1, <1>2, <1>3, <1>4, <1>5, <1>6, <1>7, <1>8 DEF Next

\* All that is known while no task of the workspace overlapped a sign-out and no
\* switch lost contact.
Known == RuntimeKnown /\ DirectoryKnown /\ NoneWithoutAccount

Calling == {"starting", "stopping", "restoring", "retrying"}

LEMMA OneCalls ==
  ASSUME ShellInv, StepCalls, Apart, ~disturbed,
         NEW t \in Tasks, NEW u \in Tasks, step[t] \in Calling, t # u
  PROVE  step[u] \notin Calling /\ call[u] = NoCall
<1>1. t = Gate \/ t = Workspace
  OBVIOUS
<1>2. step[u] \notin Calling
  BY <1>1 DEF StepCalls, Fits, Apart, Calling
<1> QED BY <1>2 DEF ShellInv, CallsMade, Calling

\* While nobody calls, nobody but the runtime serves.
LEMMA QuietServing ==
  ASSUME ShellInv, runtime = None, \A t \in Tasks : ~At(t, "awaiting")
  PROVE  Serving = {}
<1>1. \A s \in Serving : s \in Sidecars /\ s # None
  BY DEF Serving
<1>2. ASSUME NEW s, NEW t \in Tasks, call[t] = Doing("awaiting", s)
      PROVE  At(t, "awaiting")
  BY <1>2, CallFacts DEF At
<1> QED BY <1>1, <1>2 DEF ShellInv, OneOwnedSidecar

\* A handler that takes an answer or calls a command.
LEMMA CallStaysKnown ==
  ASSUME ShellInv, RuntimeKnown, DirectoryKnown,
         NEW t \in Tasks, NEW j, NEW k, NEW c, OnlyStep(t, j, k), Invokes(t, c),
         step'[Workspace] = "idle" /\ step'[Gate] # "starting" => runtime \in {None, shown'},
         AnswerKnown(k, c, runtime), PathKnown(c, directory, preferred'),
         \/ preferred' = preferred
         \/ runtime = None /\ \A u \in Tasks : u # t => call[u] = NoCall
  PROVE  RuntimeKnown' /\ DirectoryKnown'
<1>0. SidecarTypeOK /\ UiTypeOK
  BY DEF ShellInv
<1>1. /\ step'[t] = k /\ \A u \in Tasks : u # t => step'[u] = step[u]
      /\ call'[t] = c /\ \A u \in Tasks : u # t => call'[u] = call[u]
      /\ runtime' = runtime /\ directory' = directory
  BY <1>0, StepFacts, InvokeFacts
<1>2. \A u \in Tasks : AnswerKnown(step'[u], call'[u], runtime)
  BY <1>1 DEF RuntimeKnown
<1>3. \A u \in Tasks : PathKnown(call'[u], directory, preferred')
  <2> SUFFICES ASSUME NEW u \in Tasks PROVE PathKnown(call'[u], directory, preferred')
    OBVIOUS
  <2>1. PathKnown(NoCall, directory, preferred')
    BY CallFacts DEF PathKnown
  <2>2. PathKnown(call[u], directory, preferred)
    BY DEF DirectoryKnown
  <2> QED BY <1>1, <2>1, <2>2
<1>4. runtime # None => directory[runtime] = preferred'
  BY DEF DirectoryKnown
<1> QED BY <1>1, <1>2, <1>3, <1>4 DEF RuntimeKnown, DirectoryKnown, AnswerKnown, PathKnown

\* A handler of the gate that calls no command.
LEMMA QuietStaysKnown ==
  ASSUME ShellInv, RuntimeKnown, DirectoryKnown,
         NEW j, NEW k, OnlyStep(Gate, j, k), Quiet,
         j # "starting", k \notin Calling, UNCHANGED <<shown, preferred>>
  PROVE  RuntimeKnown' /\ DirectoryKnown' /\ Serving' = Serving
<1>0. /\ SidecarTypeOK /\ UiTypeOK
      /\ Gate \in Tasks /\ Workspace \in Tasks /\ Gate # Workspace
  BY DEF ShellInv
<1>1. /\ step[Gate] = j /\ step'[Gate] = k /\ \A u \in Tasks : u # Gate => step'[u] = step[u]
      /\ UNCHANGED <<call, runtime, directory, worker>>
  BY <1>0, StepFacts DEF Quiet, shell
<1>2. \A u \in Tasks : AnswerKnown(step'[u], call[u], runtime)
  <2>1. AnswerKnown(k, call[Gate], runtime)
    BY DEF AnswerKnown, Calling
  <2> QED BY <1>1, <2>1 DEF RuntimeKnown
<1> QED
  BY <1>0, <1>1, <1>2 DEF RuntimeKnown, DirectoryKnown, Serving

\* The handlers of the gate.
LEMMA GateStaysKnown ==
  ASSUME ShellInv, StepCalls, Apart, ViewInv, Known, ~disturbed, ~disturbed',
         PressSignIn \/ PressActivate \/ PressSignOut \/ PressReset \/ GateStep
  PROVE  Known'
<1>0. /\ SidecarTypeOK /\ UiTypeOK /\ CallsMade /\ RuntimeKnown /\ DirectoryKnown
      /\ NoneWithoutAccount
      /\ Gate \in Tasks /\ Workspace \in Tasks /\ Gate # Workspace
  BY DEF ShellInv, Known
<1>a. ASSUME NEW j, NEW k, OnlyStep(Gate, j, k), Quiet,
             j # "starting", k \notin Calling, UNCHANGED <<shown, preferred>>,
             session' = None \/ view'.account = None \/ k = "signing out" =>
               \/ Serving = {}
               \/ session = None \/ view.account = None \/ step[Gate] = "signing out"
      PROVE  Known'
  <2>1. RuntimeKnown' /\ DirectoryKnown' /\ Serving' = Serving
    BY <1>0, <1>a, QuietStaysKnown
  <2>2. step'[Gate] = k
    BY <1>0, <1>a, StepFacts
  <2> QED BY <1>0, <1>a, <2>1, <2>2 DEF Known, NoneWithoutAccount
<1>b. ASSUME NEW j, NEW k, NEW c, OnlyStep(Gate, j, k), Invokes(Gate, c),
             step'[Workspace] = "idle" /\ k # "starting" => runtime \in {None, shown'},
             AnswerKnown(k, c, runtime), PathKnown(c, directory, preferred), preferred' = preferred,
             session' = None \/ view'.account = None \/ k = "signing out" =>
               Serving = {} \/ session = None \/ view.account = None
      PROVE  Known'
  <2>1. step'[Gate] = k /\ Serving' = Serving
    BY <1>0, <1>b, StepFacts, InvokeFacts
  <2>2. PathKnown(c, directory, preferred')
    BY <1>b
  <2>3. RuntimeKnown' /\ DirectoryKnown'
    BY <1>0, <1>b, <2>1, <2>2, CallStaysKnown
  <2> QED BY <1>0, <1>b, <2>1, <2>3 DEF Known, NoneWithoutAccount
<1>c. UNCHANGED gateVars => session' = session
  BY DEF gateVars, credentials
<1>1. CASE \/ PressSignIn \/ PressActivate \/ PressReset
           \/ SignInRefused \/ StatusFails \/ ActivateRefused
  BY <1>a, <1>c, <1>1
     DEF PressSignIn, PressActivate, PressReset, SignInRefused, StatusFails, ActivateRefused,
         Step, Calling
<1>2. CASE PressSignOut
  <2>1. step[Gate] = "idle" /\ step[Workspace] = "idle" /\ UNCHANGED <<view, shown, preferred>>
    <3>1. disturbed' = (disturbed \/ step[Workspace] # "idle")
      BY <1>2, Zenon DEF PressSignOut
    <3>2. step[Workspace] = "idle"
      BY <3>1
    <3> QED BY <1>2, <3>2 DEF PressSignOut, OnlyStep
  <2>2. runtime \in {None, shown}
    BY <1>0, <2>1 DEF RuntimeKnown
  <2>3. CASE OnlyStep(Gate, "idle", "stopping") /\ Calls(Gate, Stopping)
    <3>1. AnswerKnown("stopping", Stopping, runtime) /\ PathKnown(Stopping, directory, preferred)
      BY CallFacts DEF AnswerKnown, PathKnown
    <3> QED BY <1>b, <1>c, <2>1, <2>2, <2>3, <3>1 DEF Calls
  <2>4. CASE /\ OnlyStep(Gate, "idle", "signing out") /\ Quiet /\ UNCHANGED gateVars
             /\ shown = None
    <3>1. \A t \in Tasks : call[t] = NoCall
      BY <1>0, <2>1 DEF CallsMade
    <3>2. Serving = {}
      BY <2>2, <2>4, <3>1, CallFacts, QuietServing DEF At
    <3> QED BY <1>a, <1>c, <2>1, <2>4, <3>2 DEF Calling
  <2> QED BY <1>2, <2>3, <2>4, Zenon DEF PressSignOut
<1>3. CASE SignInAccepted
  <2>1. session' # None
    BY <1>3 DEF SignInAccepted, StoreSession
  <2> QED BY <1>a, <1>3, <2>1 DEF SignInAccepted, Step, Calling
<1>4. CASE ReadStatus
  <2>1. /\ session' = session /\ view'.account = session /\ UNCHANGED <<shown, preferred>>
    BY <1>4 DEF ReadStatus, CheckLicense
  <2>2. CASE OnlyStep(Gate, "status", "idle") /\ Quiet
    BY <1>a, <2>1, <2>2 DEF Calling
  <2>3. CASE OnlyStep(Gate, "status", "starting") /\ Invokes(Gate, Starting(preferred))
    <3>1. Starting(preferred).at = "start" /\ Starting(preferred).path = preferred
      BY DEF Starting
    <3>2. /\ AnswerKnown("starting", Starting(preferred), runtime)
          /\ PathKnown(Starting(preferred), directory, preferred)
      BY <3>1 DEF AnswerKnown, PathKnown
    <3> QED BY <1>b, <2>1, <2>3, <3>2
  <2> QED BY <1>4, <2>2, <2>3, Zenon DEF ReadStatus
<1>5. CASE Activate
  <2>1. session' = session
    BY <1>5 DEF Activate, StoreEntitlement, ResetCheckpoint
  <2> QED BY <1>a, <1>5, <2>1 DEF Activate, Step, Calling
<1>6. CASE SignOut
  <2>1. PICK k \in {"status", "idle"} : Step(Gate, "signing out", k) /\ Quiet
    BY <1>6 DEF SignOut
  <2>2. Serving = {}
    BY <1>0, <2>1 DEF NoneWithoutAccount, Step, OnlyStep
  <2> QED BY <1>a, <2>1, <2>2 DEF Step, Calling
<1>7. CASE ResetEnds
  <2>1. Step(Gate, "resetting", "idle") /\ Quiet
    BY <1>7 DEF ResetEnds
  <2>2. view.account = None
    BY <2>1 DEF ViewInv, Step, OnlyStep
  <2> QED BY <1>a, <2>1, <2>2 DEF Step, Calling
<1>8. CASE BootstrapStarted \/ BootstrapFails \/ SignOutFails
  <2>1. AnswerKnown("idle", NoCall, runtime) /\ PathKnown(NoCall, directory, preferred)
    BY CallFacts DEF AnswerKnown, PathKnown
  <2>2. PICK j : /\ OnlyStep(Gate, j, "idle") /\ Calls(Gate, NoCall)
                 /\ UNCHANGED <<view, preferred>>
    BY <1>8 DEF BootstrapStarted, BootstrapFails, SignOutFails, Returned, Raised, Step
  <2>3. step[Gate] = j /\ step'[Workspace] = step[Workspace] /\ AnswerKnown(j, call[Gate], runtime)
    BY <1>0, <2>2, StepFacts DEF RuntimeKnown
  <2>4. step[Workspace] = "idle" => runtime \in {None, shown'}
    BY <1>0, <1>8, <2>3
       DEF RuntimeKnown, AnswerKnown, BootstrapStarted, BootstrapFails, SignOutFails, Returned,
           Raised, At, Step, OnlyStep
  <2> QED BY <1>b, <1>c, <2>1, <2>2, <2>3, <2>4 DEF Calls
<1>9. CASE SignOutStopped
  <2>1. /\ OnlyStep(Gate, "stopping", "signing out") /\ Calls(Gate, NoCall)
        /\ At(Gate, "answered") /\ UNCHANGED <<view, preferred>>
    BY <1>9 DEF SignOutStopped, Returned
  <2>2. step[Gate] = "stopping"
    BY <2>1 DEF OnlyStep
  <2>3. runtime = None
    BY <1>0, <2>1, <2>2 DEF RuntimeKnown, AnswerKnown, At
  <2>4. call[Workspace] = NoCall
    BY <1>0, <2>2, OneCalls DEF Calling
  <2>5. Serving = {}
    BY <2>1, <2>3, <2>4, CallFacts, QuietServing DEF At
  <2>6. AnswerKnown("signing out", NoCall, runtime) /\ PathKnown(NoCall, directory, preferred)
    BY CallFacts DEF AnswerKnown, PathKnown
  <2> QED BY <1>b, <2>1, <2>3, <2>5, <2>6 DEF Calls
<1> QED
  BY <1>1, <1>2, <1>3, <1>4, <1>5, <1>6, <1>7, <1>8, <1>9 DEF GateStep

\* The handlers of the workspace.
LEMMA WorkspaceStaysKnown ==
  ASSUME ShellInv, StepCalls, Apart, ViewInv, Known, ~disturbed, ~disturbed',
         PressSwitch \/ PressRetry \/ WorkspaceStep
  PROVE  Known'
<1>0. /\ SidecarTypeOK /\ UiTypeOK /\ CallsMade /\ RuntimeKnown /\ DirectoryKnown
      /\ NoneWithoutAccount
      /\ Gate \in Tasks /\ Workspace \in Tasks /\ Gate # Workspace
  BY DEF ShellInv, Known
<1>a. ASSUME NEW j, NEW k, NEW c, OnlyStep(Workspace, j, k), Calls(Workspace, c),
             k = "idle" => runtime \in {None, shown'},
             AnswerKnown(k, c, runtime), PathKnown(c, directory, preferred'),
             preferred' = preferred \/ (runtime = None /\ j \in Calling),
             view' = view
      PROVE  Known'
  <2>1. /\ step[Workspace] = j /\ step'[Workspace] = k /\ step'[Gate] = step[Gate]
        /\ Invokes(Workspace, c) /\ session' = session
    BY <1>0, <1>a, StepFacts DEF Calls, gateVars, credentials
  <2>2. Serving' = Serving
    BY <1>0, <2>1, InvokeFacts
  <2>3. j \in Calling => \A u \in Tasks : u # Workspace => call[u] = NoCall
    BY <1>0, <2>1, OneCalls
  <2>4. RuntimeKnown' /\ DirectoryKnown'
    BY <1>0, <1>a, <2>1, <2>3, CallStaysKnown
  <2> QED BY <1>0, <1>a, <2>1, <2>2, <2>4 DEF Known, NoneWithoutAccount
<1>b. /\ AnswerKnown("idle", NoCall, runtime)
      /\ \A p : PathKnown(NoCall, directory, p)
      /\ \A p : /\ PathKnown(Starting(p), directory, p)
                /\ AnswerKnown("starting", Starting(p), runtime)
                /\ AnswerKnown("restoring", Starting(p), runtime)
                /\ AnswerKnown("retrying", Starting(p), runtime)
  <2>1. \A p : Starting(p).at = "start" /\ Starting(p).path = p
    BY DEF Starting
  <2> QED BY <2>1, CallFacts DEF AnswerKnown, PathKnown
<1>c. AnswerKnown(step[Workspace], call[Workspace], runtime)
  BY <1>0 DEF RuntimeKnown
<1>1. CASE PressSwitch
  <2>1. /\ OnlyStep(Workspace, "idle", "stopping") /\ UNCHANGED <<view, preferred>>
        /\ Calls(Workspace, IF shown # None THEN Stopping ELSE Answer(None))
        /\ step[Gate] # "starting"
    BY <1>1, Zenon DEF PressSwitch, BeginsTask, WorkspaceBusy
  <2>2. runtime \in {None, shown}
    BY <1>0, <2>1 DEF RuntimeKnown, OnlyStep
  <2>3. CASE shown # None
    <3>1. AnswerKnown("stopping", Stopping, runtime) /\ PathKnown(Stopping, directory, preferred')
      BY CallFacts DEF AnswerKnown, PathKnown
    <3> QED BY <1>a, <2>1, <2>3, <3>1
  <2>4. CASE shown = None
    <3>1. /\ AnswerKnown("stopping", Answer(None), runtime)
          /\ PathKnown(Answer(None), directory, preferred')
      BY <2>2, <2>4, CallFacts DEF AnswerKnown, PathKnown, Answer
    <3> QED BY <1>a, <2>1, <2>4, <3>1
  <2> QED BY <2>3, <2>4
<1>2. CASE SwitchStarts
  <2>1. runtime = None
    BY <1>2, <1>c DEF SwitchStarts, AnswerKnown, At, OnlyStep
  <2>2. PICK p \in Paths : preferred' = p /\ Calls(Workspace, Starting(p))
    BY <1>2 DEF SwitchStarts
  <2> QED BY <1>2, <1>a, <1>b, <2>1, <2>2 DEF SwitchStarts, Calling
<1>3. CASE SwitchEnds \/ Restored \/ RetryStarted
  <2>1. runtime = shown'
    BY <1>3, <1>c DEF SwitchEnds, Restored, RetryStarted, Returned, AnswerKnown, At, OnlyStep
  <2> QED BY <1>3, <1>a, <1>b, <2>1 DEF SwitchEnds, Restored, RetryStarted, Returned
<1>4. CASE StopFailsSwitch
  BY <1>4, <1>a, <1>b DEF StopFailsSwitch, Step
<1>5. CASE StartFailsSwitch
  <2>1. runtime = None
    BY <1>5, <1>c DEF StartFailsSwitch, AnswerKnown, At, OnlyStep
  <2>2. /\ preferred' = previous /\ Calls(Workspace, Starting(previous)) /\ view' = view
        /\ OnlyStep(Workspace, "starting", "restoring")
    BY <1>5 DEF StartFailsSwitch, GoBack
  <2> QED BY <1>a, <1>b, <2>1, <2>2 DEF Calling
<1>6. CASE RequestFailsSwitch
  BY <1>6 DEF RequestFailsSwitch
<1>7. CASE RestoreFails \/ RetryFails
  <2>1. PICK j \in {"restoring", "retrying"} :
          /\ OnlyStep(Workspace, j, "idle") /\ Raised(Workspace)
          /\ UNCHANGED <<view, preferred>>
    BY <1>7 DEF RestoreFails, RetryFails, Step
  <2>2. runtime = None
    BY <2>1, <1>c DEF AnswerKnown, Raised, At, OnlyStep
  <2> QED BY <1>a, <1>b, <2>1, <2>2 DEF Raised
<1>8. CASE PressRetry
  BY <1>8, <1>a, <1>b DEF PressRetry, BeginsTask
<1> QED BY <1>1, <1>2, <1>3, <1>4, <1>5, <1>6, <1>7, <1>8 DEF WorkspaceStep

\* The commands.
LEMMA CommandStaysKnown ==
  ASSUME ShellInv, StepCalls, Apart, ViewInv, Known, ~disturbed, ~disturbed',
         NEW t \in Tasks, Command(t)
  PROVE  Known'
<1>0. /\ SidecarTypeOK /\ UiTypeOK /\ CallsMade /\ MutexHeld /\ RuntimeKnown /\ DirectoryKnown
      /\ NoneWithoutAccount
      /\ Gate \in Tasks /\ Workspace \in Tasks /\ Gate # Workspace
      /\ CommandStep(t) /\ UNCHANGED <<step, view, shown, preferred>>
  BY DEF ShellInv, Known, Command, ui
<1>1. /\ call[t] \in CallStates /\ Fits(t, step[t], call[t])
      /\ AnswerKnown(step[t], call[t], runtime) /\ PathKnown(call[t], directory, preferred)
  BY <1>0 DEF SidecarTypeOK, StepCalls, RuntimeKnown, DirectoryKnown
<1>2. call[t] # NoCall
  BY <1>0, CallFacts
     DEF CommandStep, StartReturnsRunning, StartRefused, StartSpawns, StartReady, StartFails,
         StopReadsRuntime, StopCloses, StopRefused, StopAsks, StopAskFails, StopTakes,
         StopDrops, At
<1>3. step[t] \in Calling
  BY <1>0, <1>2 DEF CallsMade, Calling
<1>4. \A u \in Tasks : u # t => step[u] \notin Calling /\ call[u] = NoCall
  BY <1>3, OneCalls
<1>5. session' = session
  BY <1>0 DEF CommandStep, StartReturnsRunning, StartRefused, StartSpawns, StartReady, StartFails,
     StopReadsRuntime, StopCloses, StopRefused, StopAsks, StopAskFails, StopTakes,
     StopDrops, CheckLicense, gateVars, credentials
<1>a. ASSUME NEW c, Becomes(t, c), AnswerKnown(step[t], c, runtime'),
             PathKnown(c, directory', preferred),
             runtime' # None => directory'[runtime'] = preferred,
             t = Gate /\ step[Gate] # "starting" => runtime' \in {None, runtime}
      PROVE  RuntimeKnown' /\ DirectoryKnown'
  <2>1. call'[t] = c /\ \A u \in Tasks : u # t => call'[u] = NoCall
    BY <1>0, <1>4, <1>a DEF Becomes, SidecarTypeOK
  <2>2. \A u \in Tasks : u # t => /\ AnswerKnown(step[u], call'[u], runtime')
                                /\ PathKnown(call'[u], directory', preferred)
    BY <2>1, <1>4, CallFacts DEF AnswerKnown, PathKnown, Calling
  <2>3. step[Workspace] = "idle" /\ step[Gate] # "starting" => runtime' \in {None, shown}
    <3>1. t = Workspace => step[Workspace] # "idle"
      BY <1>3 DEF Calling
    <3> QED BY <1>0, <1>a, <3>1 DEF RuntimeKnown
  <2> QED BY <1>0, <1>a, <2>1, <2>2, <2>3 DEF RuntimeKnown, DirectoryKnown
<1>b. ASSUME Serving' \subseteq Serving PROVE NoneWithoutAccount'
  BY <1>0, <1>5, <1>b DEF NoneWithoutAccount
<1>c. runtime # None => directory[runtime] = preferred
  BY <1>0 DEF DirectoryKnown
<1>6. CASE StartReturnsRunning(t)
  <2>1. /\ step[t] \in {"starting", "restoring", "retrying"}
        /\ runtime' = runtime /\ directory' = directory
        /\ Serving' = Serving
    BY <1>1, <1>3, <1>6 DEF StartReturnsRunning, Fits, At, Calling, Serving
  <2>2. /\ AnswerKnown(step[t], Answer(runtime), runtime)
        /\ PathKnown(Answer(runtime), directory, preferred)
    BY <2>1, CallFacts DEF AnswerKnown, PathKnown, Answer
  <2> QED BY <1>a, <1>b, <1>c, <1>6, <2>1, <2>2 DEF StartReturnsRunning, Known
<1>7. CASE StartRefused(t)
  <2>1. /\ step[t] \in {"starting", "restoring", "retrying"}
        /\ runtime' = None /\ directory' = directory
        /\ Becomes(t, Failure)
    BY <1>1, <1>3, <1>7 DEF StartRefused, Fits, At, Calling
  <2>2. AnswerKnown(step[t], Failure, None) /\ PathKnown(Failure, directory, preferred)
    BY <2>1, CallFacts DEF AnswerKnown, PathKnown
  <2>3. Serving' \subseteq Serving
    BY <1>0, <1>7, NoneBeginsToServe DEF StartRefused, WorkerKilled
  <2> QED BY <1>a, <1>b, <2>1, <2>2, <2>3 DEF Known
<1>8. CASE StartSpawns(t)
  <2>1. /\ step[t] \in {"starting", "restoring", "retrying"} /\ runtime' = None
        /\ call[t].path = preferred
    BY <1>1, <1>3, <1>8 DEF StartSpawns, Fits, At, Calling, PathKnown
  <2>2. directory'[spawned'] = preferred
    BY <1>0, <1>8, <2>1 DEF StartSpawns, SidecarTypeOK, Sidecars
  <2>3. /\ AnswerKnown(step[t], Doing("awaiting", spawned'), None)
        /\ PathKnown(Doing("awaiting", spawned'), directory', preferred)
    BY <2>1, <2>2, CallFacts DEF AnswerKnown, PathKnown
  <2>4. RuntimeKnown' /\ DirectoryKnown'
    BY <1>a, <1>8, <2>1, <2>3 DEF StartSpawns
  <2>5. session # None /\ entitlement # None
    BY <1>8 DEF StartSpawns, LicenseActive
  <2>6. view.account # None /\ step[Gate] # "signing out"
    <3>1. CASE t = Gate
      BY <1>0, <2>1, <1>1, <3>1 DEF Fits, ViewInv
    <3>2. CASE t = Workspace
      BY <2>1, <2>5, <3>2 DEF ViewInv, Apart
    <3> QED BY <3>1, <3>2
  <2> QED BY <1>0, <1>5, <2>4, <2>5, <2>6 DEF Known, NoneWithoutAccount
<1>9. CASE StartReady(t)
  <2>1. /\ step[t] \in {"starting", "restoring", "retrying"} /\ runtime' = call[t].sidecar
        /\ directory' = directory /\ directory[call[t].sidecar] = preferred
        /\ Becomes(t, Answer(call[t].sidecar)) /\ Serving' = Serving
    BY <1>1, <1>3, <1>9 DEF StartReady, Fits, At, Calling, PathKnown, Serving
  <2>2. /\ AnswerKnown(step[t], Answer(call[t].sidecar), runtime')
        /\ PathKnown(Answer(call[t].sidecar), directory, preferred)
    BY <2>1, CallFacts DEF AnswerKnown, PathKnown, Answer
  <2>3. t = Gate => step[t] = "starting"
    BY <1>1, <2>1 DEF Fits
  <2> QED BY <1>a, <1>b, <2>1, <2>2, <2>3 DEF Known
<1>10. CASE StartFails(t)
  <2>1. /\ step[t] \in {"starting", "restoring", "retrying"}
        /\ runtime' = runtime /\ runtime = None
        /\ directory' = directory /\ Becomes(t, Failure)
    BY <1>0, <1>1, <1>3, <1>10 DEF StartFails, Fits, At, Calling, MutexHeld
  <2>2. AnswerKnown(step[t], Failure, None) /\ PathKnown(Failure, directory, preferred)
    BY <2>1, CallFacts DEF AnswerKnown, PathKnown
  <2>3. Serving' \subseteq Serving
    BY <1>0, <1>10, NoneBeginsToServe DEF StartFails
  <2> QED BY <1>a, <1>b, <2>1, <2>2, <2>3 DEF Known
<1>11. CASE StopReadsRuntime(t)
  <2>1. /\ step[t] = "stopping" /\ runtime' = runtime /\ directory' = directory
        /\ Serving' = Serving
    BY <1>1, <1>3, <1>11 DEF StopReadsRuntime, Fits, At, Calling, Serving
  <2>2. PICK c : /\ Becomes(t, c)
                 /\ \/ c = Answer(None) /\ runtime = None
                    \/ c = Doing("closing", runtime)
    BY <1>11 DEF StopReadsRuntime
  <2>3. AnswerKnown(step[t], c, runtime) /\ PathKnown(c, directory, preferred)
    BY <2>1, <2>2, CallFacts DEF AnswerKnown, PathKnown, Answer
  <2> QED BY <1>a, <1>b, <1>c, <2>1, <2>2, <2>3 DEF Known
<1>12. CASE StopCloses(t) \/ StopRefused(t) \/ StopAsks(t) \/ StopAskFails(t)
  <2>1. step[t] = "stopping" /\ runtime' = runtime /\ directory' = directory
    BY <1>1, <1>3, <1>12
       DEF StopCloses, StopRefused, StopAsks, StopAskFails, Fits, At, Calling
  <2>2. PICK c : Becomes(t, c) /\ c.at \in {"asking", "asked", "failed"}
    <3>1. CASE StopCloses(t) \/ StopAsks(t)
      <4>1. PICK at \in {"asking", "asked"} : Becomes(t, Doing(at, call[t].sidecar))
        BY <3>1 DEF StopCloses, StopAsks
      <4> QED BY <4>1, CallFacts
    <3>2. CASE StopRefused(t) \/ StopAskFails(t)
      BY <3>2, CallFacts DEF StopRefused, StopAskFails
    <3> QED BY <1>12, <3>1, <3>2
  <2>3. AnswerKnown(step[t], c, runtime) /\ PathKnown(c, directory, preferred)
    BY <2>1, <2>2 DEF AnswerKnown, PathKnown
  <2>4. Serving' \subseteq Serving
    BY <1>0, <1>12, NoneBeginsToServe
       DEF StopCloses, StopRefused, StopAsks, StopAskFails, Serving
  <2> QED BY <1>a, <1>b, <1>c, <2>1, <2>2, <2>3, <2>4 DEF Known
<1>13. CASE StopTakes(t) \/ StopDrops(t)
  <2>1. step[t] = "stopping" /\ runtime' = None /\ directory' = directory
    BY <1>1, <1>3, <1>13 DEF StopTakes, StopDrops, Fits, AnswerKnown, At, Calling
  <2>2. PICK c : Becomes(t, c) /\ c.at \in {"dropping", "answered"}
    <3>1. CASE StopTakes(t)
      BY <3>1, CallFacts DEF StopTakes
    <3>2. CASE StopDrops(t)
      <4>1. Becomes(t, Doing("answered", None))
        BY <3>2 DEF StopDrops, Answer
      <4> QED BY <4>1, CallFacts
    <3> QED BY <1>13, <3>1, <3>2
  <2>3. AnswerKnown(step[t], c, None) /\ PathKnown(c, directory, preferred)
    BY <2>1, <2>2 DEF AnswerKnown, PathKnown
  <2>4. Serving' \subseteq Serving
    BY <1>0, <1>13, NoneBeginsToServe DEF StopTakes, StopDrops, WorkerKilled
  <2> QED BY <1>a, <1>b, <2>1, <2>2, <2>3, <2>4 DEF Known
<1> QED
  BY <1>0, <1>6, <1>7, <1>8, <1>9, <1>10, <1>11, <1>12, <1>13 DEF CommandStep

LEMMA InterfaceKept == ShellInv /\ InterfaceInv /\ [Next]_vars => InterfaceInv'
<1> SUFFICES ASSUME ShellInv, InterfaceInv, [Next]_vars PROVE InterfaceInv'
  OBVIOUS
<1>1. ShellInv' /\ StepCalls' /\ Apart' /\ ViewInv' /\ (disturbed => disturbed')
  BY ShellKept, FitsKept, ApartKept, ViewKept DEF InterfaceInv
<1>2. ASSUME ~disturbed' PROVE Known'
  <2>0. StepCalls /\ Apart /\ ViewInv /\ Known /\ ~disturbed
    BY <1>1, <1>2 DEF InterfaceInv, Known
  <2>1. CASE Press \/ GateStep \/ WorkspaceStep
    BY <1>2, <2>0, <2>1, GateStaysKnown, WorkspaceStaysKnown DEF Press
  <2>2. ASSUME NEW t \in Tasks, Command(t) PROVE Known'
    BY <1>2, <2>0, <2>2, CommandStaysKnown
  <2>3. CASE ProcessStep /\ UNCHANGED ui
    <3>1. UNCHANGED <<runtime, call, directory, session, step, view, shown, preferred>>
      BY <2>3 DEF ProcessStep, WorkerExits, LauncherExits, Dies, ui, gateVars, credentials
    <3>2. Serving' \subseteq Serving
      BY <2>3, NoneBeginsToServe
         DEF ProcessStep, WorkerExits, LauncherExits, Dies, Serving, ShellInv
    <3> QED BY <2>0, <3>1, <3>2 DEF Known, RuntimeKnown, DirectoryKnown, NoneWithoutAccount
  <2>4. CASE Reopen
    <3>1. /\ runtime' = None /\ \A t \in Tasks : call'[t] = NoCall
          /\ step' = Opened
      BY <2>4 DEF Reopen, Exit, ShellDies
    <3>2. Serving' = {}
      <4>1. \A s \in Serving' : s \in Sidecars /\ s # None
        BY DEF Serving
      <4>2. \A s : NoCall # Doing("awaiting", s)
        BY CallFacts
      <4> QED BY <1>1, <3>1, <4>1, <4>2 DEF ShellInv, OneOwnedSidecar
    <3>3. RuntimeKnown' /\ DirectoryKnown'
      BY <3>1, CallFacts DEF RuntimeKnown, DirectoryKnown, AnswerKnown, PathKnown
    <3> QED BY <3>2, <3>3 DEF Known, NoneWithoutAccount
  <2>5. CASE ClockStep \/ UNCHANGED vars
    <3>1. UNCHANGED <<shell, session, step, view, shown, preferred>>
      BY <2>5 DEF ClockStep, ClockChanges, vars, ui, gateVars, credentials
    <3>2. UNCHANGED <<runtime, call, directory, worker>>
      BY <3>1 DEF shell
    <3> QED
      BY <2>0, <3>1, <3>2 DEF Known, RuntimeKnown, DirectoryKnown, NoneWithoutAccount, Serving
  <2> QED BY <2>1, <2>2, <2>3, <2>4, <2>5 DEF Next
<1> QED BY <1>1, <1>2 DEF InterfaceInv, Known

\* "Signing out stops the sidecar", for any number of accounts, directories, sidecars,
\* failures and ends: when nothing is under way and no session is stored, nothing serves.
THEOREM SignedOutStaysStopped == Spec => []SignedOutIsStopped
<1>1. ShellInv /\ InterfaceInv => SignedOutIsStopped
  BY DEF InterfaceInv, NoneWithoutAccount, SignedOutIsStopped
<1>2. QED
  BY <1>1, ShellInitHolds, InterfaceInitHolds, ShellKept, InterfaceKept, PTL DEF Spec

\* For the same constants: the sidecar the interface shows serves the directory of the
\* setting, whatever starts and stops have failed on the way there.
THEOREM SettingStaysServed == Spec => []SettingIsServed
<1>1. ShellInv /\ InterfaceInv => SettingIsServed
  BY DEF InterfaceInv, DirectoryKnown, SettingIsServed
<1>2. QED
  BY <1>1, ShellInitHolds, InterfaceInitHolds, ShellKept, InterfaceKept, PTL DEF Spec
=============================================================================
