---------------------------- MODULE DesktopShell ----------------------------
(***************************************************************************)
(* The desktop program as a whole: the user interface (App.vue) over the   *)
(* commands for the sidecar and for the access gate.                       *)
(*                                                                         *)
(* The interface has two flags. gateBusy disables the buttons of the gate, *)
(* workspaceBusy those of the workspace, and neither disables the others:  *)
(* at most one task of each kind runs, but the two interleave at every     *)
(* await. The account service may accept or refuse whatever it is asked.   *)
(***************************************************************************)
EXTENDS SidecarManager

CONSTANTS
  Gate, Workspace,  \* the two tasks
  Saved             \* the workspace directory of the last time

ASSUME TwoTasks == Tasks = {Gate, Workspace} /\ Gate # Workspace
ASSUME SavedAssumption == Saved \in Paths

VARIABLES
  step,       \* where the handler of each task is
  view,       \* gate.value
  shown,      \* runtime.value
  preferred,  \* preferredWorkspacePath
  previous,   \* previousPath, while a start may still fail
  disturbed   \* history: a request failed after a switch had started a sidecar, or a
              \* task of the workspace overlapped a sign-out or a bootstrap of the gate

ui   == <<step, view, shown, preferred, previous, disturbed>>
vars == <<gateVars, shell, ui>>

NotSignedIn == [account |-> None, active |-> FALSE]

TypeOK ==
  /\ GateTypeOK /\ SidecarTypeOK
  /\ step \in [Tasks -> {"idle", "status", "signing in", "starting", "activating",
                         "stopping", "signing out", "resetting", "restoring", "retrying"}]
  /\ view \in [account : Accounts \cup {None}, active : BOOLEAN]
  /\ shown \in Sidecars \cup {None}
  /\ preferred \in Paths /\ previous \in Paths \cup {None}
  /\ disturbed \in BOOLEAN

\* bootstrapGate is the first thing the interface does.
Opened == [t \in Tasks |-> IF t = Gate THEN "status" ELSE "idle"]

Init ==
  /\ GateInit /\ SidecarInit
  /\ step = Opened
  /\ view = NotSignedIn
  /\ shown = None
  /\ preferred = Saved /\ previous = None
  /\ disturbed = FALSE

-----------------------------------------------------------------------------
OnlyStep(t, from, to) ==
  /\ step[t] = from /\ step' = [step EXCEPT ![t] = to]

Step(t, from, to) ==
  OnlyStep(t, from, to) /\ UNCHANGED <<view, shown, preferred, previous, disturbed>>

\* A step that calls no command.
Quiet == UNCHANGED shell

\* invoke, and what came back.
Invokes(t, c) ==
  /\ Becomes(t, c)
  /\ UNCHANGED <<runtime, mutex, spawned, directory, launchers, worker, ends>>

Calls(t, c) == Invokes(t, c) /\ UNCHANGED gateVars

Returned(t) == At(t, "answered") /\ Calls(t, NoCall)
Raised(t)   == At(t, "failed") /\ Calls(t, NoCall)

-----------------------------------------------------------------------------
(* The gate.                                                               *)

PressSignIn ==
  /\ view.account = None
  /\ Step(Gate, "idle", "signing in") /\ Quiet /\ UNCHANGED gateVars

\* sign_in, or a sign_up that is answered with a session.
SignInAccepted ==
  /\ Step(Gate, "signing in", "status")
  /\ StoreSession /\ Quiet /\ UNCHANGED time

SignInRefused ==
  /\ Step(Gate, "signing in", "idle") /\ Quiet /\ UNCHANGED gateVars

\* status, and bootstrapWorkspace if it may start the sidecar.
ReadStatus ==
  /\ CheckLicense
  /\ view' = [account |-> session, active |-> LicenseActive]
  /\ \/ /\ ~LicenseActive
        /\ OnlyStep(Gate, "status", "idle") /\ Quiet
        /\ UNCHANGED disturbed
     \/ /\ LicenseActive
        /\ OnlyStep(Gate, "status", "starting") /\ Invokes(Gate, Starting(preferred))
        /\ disturbed' = (disturbed \/ step[Workspace] # "idle")
  /\ UNCHANGED <<time, shown, preferred, previous>>

\* The keyring or the configuration cannot be read.
StatusFails ==
  /\ Step(Gate, "status", "idle") /\ Quiet /\ UNCHANGED gateVars

BootstrapStarted ==
  /\ OnlyStep(Gate, "starting", "idle")
  /\ Returned(Gate)
  /\ shown' = call[Gate].sidecar
  /\ UNCHANGED <<view, preferred, previous, disturbed>>

BootstrapFails == Step(Gate, "starting", "idle") /\ Raised(Gate)

PressActivate ==
  /\ view.account # None /\ ~view.active
  /\ Step(Gate, "idle", "activating") /\ Quiet /\ UNCHANGED gateVars

\* activate; the second of its writes may fail.
Activate ==
  /\ session # None
  /\ \/ StoreEntitlement(clock) /\ Step(Gate, "activating", "status")
     \/ ResetCheckpoint /\ Step(Gate, "activating", "idle")
  /\ Quiet /\ UNCHANGED time

\* No session, or a wrong key.
ActivateRefused ==
  /\ Step(Gate, "activating", "idle") /\ Quiet /\ UNCHANGED gateVars

\* Mutant: nothing is stopped.
PressSignOut_NoStop ==
  /\ view.account # None
  /\ OnlyStep(Gate, "idle", "signing out") /\ Quiet /\ UNCHANGED gateVars
  /\ disturbed' = (disturbed \/ step[Workspace] # "idle")
  /\ UNCHANGED <<view, shown, preferred, previous>>

PressSignOut ==
  /\ view.account # None
  /\ \/ /\ shown # None
        /\ OnlyStep(Gate, "idle", "stopping")
        /\ Calls(Gate, Stopping)
     \/ /\ shown = None
        /\ OnlyStep(Gate, "idle", "signing out") /\ Quiet /\ UNCHANGED gateVars
  /\ disturbed' = (disturbed \/ step[Workspace] # "idle")
  /\ UNCHANGED <<view, shown, preferred, previous>>

SignOutStopped ==
  /\ OnlyStep(Gate, "stopping", "signing out")
  /\ shown' = None
  /\ Returned(Gate)
  /\ UNCHANGED <<view, preferred, previous, disturbed>>

SignOutFails == Step(Gate, "stopping", "idle") /\ Raised(Gate)

\* sign_out, after the account service was told or could not be reached; the
\* second of its deletions may fail.
SignOut ==
  /\ Quiet /\ UNCHANGED time
  /\ \/ DeleteBoth /\ Step(Gate, "signing out", "status")
     \/ DeleteSession /\ Step(Gate, "signing out", "idle")

PressReset ==
  /\ view.account = None
  /\ Step(Gate, "idle", "resetting") /\ Quiet /\ UNCHANGED gateVars

\* complete_password_reset
ResetEnds ==
  /\ Step(Gate, "resetting", "idle")
  /\ Quiet /\ UNCHANGED time
  /\ DeleteBoth \/ DeleteSession \/ UNCHANGED credentials

-----------------------------------------------------------------------------
(* selectWorkspaceDirectory                                                *)

\* workspaceBusy, which bootstrapWorkspace sets as well (bound: one task of the
\* workspace at a time, although the end of a bootstrap clears the flag of a switch,
\* and the retry, which does not ask for it, may be shown while a switch goes back).
WorkspaceBusy == step[Gate] = "starting"

\* A button of the workspace; gateBusy does not disable it.
BeginsTask(to) ==
  /\ view.active /\ ~WorkspaceBusy
  /\ OnlyStep(Workspace, "idle", to)
  /\ disturbed' = (disturbed \/ step[Gate] \in {"stopping", "signing out"})
  /\ UNCHANGED <<view, shown, preferred, previous>>

PressSwitch ==
  /\ BeginsTask("stopping")
  /\ Calls(Workspace, IF shown # None THEN Stopping ELSE Answer(None))

SwitchStarts ==
  /\ OnlyStep(Workspace, "stopping", "starting")
  /\ At(Workspace, "answered")
  /\ \E p \in Paths :
       /\ shown # None => p # directory[shown]
       /\ preferred' = p /\ Calls(Workspace, Starting(p))
  /\ previous' = preferred
  /\ shown' = None
  /\ UNCHANGED <<view, disturbed>>

SwitchEnds ==
  /\ OnlyStep(Workspace, "starting", "idle")
  /\ Returned(Workspace)
  /\ shown' = call[Workspace].sidecar
  /\ previous' = None
  /\ UNCHANGED <<view, preferred, disturbed>>

\* Mutant: the setting stays the new one.
GoBack_SettingKept ==
  /\ Calls(Workspace, Starting(previous))
  /\ previous' = None
  /\ UNCHANGED preferred

\* The catch block.
GoBack ==
  /\ preferred' = previous /\ previous' = None
  /\ Calls(Workspace, Starting(previous))

StopFailsSwitch ==
  /\ Step(Workspace, "stopping", "restoring")
  /\ At(Workspace, "failed")
  /\ Calls(Workspace, Starting(preferred))

StartFailsSwitch ==
  /\ OnlyStep(Workspace, "starting", "restoring")
  /\ At(Workspace, "failed")
  /\ GoBack
  /\ UNCHANGED <<view, shown, disturbed>>

\* The sidecar runs, but a first request to it fails.
RequestFailsSwitch ==
  /\ "request" \in Faults
  /\ OnlyStep(Workspace, "starting", "restoring")
  /\ At(Workspace, "answered")
  /\ shown' = call[Workspace].sidecar
  /\ GoBack
  /\ disturbed' = TRUE
  /\ UNCHANGED view

Restored ==
  /\ OnlyStep(Workspace, "restoring", "idle")
  /\ Returned(Workspace)
  /\ shown' = call[Workspace].sidecar
  /\ UNCHANGED <<view, preferred, previous, disturbed>>

RestoreFails ==
  /\ OnlyStep(Workspace, "restoring", "idle")
  /\ shown' = None
  /\ \/ Raised(Workspace) /\ UNCHANGED disturbed
     \/ "request" \in Faults /\ Returned(Workspace) /\ disturbed' = TRUE
  /\ UNCHANGED <<view, preferred, previous>>

-----------------------------------------------------------------------------
(* bootstrapWorkspace as the button of the error panel calls it. The panel *)
(* is there while an error is shown, and any failed request leaves one.    *)

PressRetry ==
  /\ BeginsTask("retrying")
  /\ Calls(Workspace, Starting(preferred))

RetryStarted ==
  /\ OnlyStep(Workspace, "retrying", "idle")
  /\ Returned(Workspace)
  /\ shown' = call[Workspace].sidecar
  /\ UNCHANGED <<view, preferred, previous, disturbed>>

RetryFails == Step(Workspace, "retrying", "idle") /\ Raised(Workspace)

-----------------------------------------------------------------------------
Press ==
  \/ PressSignIn \/ PressActivate \/ PressSignOut \/ PressReset
  \/ PressSwitch \/ PressRetry

GateStep ==
  \/ SignInAccepted \/ SignInRefused \/ ReadStatus \/ StatusFails
  \/ BootstrapStarted \/ BootstrapFails
  \/ Activate \/ ActivateRefused
  \/ SignOutStopped \/ SignOutFails \/ SignOut
  \/ ResetEnds

WorkspaceStep ==
  \/ SwitchStarts \/ SwitchEnds
  \/ StopFailsSwitch \/ StartFailsSwitch \/ RequestFailsSwitch
  \/ Restored \/ RestoreFails
  \/ RetryStarted \/ RetryFails

Command(t) == CommandStep(t) /\ UNCHANGED ui

\* The program is opened again, with the directory it has saved.
Reopen ==
  /\ Exit \/ ShellDies
  /\ step' = Opened
  /\ view' = NotSignedIn /\ shown' = None /\ previous' = None
  /\ UNCHANGED <<preferred, disturbed>>

ClockStep == ClockChanges /\ UNCHANGED <<shell, ui>>

Next ==
  \/ Press \/ GateStep \/ WorkspaceStep
  \/ \E t \in Tasks : Command(t)
  \/ ProcessStep /\ UNCHANGED ui
  \/ Reopen \/ ClockStep

Spec == Init /\ [][Next]_vars

-----------------------------------------------------------------------------
Settled == \A t \in Tasks : step[t] = "idle"

\* "Signing out stops the sidecar": when nothing is under way and no session is
\* stored, no sidecar serves, whatever stops and starts, failures and ends came
\* before. It can be otherwise when a task of the workspace, a switch or a retry,
\* overlapped the sign-out, or a switch lost contact with a sidecar it had started;
\* and workers that were asked to exit, or left to themselves by a start that ended
\* with an error, are not among those that serve.
SignedOutIsStopped ==
  Settled /\ session = None /\ ~disturbed => Serving = {}

\* The same although a task of the workspace overlapped the sign-out.
SignedOutIsStoppedAnyway == Settled /\ session = None => Serving = {}

\* When nothing is under way, the sidecar the interface shows serves the directory
\* of the setting, after switches that failed at any point as well; only a switch
\* that lost contact with a sidecar it had started, or a task of the workspace that
\* overlapped a sign-out or a bootstrap of the gate, can make it another.
SettingIsServed ==
  Settled /\ ~disturbed /\ shown # None /\ shown = runtime => directory[shown] = preferred
=============================================================================
