----------------------------- MODULE AccessGate -----------------------------
(***************************************************************************)
(* The credentials in the keyring of the system and the decision to start  *)
(* the sidecar (apps/desktop/src-tauri/src/access_gate.rs), with the mock  *)
(* licence of config/services.yaml, the only one the code can activate.    *)
(*                                                                         *)
(* A session is the account it belongs to: its tokens and their refreshing *)
(* decide nothing here, a session that cannot be refreshed stays valid     *)
(* offline. The device key is made once and never deleted, so the device   *)
(* of an entitlement always matches.                                       *)
(***************************************************************************)
EXTENDS Naturals

CONSTANTS
  Accounts,
  None,             \* no credential
  Tolerance,        \* CLOCK_ROLLBACK_TOLERANCE_SECONDS
  Validity,         \* expires_in_seconds
  StartTime,        \* when the program is started
  MaxTime,          \* bound: times of the clock
  MaxClockChanges   \* bound: how often the clock is another

ASSUME NoneAssumption == None \notin Accounts \cup Nat
ASSUME ClockAssumption ==
  /\ {Tolerance, Validity, MaxTime, MaxClockChanges} \subseteq Nat
  /\ Validity > 0 /\ StartTime \in 0 .. MaxTime

VARIABLES
  session,      \* SESSION_CREDENTIAL
  entitlement,  \* ENTITLEMENT_CREDENTIAL
  checkpoint,   \* CLOCK_CREDENTIAL
  clock,        \* the clock of the system
  changes,
  seen          \* history: the latest time at which a licence was accepted since
                \* the last activation

credentials == <<session, entitlement, checkpoint, seen>>
time        == <<clock, changes>>
gateVars    == <<credentials, time>>

Times == 0 .. MaxTime

GateTypeOK ==
  /\ session \in Accounts \cup {None}
  /\ entitlement \in [account : Accounts, expires : Nat] \cup {None}
  /\ checkpoint \in Times \cup {None}
  /\ clock \in Times
  /\ changes \in 0 .. MaxClockChanges
  /\ seen \in Times

GateInit ==
  /\ session = None /\ entitlement = None /\ checkpoint = None
  /\ clock = StartTime
  /\ changes = 0 /\ seen = 0

-----------------------------------------------------------------------------
\* clock_is_acceptable
ClockAcceptable == checkpoint = None \/ clock + Tolerance >= checkpoint

\* Mutant: the early return is lost, and a refused time becomes the checkpoint.
AdvancedCheckpoint_OfRefused ==
  IF ~ClockAcceptable \/ checkpoint = None \/ clock > checkpoint THEN clock ELSE checkpoint

\* check_and_advance_clock
AdvancedCheckpoint ==
  IF ClockAcceptable /\ (checkpoint = None \/ clock > checkpoint) THEN clock ELSE checkpoint

\* current_license_status with the session that is stored.
LicenseActive ==
  /\ session # None /\ entitlement # None
  /\ entitlement.account = session
  /\ entitlement.expires > clock
  /\ ClockAcceptable

\* What reading the status leaves behind: the clock is looked at only when there
\* is something to be valid.
CheckLicense ==
  /\ checkpoint' = IF session # None /\ entitlement # None
                     THEN AdvancedCheckpoint ELSE checkpoint
  /\ seen' = IF LicenseActive /\ clock > seen THEN clock ELSE seen
  /\ UNCHANGED <<session, entitlement>>

\* store_session of a sign-in or a sign-up.
StoreSession ==
  /\ \E a \in Accounts : session' = a
  /\ UNCHANGED <<entitlement, checkpoint, seen>>

\* The two writes of activate; ResetCheckpoint is what the first alone leaves.
ResetCheckpoint ==
  /\ checkpoint' = clock /\ seen' = clock
  /\ UNCHANGED <<session, entitlement>>

StoreEntitlement(issued) ==
  /\ entitlement' = [account |-> session, expires |-> issued + Validity]
  /\ checkpoint' = issued /\ seen' = issued
  /\ UNCHANGED session

\* sign_out and complete_password_reset delete two credentials; DeleteSession is
\* what the first deletion alone leaves. The checkpoint stays.
DeleteSession ==
  /\ session' = None
  /\ UNCHANGED <<entitlement, checkpoint, seen>>

DeleteBoth ==
  /\ session' = None /\ entitlement' = None
  /\ UNCHANGED <<checkpoint, seen>>

\* Not the program: time passes, or the clock is set back.
ClockChanges ==
  /\ changes < MaxClockChanges /\ changes' = changes + 1
  /\ clock' \in Times \ {clock}
  /\ UNCHANGED credentials

-----------------------------------------------------------------------------
\* However often the clock is set back a little and the status is read again, and
\* whoever signs out and in meanwhile, a licence is not accepted at a time more
\* than the tolerance before one at which it was accepted; only an activation
\* begins anew.
RollbackStaysRefused == LicenseActive => clock + Tolerance >= seen
=============================================================================
