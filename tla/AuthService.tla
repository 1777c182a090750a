------------------------------ MODULE AuthService ------------------------------
(***************************************************************************)
(* Login, logout and the change of the web credentials                     *)
(* (lib/WebAuth/src/AuthService.cpp and its handlers in                    *)
(* src/network/web_config_server.cpp): the credentials, the limit on       *)
(* failed logins, the recovery window and the table of sessions, with      *)
(* writes to NVS that fail and resets of the board between two writes of   *)
(* the same request.  A password is right or wrong; the credentials exist  *)
(* or not.                                                                 *)
(***************************************************************************)
EXTENDS SessionTable

CONSTANTS
    FreeAttempts,   \* kFreeAttempts
    MaxDelay,       \* kMaxDelayMs, in ticks of kBaseDelayMs
    MaxFailures,    \* bound: failures are counted up to here
    RecoveryTime    \* RecoveryWindow::DEFAULT_DURATION_MS, in ticks

ASSUME AuthAssumption ==
    /\ FreeAttempts \in Nat \ {0} /\ MaxDelay \in Nat \ {0}
    /\ MaxFailures \in Nat /\ MaxFailures >= FreeAttempts
    /\ 2 ^ (MaxFailures - FreeAttempts) >= MaxDelay
    /\ RecoveryTime \in Nat \ {0}

VARIABLES
    configured,    \* configured_ of the CredentialStore, in RAM
    record,        \* is there a record under the NVS key "cred"
    apMode,        \* is_ap_mode of this boot
    recovery,      \* ticks the recovery window stays open, 0: closed
    failures,      \* failures_ of the LoginThrottle
    sinceFailure,  \* millis() - last_failure_ms_
    pc,            \* "ready", or inside updateCredentials() after replace():
                   \* "clear", "create" or "rotate"
    caller,        \* the session that changes the credentials
    cleared,       \* observer: sessions a logout-all or a reset of the credentials
                   \* answered to have closed
    rotatedOut,    \* observer: sessions a change of the credentials answered to
                   \* have closed
    usedWindow     \* observer: new credentials were created in this boot's window

authVars == <<configured, record, apMode, recovery, failures, sinceFailure, pc, caller>>
authObservers == <<cleared, rotatedOut, usedWindow>>
allVars == <<tableVars, authVars, authObservers>>

AuthTypeOK ==
    /\ TableTypeOK
    /\ configured \in BOOLEAN /\ record \in BOOLEAN /\ apMode \in BOOLEAN
    /\ recovery \in 0..RecoveryTime
    /\ failures \in 0..MaxFailures /\ sinceFailure \in 0..MaxDelay
    /\ pc \in {"ready", "clear", "create", "rotate"}
    /\ caller \in Token \cup {NoToken}
    /\ cleared \subseteq Token /\ rotatedOut \subseteq Token
    /\ usedWindow \in BOOLEAN

AuthInit ==
    /\ TableInit
    /\ configured = FALSE /\ record = FALSE /\ apMode = FALSE
    /\ recovery = 0
    /\ failures = 0 /\ sinceFailure = 0
    /\ pc = "ready" /\ caller = NoToken
    /\ cleared = {} /\ rotatedOut = {}
    /\ usedWindow = FALSE

------------------------------------------------------------------------------
\* LoginThrottle
Delay ==
    IF failures < FreeAttempts THEN 0
    ELSE LET shifted == 2 ^ (failures - FreeAttempts)
         IN  IF shifted < MaxDelay THEN shifted ELSE MaxDelay

Throttled == sinceFailure < Delay

RecordFailure ==
    /\ failures' = IF failures < MaxFailures THEN failures + 1 ELSE failures
    /\ sinceFailure' = 0

RecordSuccess == failures' = 0 /\ sinceFailure' = 0

\* CredentialStore: the RAM follows a record that was saved; a save that fails
\* (the requests it ends change nothing) is left out of the first two.
CreateCredentials == ~configured /\ configured' = TRUE /\ record' = TRUE
ReplaceCredentials == configured' = TRUE /\ record' = TRUE
LoadCredentials(readable) == configured' = (record /\ readable) /\ UNCHANGED record

\* RecoveryWindow, by the ticks left.
WindowOpen == recovery > 0
MarkUsed == recovery' = 0
WindowElapse == recovery' = IF recovery > 0 THEN recovery - 1 ELSE 0

\* The sessions that exist somewhere: in a slot or in the blob.
Issued == {t \in Token : ~Fresh(t)}

\* The observers: what the step answered to have closed, as long as it exists.
Answered(byClear, byRotation) ==
    /\ cleared' = (cleared \cup byClear) \cap Issued'
    /\ rotatedOut' = (rotatedOut \cup byRotation) \cap Issued'

NotAnswered == Answered({}, {})

------------------------------------------------------------------------------
\* POST /api/auth/login: refused without counting while the throttle is on.
Login(t, remember, right, saved) ==
    /\ pc = "ready" /\ configured /\ ~Throttled
    /\ IF right
       THEN RecordSuccess /\ Create(t, remember, saved)
       ELSE RecordFailure /\ UNCHANGED tableVars
    /\ NotAnswered
    /\ UNCHANGED <<configured, record, apMode, recovery, pc, caller, usedWindow>>

\* POST /api/auth/credentials without credentials: first use.
CreateInitialCredentials(t) ==
    /\ pc = "ready"
    /\ CreateCredentials
    /\ CreateVolatile(t)
    /\ NotAnswered
    /\ usedWindow' = (usedWindow \/ WindowOpen)
    /\ MarkUsed
    /\ UNCHANGED <<apMode, failures, sinceFailure, pc, caller>>

\* The same request in AP mode or in the recovery window: the current password
\* is not asked.
ReplaceForReset ==
    /\ pc = "ready" /\ configured /\ (apMode \/ WindowOpen)
    /\ ReplaceCredentials
    /\ pc' = "clear"
    /\ usedWindow' = (usedWindow \/ WindowOpen)
    /\ UNCHANGED <<tableVars, apMode, recovery, failures, sinceFailure, caller>>
    /\ NotAnswered

\* All sessions are closed, or none when NVS cannot be written.
ClearForReset(saved) ==
    /\ pc = "clear"
    /\ Clear(saved)
    /\ pc' = "create"
    /\ Answered(IF saved THEN Issued ELSE {}, {})
    /\ UNCHANGED <<configured, record, apMode, recovery, failures, sinceFailure, caller, usedWindow>>

\* Mutant: the window stays open when the sessions could not be closed.
FinishResetKeepsWindow(n) ==
    /\ pc = "create"
    /\ IF apMode THEN UNCHANGED tableVars ELSE CreateVolatile(n)
    /\ recovery' = IF blob = <<>> THEN 0 ELSE recovery
    /\ pc' = "ready"
    /\ NotAnswered
    /\ UNCHANGED <<configured, record, apMode, failures, sinceFailure, caller, usedWindow>>

\* Out of AP mode the caller gets a new session, whether the others were closed or not.
FinishReset(n) ==
    /\ pc = "create"
    /\ IF apMode THEN UNCHANGED tableVars ELSE CreateVolatile(n)
    /\ MarkUsed
    /\ pc' = "ready"
    /\ NotAnswered
    /\ UNCHANGED <<configured, record, apMode, failures, sinceFailure, caller, usedWindow>>

\* The same request in STA mode, by a session that knows the current password.
ReplaceForChange(t, right, credSaved) ==
    /\ pc = "ready" /\ configured /\ ~apMode /\ ~WindowOpen
    /\ Honoured(t) /\ ~Throttled
    /\ Validate(t)
    /\ IF right THEN RecordSuccess ELSE RecordFailure
    /\ IF right /\ credSaved
       THEN pc' = "rotate" /\ caller' = t /\ ReplaceCredentials
       ELSE UNCHANGED <<pc, caller, configured, record>>
    /\ NotAnswered
    /\ UNCHANGED <<apMode, recovery, usedWindow>>

\* The caller's session is replaced by n and the others are closed, or nothing is.
FinishChange(n, saved) ==
    /\ pc = "rotate"
    /\ RotateExclusive(caller, n, saved)
    /\ Answered({}, IF RotationOk(caller, saved) THEN Issued ELSE {})
    /\ pc' = "ready" /\ caller' = NoToken
    /\ UNCHANGED <<configured, record, apMode, recovery, failures, sinceFailure, usedWindow>>

\* POST /api/auth/logout: answered 200 even when the blob cannot be written.
Logout(t, saved) ==
    /\ pc = "ready" /\ Found(t)
    /\ Remove(t, saved)
    /\ NotAnswered
    /\ UNCHANGED <<authVars, usedWindow>>

\* Mutant: the slots are cleared and the write is not looked at.
LogoutAllUnchecked(t, saved) ==
    /\ pc = "ready" /\ ~apMode /\ configured /\ Honoured(t)
    /\ slots' = NoSlots /\ persistent' = NoPersistent
    /\ blob' = IF saved THEN <<>> ELSE blob
    /\ UNCHANGED nextSeq
    /\ Answered(Issued, {})
    /\ UNCHANGED <<authVars, usedWindow>>

\* POST /api/auth/logout-all.
LogoutAll(t, saved) ==
    /\ pc = "ready" /\ ~apMode /\ configured /\ Honoured(t)
    /\ IF saved THEN Clear(saved) ELSE Validate(t)
    /\ Answered(IF saved THEN Issued ELSE {}, {})
    /\ UNCHANGED <<authVars, usedWindow>>

\* evaluateRequest() of any other request with the cookie of t.
Request(t) ==
    /\ pc = "ready" /\ ~apMode /\ configured /\ Found(t)
    /\ Validate(t)
    /\ NotAnswered
    /\ UNCHANGED <<authVars, usedWindow>>

------------------------------------------------------------------------------
\* A reset, at any point of a request: the RAM is lost, the window too.  The
\* double reset starts the AP, or opens the window on a board without Wi-Fi.
Boot(mode, credLoaded, loaded, saved) ==
    /\ Begin(loaded, saved)
    /\ LoadCredentials(credLoaded)
    /\ apMode' = (mode = "access point")
    /\ recovery' = IF mode = "recovery" THEN RecoveryTime ELSE 0
    /\ failures' = 0 /\ sinceFailure' = 0
    /\ pc' = "ready" /\ caller' = NoToken
    /\ usedWindow' = FALSE
    /\ NotAnswered

AuthElapse ==
    /\ pc = "ready"
    /\ TableElapse
    /\ sinceFailure' = IF sinceFailure < MaxDelay THEN sinceFailure + 1 ELSE MaxDelay
    /\ WindowElapse
    /\ NotAnswered
    /\ UNCHANGED <<configured, record, apMode, failures, pc, caller, usedWindow>>

AuthNext ==
    \/ \E t \in Token : \E remember, right, saved \in BOOLEAN : Login(t, remember, right, saved)
    \/ \E t \in Token : CreateInitialCredentials(t)
    \/ ReplaceForReset
    \/ \E saved \in BOOLEAN : ClearForReset(saved)
    \/ \E n \in Token : FinishReset(n)
    \/ \E t \in Token : \E right, credSaved \in BOOLEAN : ReplaceForChange(t, right, credSaved)
    \/ \E n \in Token : \E saved \in BOOLEAN : FinishChange(n, saved)
    \/ \E t \in Token : \E saved \in BOOLEAN : Logout(t, saved)
    \/ \E t \in Token : \E saved \in BOOLEAN : LogoutAll(t, saved)
    \/ \E t \in Token : Request(t)
    \/ \E mode \in {"station", "access point", "recovery"} :
         \E credLoaded, loaded, saved \in BOOLEAN : Boot(mode, credLoaded, loaded, saved)
    \/ AuthElapse

AuthSpec == AuthInit /\ [][AuthNext]_allVars

------------------------------------------------------------------------------
\* A session that a logout-all or a reset of the credentials answered to have
\* closed is never honoured again, whatever writes fail and whatever resets
\* follow (SessionTable::clear writes NVS before the RAM).
ClearedIsFinal == \A t \in cleared : ~Honoured(t)

\* A session that a change of the credentials answered to have closed
\* ("sessions_closed":true) is never honoured again (ADR 0009: every other
\* session is closed, in one storage write).
RotatedOutIsFinal == \A t \in rotatedOut : ~Honoured(t)

\* Whoever changes the credentials stays logged in: with the new session, or with
\* the old one when the sessions could not be written.
ChangerStaysIn ==
    [][\A t, n \in Token : \A saved \in BOOLEAN :
          caller = t /\ FinishChange(n, saved) => (Honoured(t) \/ Honoured(n))']_allVars

\* The recovery window serves one request: once new credentials were created in
\* it, it is closed, even when the sessions could not be closed.
WindowServesOnce == usedWindow /\ pc = "ready" => recovery = 0

\* What the service keeps true at every step of a request.
AuthInv == AuthTypeOK /\ WindowServesOnce

==============================================================================
