---------------------------- MODULE HidHost_proofs ----------------------------
(***************************************************************************)
(* HidInv for any number of contexts and any timeouts of which the removal *)
(* has the longest.                                                        *)
(***************************************************************************)
EXTENDS HidHost, TLAPS

\* The program counters at which a request has the lock.
InUse == {"fill", "submit", "wait", "copy"}

Pcs ==
    /\ reqPc = "idle" <=> reqDevice = NoDevice
    /\ hidPc \in {"give", "uninstall", "check", "free"} <=> hidDevice # NoDevice

Locks ==
    /\ \A d \in Device : busy[d] = "request" <=> reqPc \in InUse /\ reqDevice = d
    /\ reqPc \in InUse => context[reqDevice] # "free"
    /\ hidPc \in {"check", "free"} => busy[hidDevice] = "hid"
    /\ \A d \in Device : busy[d] = "hid" =>
         context[d] = "free" \/ (hidPc \in {"check", "free"} /\ hidDevice = d)

Removal ==
    /\ newEvent => \A d \in Device : context[d] # "installed"
    /\ goneEvent # NoDevice => bus = "empty" /\ context[goneEvent] = "installed"
    /\ hidPc \in {"uninstall", "check", "free"} =>
         bus = "empty" /\ context[hidDevice] = "installed" /\ goneEvent = NoDevice
    /\ hidPc = "give" => context[hidDevice] # "free"

Timer ==
    /\ reqPc = "wait" => reqLeft < UninstallTimeout
    /\ hidPc = "uninstall" =>
         /\ hidLeft > 0
         /\ reqPc = "wait" /\ reqDevice = hidDevice => reqLeft < hidLeft

Owned ==
    /\ \A d \in Device : transfer[d] \in {"submitted", "returned"} =>
                            inflight[d] /\ context[d] # "free"
    /\ reqPc \in {"fill", "submit"} => transfer[reqDevice] = "idle"
    /\ reqPc = "lock" => transfer[reqDevice] # "none"
    /\ hidPc = "free" => ~inflight[hidDevice]

\* The callback of d is between its two statements.
Giving(d) == hidPc = "give" /\ hidDevice = d

Tokens ==
    \/ overtaken
    \/ /\ reqPc = "submit" => ~token[reqDevice] /\ ~Giving(reqDevice)
       /\ reqPc = "wait" /\ (token[reqDevice] \/ Giving(reqDevice)) =>
            transfer[reqDevice] # "submitted"
       /\ reqPc = "copy" => transfer[reqDevice] # "submitted"

\* Inductive, and stronger than HidInv.
HidIInv == HidTypeOK /\ Pcs /\ Locks /\ Removal /\ Timer /\ Owned /\ Tokens

\* The types are kept by every step.
LEMMA TypeKept == HidIInv /\ [HidNext]_hidVars => HidTypeOK'
  <1> SUFFICES ASSUME HidIInv, [HidNext]_hidVars PROVE HidTypeOK'
    OBVIOUS
  <1> USE HidAssumption DEF HidIInv, HidTypeOK, Pcs, Device, NoDevice, contextVars, requestVars, taskVars
  <1>1. CASE ReqBegins
    BY <1>1 DEF ReqBegins
  <1>2. CASE ReqLocks
    <2>1. CASE inflight[reqDevice]
      <3>1. ReqReturns /\ UNCHANGED contextVars /\ UNCHANGED taskVars
        BY <1>2, <2>1, Zenon DEF ReqLocks
      <3>2. QED
        BY <3>1 DEF ReqReturns
    <2>2. CASE ~inflight[reqDevice]
      BY <1>2, <2>2 DEF ReqLocks
    <2>3. QED
      BY <2>1, <2>2
  <1>3. CASE ReqLockTimesOut
    BY <1>3 DEF ReqLockTimesOut, ReqReturns
  <1>4. CASE ReqLockGone
    BY <1>4 DEF ReqLockGone, ReqReturns
  <1>5. CASE ReqFills
    BY <1>5 DEF ReqFills, DropOldToken
  <1>6. CASE ReqLosesBuffer
    BY <1>6 DEF ReqLosesBuffer, ReqReturns, Unlock
  <1>7. CASE ReqSubmits
    BY <1>7 DEF ReqSubmits
  <1>8. CASE ReqNotSubmitted
    BY <1>8 DEF ReqNotSubmitted, ReqReturns, Unlock
  <1>9. CASE ReqAnswered
    BY <1>9 DEF ReqAnswered
  <1>10. CASE ReqTimesOut
    BY <1>10 DEF ReqTimesOut, ReqReturns, Unlock
  <1>11. CASE ReqCopies
    BY <1>11 DEF ReqCopies, ReqReturns, Unlock
  <1>12. CASE InterfaceDropped
    BY <1>12 DEF InterfaceDropped
  <1>13. CASE HidWakes
    BY <1>13 DEF HidWakes, Returned
  <1>14. CASE HandsBack
    BY <1>14 DEF HandsBack, Returned
  <1>15. CASE GivesToken
    BY <1>15 DEF GivesToken
  <1>16. CASE CallbacksDone
    BY <1>16 DEF CallbacksDone, Returned
  <1>17. CASE EventsDone
    BY <1>17 DEF EventsDone
  <1>18. CASE DeviceInstalled
    <2>1. CASE UNCHANGED contextVars
      BY <1>18, <2>1 DEF DeviceInstalled
    <2>2. ASSUME NEW d \in Device, Allocated(d), parent' = d PROVE HidTypeOK'
      <3>1. /\ context' \in [Device -> {"free", "installed", "leaked"}]
            /\ busy' \in [Device -> {"free", "request", "hid"}]
        BY <2>2 DEF Allocated
      <3>2. /\ inflight' \in [Device -> BOOLEAN] /\ token' \in [Device -> BOOLEAN]
            /\ transfer' \in [Device -> {"idle", "submitted", "returned", "none"}]
        BY <2>2 DEF Allocated
      <3>3. QED
        BY <1>18, <2>2, <3>1, <3>2 DEF DeviceInstalled
    <2>3. QED
      BY <1>18, <2>1, <2>2 DEF DeviceInstalled
  <1>19. CASE DeviceRemoved
    BY <1>19 DEF DeviceRemoved
  <1>20. CASE UninstallLocks
    BY <1>20 DEF UninstallLocks, WaitedInVain
  <1>21. CASE UninstallChecks
    BY <1>21 DEF UninstallChecks, MustLeak, Leaked
  <1>22. CASE UninstallFrees
    BY <1>22 DEF UninstallFrees
  <1>23. CASE Plugged
    BY <1>23 DEF Plugged, Installed, BothBlocked, ReqBlocked, HidBlocked
  <1>24. CASE Answers
    BY <1>24 DEF Answers, Installed
  <1>25. CASE Unplugged
    BY <1>25 DEF Unplugged, Installed
  <1>26. CASE GoneTold
    BY <1>26 DEF GoneTold, Installed
  <1>27. CASE HidElapse
    BY <1>27 DEF HidElapse, BothBlocked, ReqBlocked, HidBlocked, Sooner
  <1>28. CASE UNCHANGED hidVars
    BY <1>28 DEF hidVars
  <1>29. QED
    BY <1>1, <1>2, <1>3, <1>4, <1>5, <1>6, <1>7, <1>8, <1>9, <1>10, <1>11, <1>12, <1>13, <1>14, <1>15, <1>16, <1>17, <1>18, <1>19, <1>20, <1>21, <1>22, <1>23, <1>24, <1>25, <1>26, <1>27, <1>28 DEF HidNext, ReqWorks, HidWorks

\* Each of the two knows the context it works on.
LEMMA PcsKept == HidIInv /\ [HidNext]_hidVars => Pcs'
  <1> SUFFICES ASSUME HidIInv, [HidNext]_hidVars PROVE Pcs'
    OBVIOUS
  <1> USE HidAssumption DEF HidIInv, HidTypeOK, Pcs, Device, NoDevice, contextVars, requestVars, taskVars
  <1>1. CASE ReqBegins
    BY <1>1 DEF ReqBegins
  <1>2. CASE ReqLocks
    BY <1>2 DEF ReqLocks, ReqReturns
  <1>3. CASE ReqLockTimesOut
    BY <1>3 DEF ReqLockTimesOut, ReqReturns
  <1>4. CASE ReqLockGone
    BY <1>4 DEF ReqLockGone, ReqReturns
  <1>5. CASE ReqFills
    BY <1>5 DEF ReqFills, DropOldToken
  <1>6. CASE ReqLosesBuffer
    BY <1>6 DEF ReqLosesBuffer, ReqReturns, Unlock
  <1>7. CASE ReqSubmits
    BY <1>7 DEF ReqSubmits
  <1>8. CASE ReqNotSubmitted
    BY <1>8 DEF ReqNotSubmitted, ReqReturns, Unlock
  <1>9. CASE ReqAnswered
    BY <1>9 DEF ReqAnswered
  <1>10. CASE ReqTimesOut
    BY <1>10 DEF ReqTimesOut, ReqReturns, Unlock
  <1>11. CASE ReqCopies
    BY <1>11 DEF ReqCopies, ReqReturns, Unlock
  <1>12. CASE InterfaceDropped
    BY <1>12 DEF InterfaceDropped
  <1>13. CASE HidWakes
    BY <1>13 DEF HidWakes, Returned
  <1>14. CASE HandsBack
    BY <1>14 DEF HandsBack, Returned
  <1>15. CASE GivesToken
    BY <1>15 DEF GivesToken
  <1>16. CASE CallbacksDone
    BY <1>16 DEF CallbacksDone, Returned
  <1>17. CASE EventsDone
    BY <1>17 DEF EventsDone
  <1>18. CASE DeviceInstalled
    BY <1>18 DEF DeviceInstalled, Allocated
  <1>19. CASE DeviceRemoved
    BY <1>19 DEF DeviceRemoved
  <1>20. CASE UninstallLocks
    BY <1>20 DEF UninstallLocks, WaitedInVain
  <1>21. CASE UninstallChecks
    BY <1>21 DEF UninstallChecks, MustLeak, Leaked
  <1>22. CASE UninstallFrees
    BY <1>22 DEF UninstallFrees
  <1>23. CASE Plugged
    BY <1>23 DEF Plugged, Installed, BothBlocked, ReqBlocked, HidBlocked
  <1>24. CASE Answers
    BY <1>24 DEF Answers, Installed
  <1>25. CASE Unplugged
    BY <1>25 DEF Unplugged, Installed
  <1>26. CASE GoneTold
    BY <1>26 DEF GoneTold, Installed
  <1>27. CASE HidElapse
    BY <1>27 DEF HidElapse, BothBlocked, ReqBlocked, HidBlocked, Sooner
  <1>28. CASE UNCHANGED hidVars
    BY <1>28 DEF hidVars
  <1>29. QED
    BY <1>1, <1>2, <1>3, <1>4, <1>5, <1>6, <1>7, <1>8, <1>9, <1>10, <1>11, <1>12, <1>13, <1>14, <1>15, <1>16, <1>17, <1>18, <1>19, <1>20, <1>21, <1>22, <1>23, <1>24, <1>25, <1>26, <1>27, <1>28 DEF HidNext, ReqWorks, HidWorks

\* The lock of a request is its own until it gives it back, and the removal always gets
\* the lock: it never waits in vain.
LEMMA LocksKept == HidIInv /\ [HidNext]_hidVars => Locks'
  <1> SUFFICES ASSUME HidIInv, [HidNext]_hidVars PROVE Locks'
    OBVIOUS
  <1> USE HidAssumption DEF HidIInv, HidTypeOK, Pcs, Locks, Removal, Timer, InUse, Device, NoDevice, contextVars, requestVars, taskVars
  <1>1. CASE ReqBegins
    BY <1>1 DEF ReqBegins
  <1>2. CASE ReqLocks
    BY <1>2 DEF ReqLocks, ReqReturns
  <1>3. CASE ReqLockTimesOut
    BY <1>3 DEF ReqLockTimesOut, ReqReturns
  <1>4. CASE ReqLockGone
    BY <1>4 DEF ReqLockGone, ReqReturns
  <1>5. CASE ReqFills
    BY <1>5 DEF ReqFills, DropOldToken
  <1>6. CASE ReqLosesBuffer
    BY <1>6 DEF ReqLosesBuffer, ReqReturns, Unlock
  <1>7. CASE ReqSubmits
    BY <1>7 DEF ReqSubmits
  <1>8. CASE ReqNotSubmitted
    BY <1>8 DEF ReqNotSubmitted, ReqReturns, Unlock
  <1>9. CASE ReqAnswered
    BY <1>9 DEF ReqAnswered
  <1>10. CASE ReqTimesOut
    BY <1>10 DEF ReqTimesOut, ReqReturns, Unlock
  <1>11. CASE ReqCopies
    BY <1>11 DEF ReqCopies, ReqReturns, Unlock
  <1>12. CASE InterfaceDropped
    BY <1>12 DEF InterfaceDropped
  <1>13. CASE HidWakes
    BY <1>13 DEF HidWakes, Returned
  <1>14. CASE HandsBack
    BY <1>14 DEF HandsBack, Returned
  <1>15. CASE GivesToken
    BY <1>15 DEF GivesToken
  <1>16. CASE CallbacksDone
    BY <1>16 DEF CallbacksDone, Returned
  <1>17. CASE EventsDone
    BY <1>17 DEF EventsDone
  <1>18. CASE DeviceInstalled
    BY <1>18 DEF DeviceInstalled, Allocated
  <1>19. CASE DeviceRemoved
    BY <1>19 DEF DeviceRemoved
  <1>20. CASE UninstallLocks
    BY <1>20 DEF UninstallLocks, WaitedInVain
  <1>21. CASE UninstallChecks
    BY <1>21 DEF UninstallChecks, MustLeak, Leaked
  <1>22. CASE UninstallFrees
    <2>1. hidDevice \in Device /\ busy[hidDevice] = "hid"
      BY <1>22 DEF UninstallFrees
    <2>2. context' = [context EXCEPT ![hidDevice] = "free"] /\ hidPc' = "events"
      BY <1>22 DEF UninstallFrees
    <2>3. UNCHANGED <<busy, reqPc, reqDevice>>
      BY <1>22 DEF UninstallFrees
    <2>4. \A d \in Device : busy'[d] = "request" <=> reqPc' \in InUse /\ reqDevice' = d
      BY <2>3
    <2>5. reqPc' \in InUse => context'[reqDevice'] # "free"
      BY <2>1, <2>2, <2>3
    <2>6. ASSUME NEW d \in Device, busy'[d] = "hid" PROVE context'[d] = "free"
      <3>1. context[d] = "free" \/ hidDevice = d
        BY <2>3, <2>6
      <3>2. CASE hidDevice = d
        BY <2>1, <2>2, <3>2
      <3>3. CASE hidDevice # d
        BY <2>2, <3>1, <3>3
      <3>4. QED
        BY <3>2, <3>3
    <2>7. hidPc' \in {"check", "free"} => busy'[hidDevice'] = "hid"
      BY <2>2
    <2>8. \A d \in Device : busy'[d] = "hid" => context'[d] = "free"
      BY <2>6
    <2>9. QED
      BY <2>4, <2>5, <2>7, <2>8, Zenon DEF Locks
  <1>23. CASE Plugged
    BY <1>23 DEF Plugged, Installed, BothBlocked, ReqBlocked, HidBlocked
  <1>24. CASE Answers
    BY <1>24 DEF Answers, Installed
  <1>25. CASE Unplugged
    BY <1>25 DEF Unplugged, Installed
  <1>26. CASE GoneTold
    BY <1>26 DEF GoneTold, Installed
  <1>27. CASE HidElapse
    BY <1>27 DEF HidElapse, BothBlocked, ReqBlocked, HidBlocked, Sooner
  <1>28. CASE UNCHANGED hidVars
    BY <1>28 DEF hidVars
  <1>29. QED
    BY <1>1, <1>2, <1>3, <1>4, <1>5, <1>6, <1>7, <1>8, <1>9, <1>10, <1>11, <1>12, <1>13, <1>14, <1>15, <1>16, <1>17, <1>18, <1>19, <1>20, <1>21, <1>22, <1>23, <1>24, <1>25, <1>26, <1>27, <1>28 DEF HidNext, ReqWorks, HidWorks

\* A device is removed once, after it has gone from the bus.
LEMMA RemovalKept == HidIInv /\ [HidNext]_hidVars => Removal'
  <1> SUFFICES ASSUME HidIInv, [HidNext]_hidVars PROVE Removal'
    OBVIOUS
  <1> USE HidAssumption DEF HidIInv, HidTypeOK, Pcs, Removal, Owned, Device, NoDevice, Installed, contextVars, requestVars, taskVars
  <1>1. CASE ReqBegins
    BY <1>1 DEF ReqBegins
  <1>2. CASE ReqLocks
    BY <1>2 DEF ReqLocks, ReqReturns
  <1>3. CASE ReqLockTimesOut
    BY <1>3 DEF ReqLockTimesOut, ReqReturns
  <1>4. CASE ReqLockGone
    BY <1>4 DEF ReqLockGone, ReqReturns
  <1>5. CASE ReqFills
    BY <1>5 DEF ReqFills, DropOldToken
  <1>6. CASE ReqLosesBuffer
    BY <1>6 DEF ReqLosesBuffer, ReqReturns, Unlock
  <1>7. CASE ReqSubmits
    BY <1>7 DEF ReqSubmits
  <1>8. CASE ReqNotSubmitted
    BY <1>8 DEF ReqNotSubmitted, ReqReturns, Unlock
  <1>9. CASE ReqAnswered
    BY <1>9 DEF ReqAnswered
  <1>10. CASE ReqTimesOut
    BY <1>10 DEF ReqTimesOut, ReqReturns, Unlock
  <1>11. CASE ReqCopies
    BY <1>11 DEF ReqCopies, ReqReturns, Unlock
  <1>12. CASE InterfaceDropped
    BY <1>12 DEF InterfaceDropped
  <1>13. CASE HidWakes
    BY <1>13 DEF HidWakes, Returned
  <1>14. CASE HandsBack
    BY <1>14 DEF HandsBack, Returned
  <1>15. CASE GivesToken
    BY <1>15 DEF GivesToken
  <1>16. CASE CallbacksDone
    BY <1>16 DEF CallbacksDone, Returned
  <1>17. CASE EventsDone
    BY <1>17 DEF EventsDone
  <1>18. CASE DeviceInstalled
    BY <1>18 DEF DeviceInstalled, Allocated
  <1>19. CASE DeviceRemoved
    BY <1>19 DEF DeviceRemoved
  <1>20. CASE UninstallLocks
    BY <1>20 DEF UninstallLocks, WaitedInVain
  <1>21. CASE UninstallChecks
    BY <1>21 DEF UninstallChecks, MustLeak, Leaked
  <1>22. CASE UninstallFrees
    BY <1>22 DEF UninstallFrees
  <1>23. CASE Plugged
    BY <1>23 DEF Plugged, BothBlocked, ReqBlocked, HidBlocked
  <1>24. CASE Answers
    BY <1>24 DEF Answers
  <1>25. CASE Unplugged
    BY <1>25 DEF Unplugged
  <1>26. CASE GoneTold
    BY <1>26 DEF GoneTold
  <1>27. CASE HidElapse
    BY <1>27 DEF HidElapse, BothBlocked, ReqBlocked, HidBlocked, Sooner
  <1>28. CASE UNCHANGED hidVars
    BY <1>28 DEF hidVars
  <1>29. QED
    BY <1>1, <1>2, <1>3, <1>4, <1>5, <1>6, <1>7, <1>8, <1>9, <1>10, <1>11, <1>12, <1>13, <1>14, <1>15, <1>16, <1>17, <1>18, <1>19, <1>20, <1>21, <1>22, <1>23, <1>24, <1>25, <1>26, <1>27, <1>28 DEF HidNext, ReqWorks, HidWorks

\* The removal has more time left than the request it waits for.
LEMMA TimerKept == HidIInv /\ [HidNext]_hidVars => Timer'
  <1> SUFFICES ASSUME HidIInv, [HidNext]_hidVars PROVE Timer'
    OBVIOUS
  <1> USE HidAssumption DEF HidIInv, HidTypeOK, Pcs, Locks, Removal, Timer, InUse, Device, NoDevice, contextVars, requestVars, taskVars
  <1>1. CASE ReqBegins
    BY <1>1 DEF ReqBegins
  <1>2. CASE ReqLocks
    BY <1>2 DEF ReqLocks, ReqReturns
  <1>3. CASE ReqLockTimesOut
    BY <1>3 DEF ReqLockTimesOut, ReqReturns
  <1>4. CASE ReqLockGone
    BY <1>4 DEF ReqLockGone, ReqReturns
  <1>5. CASE ReqFills
    BY <1>5 DEF ReqFills, DropOldToken
  <1>6. CASE ReqLosesBuffer
    BY <1>6 DEF ReqLosesBuffer, ReqReturns, Unlock
  <1>7. CASE ReqSubmits
    BY <1>7 DEF ReqSubmits
  <1>8. CASE ReqNotSubmitted
    BY <1>8 DEF ReqNotSubmitted, ReqReturns, Unlock
  <1>9. CASE ReqAnswered
    BY <1>9 DEF ReqAnswered
  <1>10. CASE ReqTimesOut
    BY <1>10 DEF ReqTimesOut, ReqReturns, Unlock
  <1>11. CASE ReqCopies
    BY <1>11 DEF ReqCopies, ReqReturns, Unlock
  <1>12. CASE InterfaceDropped
    BY <1>12 DEF InterfaceDropped
  <1>13. CASE HidWakes
    BY <1>13 DEF HidWakes, Returned
  <1>14. CASE HandsBack
    BY <1>14 DEF HandsBack, Returned
  <1>15. CASE GivesToken
    BY <1>15 DEF GivesToken
  <1>16. CASE CallbacksDone
    BY <1>16 DEF CallbacksDone, Returned
  <1>17. CASE EventsDone
    BY <1>17 DEF EventsDone
  <1>18. CASE DeviceInstalled
    BY <1>18 DEF DeviceInstalled, Allocated
  <1>19. CASE DeviceRemoved
    BY <1>19 DEF DeviceRemoved
  <1>20. CASE UninstallLocks
    BY <1>20 DEF UninstallLocks, WaitedInVain
  <1>21. CASE UninstallChecks
    BY <1>21 DEF UninstallChecks, MustLeak, Leaked
  <1>22. CASE UninstallFrees
    BY <1>22 DEF UninstallFrees
  <1>23. CASE Plugged
    BY <1>23 DEF Plugged, Installed, BothBlocked, ReqBlocked, HidBlocked
  <1>24. CASE Answers
    BY <1>24 DEF Answers, Installed
  <1>25. CASE Unplugged
    BY <1>25 DEF Unplugged, Installed
  <1>26. CASE GoneTold
    BY <1>26 DEF GoneTold, Installed
  <1>27. CASE HidElapse
    <2>1. CASE hidPc = "uninstall"
      <3>1. hidLeft > 0 /\ busy[hidDevice] = "request"
        BY <1>27, <2>1 DEF HidElapse, BothBlocked, HidBlocked
      <3>2. reqPc = "wait" /\ reqDevice = hidDevice /\ reqLeft > 0
        BY <1>27, <2>1, <3>1 DEF HidElapse, BothBlocked, ReqBlocked
      <3>3. QED
        BY <1>27, <2>1, <3>1, <3>2 DEF HidElapse, Sooner
    <2>2. CASE hidPc # "uninstall"
      BY <1>27, <2>2 DEF HidElapse, Sooner
    <2>3. QED
      BY <2>1, <2>2
  <1>28. CASE UNCHANGED hidVars
    BY <1>28 DEF hidVars
  <1>29. QED
    BY <1>1, <1>2, <1>3, <1>4, <1>5, <1>6, <1>7, <1>8, <1>9, <1>10, <1>11, <1>12, <1>13, <1>14, <1>15, <1>16, <1>17, <1>18, <1>19, <1>20, <1>21, <1>22, <1>23, <1>24, <1>25, <1>26, <1>27, <1>28 DEF HidNext, ReqWorks, HidWorks

\* A transfer the stack has is in flight for the driver, and its context is there.
LEMMA OwnedKept == HidIInv /\ [HidNext]_hidVars => Owned'
  <1> SUFFICES ASSUME HidIInv, [HidNext]_hidVars PROVE Owned'
    OBVIOUS
  <1> USE HidAssumption DEF HidIInv, HidTypeOK, Pcs, Locks, Removal, Owned, InUse, Device, NoDevice, contextVars, requestVars, taskVars
  <1>1. CASE ReqBegins
    BY <1>1 DEF ReqBegins
  <1>2. CASE ReqLocks
    BY <1>2 DEF ReqLocks, ReqReturns
  <1>3. CASE ReqLockTimesOut
    BY <1>3 DEF ReqLockTimesOut, ReqReturns
  <1>4. CASE ReqLockGone
    BY <1>4 DEF ReqLockGone, ReqReturns
  <1>5. CASE ReqFills
    BY <1>5 DEF ReqFills, DropOldToken
  <1>6. CASE ReqLosesBuffer
    BY <1>6 DEF ReqLosesBuffer, ReqReturns, Unlock
  <1>7. CASE ReqSubmits
    BY <1>7 DEF ReqSubmits
  <1>8. CASE ReqNotSubmitted
    BY <1>8 DEF ReqNotSubmitted, ReqReturns, Unlock
  <1>9. CASE ReqAnswered
    BY <1>9 DEF ReqAnswered
  <1>10. CASE ReqTimesOut
    BY <1>10 DEF ReqTimesOut, ReqReturns, Unlock
  <1>11. CASE ReqCopies
    BY <1>11 DEF ReqCopies, ReqReturns, Unlock
  <1>12. CASE InterfaceDropped
    BY <1>12 DEF InterfaceDropped
  <1>13. CASE HidWakes
    BY <1>13 DEF HidWakes, Returned
  <1>14. CASE HandsBack
    BY <1>14 DEF HandsBack, Returned
  <1>15. CASE GivesToken
    BY <1>15 DEF GivesToken
  <1>16. CASE CallbacksDone
    BY <1>16 DEF CallbacksDone, Returned
  <1>17. CASE EventsDone
    BY <1>17 DEF EventsDone
  <1>18. CASE DeviceInstalled
    BY <1>18 DEF DeviceInstalled, Allocated
  <1>19. CASE DeviceRemoved
    BY <1>19 DEF DeviceRemoved
  <1>20. CASE UninstallLocks
    BY <1>20 DEF UninstallLocks, WaitedInVain
  <1>21. CASE UninstallChecks
    BY <1>21 DEF UninstallChecks, MustLeak, Leaked
  <1>22. CASE UninstallFrees
    BY <1>22 DEF UninstallFrees
  <1>23. CASE Plugged
    BY <1>23 DEF Plugged, Installed, BothBlocked, ReqBlocked, HidBlocked
  <1>24. CASE Answers
    BY <1>24 DEF Answers, Installed
  <1>25. CASE Unplugged
    BY <1>25 DEF Unplugged, Installed
  <1>26. CASE GoneTold
    BY <1>26 DEF GoneTold, Installed
  <1>27. CASE HidElapse
    BY <1>27 DEF HidElapse, BothBlocked, ReqBlocked, HidBlocked, Sooner
  <1>28. CASE UNCHANGED hidVars
    BY <1>28 DEF hidVars
  <1>29. QED
    BY <1>1, <1>2, <1>3, <1>4, <1>5, <1>6, <1>7, <1>8, <1>9, <1>10, <1>11, <1>12, <1>13, <1>14, <1>15, <1>16, <1>17, <1>18, <1>19, <1>20, <1>21, <1>22, <1>23, <1>24, <1>25, <1>26, <1>27, <1>28 DEF HidNext, ReqWorks, HidWorks

\* A token in the semaphore is not one for the transfer just submitted.
LEMMA TokensKept == HidIInv /\ [HidNext]_hidVars => Tokens'
  <1> SUFFICES ASSUME HidIInv, [HidNext]_hidVars PROVE Tokens'
    OBVIOUS
  <1> USE HidAssumption DEF HidIInv, HidTypeOK, Pcs, Locks, Removal, Owned, Tokens, InUse, Device, NoDevice, Giving, contextVars, requestVars, taskVars
  <1>1. CASE ReqBegins
    BY <1>1 DEF ReqBegins
  <1>2. CASE ReqLocks
    BY <1>2 DEF ReqLocks, ReqReturns
  <1>3. CASE ReqLockTimesOut
    BY <1>3 DEF ReqLockTimesOut, ReqReturns
  <1>4. CASE ReqLockGone
    BY <1>4 DEF ReqLockGone, ReqReturns
  <1>5. CASE ReqFills
    BY <1>5 DEF ReqFills, DropOldToken
  <1>6. CASE ReqLosesBuffer
    BY <1>6 DEF ReqLosesBuffer, ReqReturns, Unlock
  <1>7. CASE ReqSubmits
    BY <1>7 DEF ReqSubmits
  <1>8. CASE ReqNotSubmitted
    BY <1>8 DEF ReqNotSubmitted, ReqReturns, Unlock
  <1>9. CASE ReqAnswered
    BY <1>9 DEF ReqAnswered
  <1>10. CASE ReqTimesOut
    BY <1>10 DEF ReqTimesOut, ReqReturns, Unlock
  <1>11. CASE ReqCopies
    BY <1>11 DEF ReqCopies, ReqReturns, Unlock
  <1>12. CASE InterfaceDropped
    BY <1>12 DEF InterfaceDropped
  <1>13. CASE HidWakes
    BY <1>13 DEF HidWakes, Returned
  <1>14. CASE HandsBack
    BY <1>14 DEF HandsBack, Returned
  <1>15. CASE GivesToken
    BY <1>15 DEF GivesToken
  <1>16. CASE CallbacksDone
    BY <1>16 DEF CallbacksDone, Returned
  <1>17. CASE EventsDone
    BY <1>17 DEF EventsDone
  <1>18. CASE DeviceInstalled
    BY <1>18 DEF DeviceInstalled, Allocated
  <1>19. CASE DeviceRemoved
    BY <1>19 DEF DeviceRemoved
  <1>20. CASE UninstallLocks
    BY <1>20 DEF UninstallLocks, WaitedInVain
  <1>21. CASE UninstallChecks
    BY <1>21 DEF UninstallChecks, MustLeak, Leaked
  <1>22. CASE UninstallFrees
    BY <1>22 DEF UninstallFrees
  <1>23. CASE Plugged
    BY <1>23 DEF Plugged, Installed, BothBlocked, ReqBlocked, HidBlocked
  <1>24. CASE Answers
    BY <1>24 DEF Answers, Installed
  <1>25. CASE Unplugged
    BY <1>25 DEF Unplugged, Installed
  <1>26. CASE GoneTold
    BY <1>26 DEF GoneTold, Installed
  <1>27. CASE HidElapse
    BY <1>27 DEF HidElapse, BothBlocked, ReqBlocked, HidBlocked, Sooner
  <1>28. CASE UNCHANGED hidVars
    BY <1>28 DEF hidVars
  <1>29. QED
    BY <1>1, <1>2, <1>3, <1>4, <1>5, <1>6, <1>7, <1>8, <1>9, <1>10, <1>11, <1>12, <1>13, <1>14, <1>15, <1>16, <1>17, <1>18, <1>19, <1>20, <1>21, <1>22, <1>23, <1>24, <1>25, <1>26, <1>27, <1>28 DEF HidNext, ReqWorks, HidWorks

\* HidInv at every step of every behaviour: no context is freed under the stack or under
\* a request that has its lock, and answers are not mixed up.
THEOREM HidInvariant == HidSpec => []HidInv
  <1>1. HidInit => HidIInv
    <2> SUFFICES ASSUME HidInit PROVE HidIInv
      OBVIOUS
    <2> USE HidAssumption DEF HidInit, InUse, Device, NoDevice
    <2>1. inflight \in [Device -> BOOLEAN] /\ token \in [Device -> BOOLEAN]
      BY Zenon
    <2>5. overtaken \in BOOLEAN /\ newEvent \in BOOLEAN
      BY Zenon
    <2>6. HidTypeOK
      <3>1. /\ context \in [Device -> {"free", "installed", "leaked"}]
            /\ busy \in [Device -> {"free", "request", "hid"}]
            /\ transfer \in [Device -> {"idle", "submitted", "returned", "none"}]
        OBVIOUS
      <3>2. hidLeft \in 0..UninstallTimeout
        OBVIOUS
      <3>3. /\ parent \in Device \cup {NoDevice}
            /\ reqPc \in {"idle", "lock", "fill", "submit", "wait", "copy"}
            /\ reqDevice \in Device \cup {NoDevice}
            /\ reqLeft \in Nat
            /\ hidPc \in {"sleep", "callbacks", "give", "events", "uninstall", "check", "free"}
            /\ hidDevice \in Device \cup {NoDevice}
            /\ goneEvent \in Device \cup {NoDevice}
            /\ bus \in {"empty", "present", "gone"}
        OBVIOUS
      <3>4. QED
        BY <2>1, <2>5, <3>1, <3>2, <3>3 DEF HidTypeOK
    <2>2. Pcs /\ Locks
      BY DEF Pcs, Locks
    <2>3. Removal /\ Timer
      BY DEF Removal, Timer
    <2>4. Owned /\ Tokens
      BY DEF Owned, Tokens
    <2>7. QED
      BY <2>6, <2>2, <2>3, <2>4 DEF HidIInv
  <1>2. HidIInv /\ [HidNext]_hidVars => HidIInv'
    BY TypeKept, PcsKept, LocksKept, RemovalKept, TimerKept, OwnedKept, TokensKept DEF HidIInv
  <1>3. HidIInv => HidInv
    BY DEF HidIInv, HidTypeOK, Pcs, Locks, Removal, Owned, Tokens, InUse, Device, NoDevice,
       HidInv, StackKeepsWhatItHas, LockedOutlives, OwnAnswer
  <1>4. QED
    BY <1>1, <1>2, <1>3, PTL DEF HidSpec

===============================================================================
