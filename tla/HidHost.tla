------------------------------- MODULE HidHost -------------------------------
(***************************************************************************)
(* The control pipe of the HID class driver (lib/usb_host_hid/hid_host.c)  *)
(* and the life of its device contexts: the requests of the firmware, one  *)
(* at a time, against the HID task, which delivers completions and removes *)
(* devices.  Both run at once, on two cores; a step is what one of them    *)
(* does between two looks at shared memory.  The USB stack is external: it *)
(* answers a transfer, or never does, and hands it back when the device    *)
(* goes.                                                                   *)
(***************************************************************************)
EXTENDS Ticks

CONSTANTS
    MaxDevices,        \* bound: contexts there is memory for
    Timeouts,          \* CTRL_REQUEST_TIMEOUT_MS, DEFAULT_TIMEOUT_MS
    LockTimeout,       \* DEFAULT_TIMEOUT_MS, of device_busy
    UninstallTimeout   \* DEFAULT_TIMEOUT_MS + 1000

ASSUME HidAssumption ==
    /\ MaxDevices \in Nat
    /\ Timeouts \subseteq Nat \ {0}
    /\ LockTimeout \in Nat \ {0}
    /\ UninstallTimeout \in Nat \ {0}
    /\ \A t \in Timeouts : t < UninstallTimeout

\* The contexts (hid_device_t), by their place in memory, and no context.
Device == 1..MaxDevices
NoDevice == 0

VARIABLES
    context,    \* "free" (not allocated), "installed", or "leaked": out of the list for ever
    busy,       \* device_busy: "free", or who holds it, "request" or "hid"
    inflight,   \* ctrl_inflight
    token,      \* ctrl_xfer_done has been given
    transfer,   \* ctrl_xfer: "idle", "submitted", "returned" (its callback to come), "none"
    parent      \* the context requests reach through the interface (iface->parent)

contextVars == <<context, busy, inflight, token, transfer, parent>>

VARIABLES
    reqPc,      \* the request: "idle", "lock", "fill", "submit", "wait", "copy"
    reqDevice,  \* its hid_device
    reqLeft,    \* ticks left of its wait
    overtaken   \* observer: it dropped the old token while the callback was about to give it

requestVars == <<reqPc, reqDevice, reqLeft, overtaken>>

VARIABLES
    hidPc,      \* the HID task: "sleep", "callbacks", "give", "events", "uninstall",
                \* "check", "free"
    hidDevice,  \* the context it works on
    hidLeft,    \* ticks left of its wait
    newEvent,   \* NEW_DEV in the queue of the client
    goneEvent,  \* the device of the DEV_GONE there
    bus         \* "empty", "present", or "gone": transfers handed back, DEV_GONE to come

taskVars == <<hidPc, hidDevice, hidLeft, newEvent, goneEvent, bus>>
hidVars == <<contextVars, requestVars, taskVars>>

HidTypeOK ==
    /\ context \in [Device -> {"free", "installed", "leaked"}]
    /\ busy \in [Device -> {"free", "request", "hid"}]
    /\ inflight \in [Device -> BOOLEAN] /\ token \in [Device -> BOOLEAN]
    /\ transfer \in [Device -> {"idle", "submitted", "returned", "none"}]
    /\ parent \in Device \cup {NoDevice}
    /\ reqPc \in {"idle", "lock", "fill", "submit", "wait", "copy"}
    /\ reqDevice \in Device \cup {NoDevice}
    /\ reqLeft \in Nat /\ overtaken \in BOOLEAN
    /\ hidPc \in {"sleep", "callbacks", "give", "events", "uninstall", "check", "free"}
    /\ hidDevice \in Device \cup {NoDevice} /\ hidLeft \in 0..UninstallTimeout
    /\ newEvent \in BOOLEAN /\ goneEvent \in Device \cup {NoDevice}
    /\ bus \in {"empty", "present", "gone"}

HidInit ==
    /\ context = [d \in Device |-> "free"]
    /\ busy = [d \in Device |-> "free"]
    /\ inflight = [d \in Device |-> FALSE] /\ token = [d \in Device |-> FALSE]
    /\ transfer = [d \in Device |-> "idle"]
    /\ parent = NoDevice
    /\ reqPc = "idle" /\ reqDevice = NoDevice /\ reqLeft = 0 /\ overtaken = FALSE
    /\ hidPc = "sleep" /\ hidDevice = NoDevice /\ hidLeft = 0
    /\ newEvent = FALSE /\ goneEvent = NoDevice
    /\ bus = "empty"

------------------------------------------------------------------------------
\* The request (hid_class_request_get(), ..._set(), usb_class_request_get_descriptor()),
\* under _op_mutex of USBHostUPS.
ReqReturns == reqPc' = "idle" /\ reqDevice' = NoDevice /\ reqLeft' = 0 /\ overtaken' = FALSE

Unlock(d) == busy' = [busy EXCEPT ![d] = "free"]

\* The handle is in the list, its parent and ctrl_xfer are not NULL.
ReqBegins ==
    /\ reqPc = "idle" /\ parent # NoDevice
    /\ transfer[parent] # "none"
    /\ reqPc' = "lock" /\ reqDevice' = parent /\ reqLeft' = LockTimeout
    /\ UNCHANGED <<overtaken, contextVars, taskVars>>

\* hid_device_lock_ctrl(): refused while the stack owns the transfer.
ReqLocks ==
    /\ reqPc = "lock"
    /\ context[reqDevice] # "free" /\ busy[reqDevice] = "free"
    /\ IF inflight[reqDevice]
       THEN ReqReturns /\ UNCHANGED busy
       ELSE /\ busy' = [busy EXCEPT ![reqDevice] = "request"]
            /\ reqPc' = "fill" /\ reqLeft' = 0
            /\ UNCHANGED <<reqDevice, overtaken>>
    /\ UNCHANGED <<context, inflight, token, transfer, parent, taskVars>>

ReqLockTimesOut ==
    /\ reqPc = "lock" /\ reqLeft = 0
    /\ ReqReturns
    /\ UNCHANGED <<contextVars, taskVars>>

\* The context was freed between the read of `parent` and the lock: its mutex is gone.
\* The call may return at any time, wait until its timeout, or find the context of the
\* next device at the same place.
ReqLockGone ==
    /\ reqPc = "lock" /\ context[reqDevice] = "free"
    /\ ReqReturns
    /\ UNCHANGED <<contextVars, taskVars>>

\* Mutant: the old token is not dropped.
OldTokenKept(d) == UNCHANGED token

\* xSemaphoreTake(ctrl_xfer_done, 0).
DropOldToken(d) == token' = [token EXCEPT ![d] = FALSE]

\* The setup packet is written, the old token dropped.
ReqFills ==
    /\ reqPc = "fill"
    /\ DropOldToken(reqDevice)
    /\ overtaken' = (hidPc = "give" /\ hidDevice = reqDevice)
    /\ reqPc' = "submit"
    /\ UNCHANGED <<reqDevice, reqLeft, context, busy, inflight, transfer, parent, taskVars>>

\* A descriptor that needs a larger buffer, which cannot be allocated.
ReqLosesBuffer ==
    /\ reqPc = "fill"
    /\ transfer' = [transfer EXCEPT ![reqDevice] = "none"]
    /\ Unlock(reqDevice) /\ ReqReturns
    /\ UNCHANGED <<context, inflight, token, parent, taskVars>>

ReqSubmits ==
    /\ reqPc = "submit" /\ bus = "present"
    /\ inflight' = [inflight EXCEPT ![reqDevice] = TRUE]
    /\ transfer' = [transfer EXCEPT ![reqDevice] = "submitted"]
    /\ reqPc' = "wait" /\ reqLeft' \in Timeouts
    /\ UNCHANGED <<reqDevice, overtaken, context, busy, token, parent, taskVars>>

\* usb_host_transfer_submit_control() fails: the device has gone, or any other error.
ReqNotSubmitted ==
    /\ reqPc = "submit"
    /\ inflight' = [inflight EXCEPT ![reqDevice] = FALSE]
    /\ Unlock(reqDevice) /\ ReqReturns
    /\ UNCHANGED <<context, token, transfer, parent, taskVars>>

ReqAnswered ==
    /\ reqPc = "wait" /\ token[reqDevice]
    /\ token' = [token EXCEPT ![reqDevice] = FALSE]
    /\ reqPc' = "copy" /\ reqLeft' = 0
    /\ UNCHANGED <<reqDevice, overtaken, context, busy, inflight, transfer, parent, taskVars>>

\* The transfer stays with the stack, and ctrl_inflight set.
ReqTimesOut ==
    /\ reqPc = "wait" /\ ~token[reqDevice] /\ reqLeft = 0
    /\ Unlock(reqDevice) /\ ReqReturns
    /\ UNCHANGED <<context, inflight, token, transfer, parent, taskVars>>

\* Status and data are read from the transfer.
ReqCopies ==
    /\ reqPc = "copy"
    /\ Unlock(reqDevice) /\ ReqReturns
    /\ UNCHANGED <<context, inflight, token, transfer, parent, taskVars>>

\* The poll task gives the interface up, or has handled its DISCONNECTED.
InterfaceDropped ==
    /\ reqPc = "idle" /\ parent # NoDevice
    /\ parent' = NoDevice
    /\ UNCHANGED <<context, busy, inflight, token, transfer, requestVars, taskVars>>

ReqWorks ==
    \/ ReqLocks \/ ReqLockTimesOut \/ ReqLockGone \/ ReqFills \/ ReqLosesBuffer
    \/ ReqSubmits \/ ReqNotSubmitted \/ ReqAnswered \/ ReqTimesOut \/ ReqCopies

------------------------------------------------------------------------------
\* The HID task: usb_host_client_handle_events() delivers the completions, then the
\* events (the order of the stack, docs/adr/0008:159).
Returned == {d \in Device : transfer[d] = "returned"}

HidWakes ==
    /\ hidPc = "sleep"
    /\ Returned # {} \/ newEvent \/ goneEvent # NoDevice
    /\ hidPc' = "callbacks"
    /\ UNCHANGED <<hidDevice, hidLeft, newEvent, goneEvent, bus, contextVars, requestVars>>

\* ctrl_xfer_done(), its first statement ...
HandsBack ==
    /\ hidPc = "callbacks"
    /\ \E d \in Returned :
         /\ transfer' = [transfer EXCEPT ![d] = "idle"]
         /\ inflight' = [inflight EXCEPT ![d] = FALSE]
         /\ hidDevice' = d
    /\ hidPc' = "give"
    /\ UNCHANGED <<hidLeft, newEvent, goneEvent, bus, context, busy, token, parent, requestVars>>

\* ... and its second.
GivesToken ==
    /\ hidPc = "give"
    /\ token' = [token EXCEPT ![hidDevice] = TRUE]
    /\ hidPc' = "callbacks" /\ hidDevice' = NoDevice
    /\ UNCHANGED <<hidLeft, newEvent, goneEvent, bus, context, busy, inflight, transfer, parent,
                   requestVars>>

CallbacksDone ==
    /\ hidPc = "callbacks" /\ Returned = {}
    /\ hidPc' = "events"
    /\ UNCHANGED <<hidDevice, hidLeft, newEvent, goneEvent, bus, contextVars, requestVars>>

EventsDone ==
    /\ hidPc = "events" /\ ~newEvent /\ goneEvent = NoDevice
    /\ hidPc' = "sleep"
    /\ UNCHANGED <<hidDevice, hidLeft, newEvent, goneEvent, bus, contextVars, requestVars>>

\* hid_host_device_init_attempt(): the device is installed and its interface shown to
\* the poll task, or something of it fails and is undone.
Allocated(d) ==
    /\ context[d] = "free"
    /\ context' = [context EXCEPT ![d] = "installed"]
    /\ busy' = [busy EXCEPT ![d] = "free"]
    /\ inflight' = [inflight EXCEPT ![d] = FALSE]
    /\ token' = [token EXCEPT ![d] = FALSE]
    /\ transfer' = [transfer EXCEPT ![d] = "idle"]

DeviceInstalled ==
    /\ hidPc = "events" /\ newEvent
    /\ newEvent' = FALSE
    /\ \/ UNCHANGED contextVars
       \/ bus = "present" /\ \E d \in Device : Allocated(d) /\ parent' = d
    /\ UNCHANGED <<hidPc, hidDevice, hidLeft, goneEvent, bus, requestVars>>

\* hid_host_device_disconnected(): the interface is closed, which tells the poll task, and
\* hid_host_uninstall_device() begins.
DeviceRemoved ==
    /\ hidPc = "events" /\ goneEvent # NoDevice
    /\ hidPc' = "uninstall" /\ hidDevice' = goneEvent /\ hidLeft' = UninstallTimeout
    /\ goneEvent' = NoDevice
    /\ UNCHANGED <<newEvent, bus, contextVars, requestVars>>

\* Mutant: the removal does not wait for a request.
WaitNever(d) == busy[d] # "free"

\* hid_device_try_lock() has waited in vain.
WaitedInVain(d) == busy[d] # "free" /\ hidLeft = 0

\* It waits for the request in progress; then no request begins on this device.
UninstallLocks ==
    /\ hidPc = "uninstall"
    /\ \/ busy[hidDevice] = "free" /\ busy' = [busy EXCEPT ![hidDevice] = "hid"]
       \/ WaitedInVain(hidDevice) /\ UNCHANGED busy
    /\ parent' = IF parent = hidDevice THEN NoDevice ELSE parent
    /\ hidPc' = "check" /\ hidLeft' = 0
    /\ UNCHANGED <<hidDevice, newEvent, goneEvent, bus, context, inflight, token, transfer,
                   requestVars>>

\* Mutant: the context is freed whoever has its transfer.
FreesAnyway(d) == FALSE

\* A transfer the stack has not handed back yet: the context is leaked.
MustLeak(d) == inflight[d]

\* Mutant: the removal is tried until the transfer is back.
TriedAgain(d) ==
    /\ hidPc' = "uninstall" /\ hidLeft' = UninstallTimeout
    /\ UNCHANGED <<context, hidDevice>>

Leaked(d) ==
    /\ context' = [context EXCEPT ![d] = "leaked"]
    /\ hidPc' = "events" /\ hidDevice' = NoDevice
    /\ UNCHANGED hidLeft

UninstallChecks ==
    /\ hidPc = "check"
    /\ IF MustLeak(hidDevice)
       THEN /\ Leaked(hidDevice)
            /\ busy' = [busy EXCEPT ![hidDevice] = IF @ = "hid" THEN "free" ELSE @]
       ELSE hidPc' = "free" /\ UNCHANGED <<context, busy, hidDevice, hidLeft>>
    /\ UNCHANGED <<newEvent, goneEvent, bus, inflight, token, transfer, parent, requestVars>>

\* The transfer, both semaphores and the context, and the device is closed.
UninstallFrees ==
    /\ hidPc = "free"
    /\ context' = [context EXCEPT ![hidDevice] = "free"]
    /\ hidPc' = "events" /\ hidDevice' = NoDevice
    /\ UNCHANGED <<hidLeft, newEvent, goneEvent, bus, busy, inflight, token, transfer, parent,
                   requestVars>>

HidWorks ==
    \/ HidWakes \/ HandsBack \/ GivesToken \/ CallbacksDone \/ EventsDone
    \/ DeviceInstalled \/ DeviceRemoved \/ UninstallLocks \/ UninstallChecks \/ UninstallFrees

------------------------------------------------------------------------------
\* Both tasks wait for something: what they do otherwise takes no time.
ReqBlocked ==
    \/ reqPc = "idle"
    \/ reqPc = "lock" /\ reqLeft > 0
       /\ (context[reqDevice] = "free" \/ busy[reqDevice] # "free")
    \/ reqPc = "wait" /\ reqLeft > 0 /\ ~token[reqDevice]

HidBlocked ==
    \/ hidPc = "sleep" /\ Returned = {} /\ ~newEvent /\ goneEvent = NoDevice
    \/ hidPc = "uninstall" /\ hidLeft > 0 /\ busy[hidDevice] # "free"

BothBlocked == ReqBlocked /\ HidBlocked

\* The USB stack and the device.  A device enumerates after the removal of the one before
\* and in a time in which the tasks get on.
Installed == {d \in Device : context[d] = "installed"}

Plugged ==
    /\ BothBlocked
    /\ bus = "empty" /\ ~newEvent /\ Installed = {}
    /\ bus' = "present" /\ newEvent' = TRUE
    /\ UNCHANGED <<hidPc, hidDevice, hidLeft, goneEvent, contextVars, requestVars>>

Answers ==
    /\ bus = "present"
    /\ \E d \in Installed :
         /\ transfer[d] = "submitted"
         /\ transfer' = [transfer EXCEPT ![d] = "returned"]
    /\ UNCHANGED <<context, busy, inflight, token, parent, requestVars, taskVars>>

\* The device goes: the stack hands its transfer back, and only then tells the client,
\* if the client has opened it.
Unplugged ==
    /\ bus = "present"
    /\ transfer' = [d \in Device |->
                      IF d \in Installed /\ transfer[d] = "submitted" THEN "returned"
                                                                      ELSE transfer[d]]
    /\ bus' = IF Installed = {} THEN "empty" ELSE "gone"
    /\ UNCHANGED <<hidPc, hidDevice, hidLeft, newEvent, goneEvent, context, busy, inflight,
                   token, parent, requestVars>>

GoneTold ==
    /\ bus = "gone"
    /\ bus' = "empty"
    /\ goneEvent' \in Installed
    /\ UNCHANGED <<hidPc, hidDevice, hidLeft, newEvent, contextVars, requestVars>>

HidElapse ==
    /\ BothBlocked
    /\ reqLeft > 0 \/ hidLeft > 0
    /\ reqLeft' = Sooner(reqLeft) /\ hidLeft' = Sooner(hidLeft)
    /\ UNCHANGED <<reqPc, reqDevice, overtaken, hidPc, hidDevice, newEvent, goneEvent, bus,
                   contextVars>>

HidNext ==
    \/ ReqBegins \/ ReqWorks \/ InterfaceDropped
    \/ HidWorks
    \/ Plugged \/ Answers \/ Unplugged \/ GoneTold
    \/ HidElapse

HidSpec == HidInit /\ [][HidNext]_hidVars

\* The tasks run, time passes and the stack tells of a device that went.  The removal gets
\* the mutex in the end: the poll task leaves it alone between two requests.
HidFairSpec ==
    /\ HidSpec
    /\ WF_hidVars(ReqWorks) /\ WF_hidVars(HidWorks) /\ WF_hidVars(GoneTold)
    /\ SF_hidVars(UninstallLocks) /\ SF_hidVars(HidElapse)

------------------------------------------------------------------------------
\* Whatever the stack still has of a context, a transfer or a callback to come, the
\* context is not freed, and no request writes to a transfer the stack has
\* (hid_host_uninstall_device(), docs/adr/0008: "leaks the device context rather than
\* freeing a URB that is still in flight").
StackKeepsWhatItHas ==
    /\ \A d \in Device : transfer[d] \in {"submitted", "returned"} => context[d] # "free"
    /\ hidPc = "give" => context[hidDevice] # "free"
    /\ reqPc = "fill" => transfer[reqDevice] = "idle"

\* A request that has the lock keeps its context: the removal waits long enough
\* ("wait for it to release the device before freeing anything").
LockedOutlives ==
    reqPc \in {"fill", "submit", "wait", "copy"} => context[reqDevice] # "free"

\* A request reads its own answer, whatever earlier ones left behind, unless it dropped
\* the old token in the moment between the two statements of ctrl_xfer_done().
OwnAnswer == reqPc = "copy" => transfer[reqDevice] # "submitted" \/ overtaken

\* What requests and HID task keep true of the contexts, however their steps interleave.
HidInv == HidTypeOK /\ StackKeepsWhatItHas /\ LockedOutlives /\ OwnAnswer

\* Neither waits for the other for good: the removal of a device waits for a request
\* whose answer only the HID task could deliver, and both come to an end.
BothReturn ==
    /\ (reqPc # "idle") ~> (reqPc = "idle")
    /\ \A d \in Device : (goneEvent = d) ~> (context[d] # "installed")

==============================================================================
