------------------------------ MODULE DriverVars ------------------------------
(***************************************************************************)
(* A driver-side variable written by SET VAR (ups.delay.*, outlet.*.desc): *)
(* saved in NVS (src/core/driver_var_store.cpp), cached in _saved_vars,    *)
(* applied to the driver of the UPS in use.  The loopTask plans, saves and *)
(* applies a value in three steps with _mutex released during the write    *)
(* to NVS; the poll task claims and loses the UPS in between, and the      *)
(* board may reset.                                                        *)
(***************************************************************************)
EXTENDS Naturals

CONSTANTS
    Value,     \* the values clients write
    Unset,     \* nothing saved: the driver default applies
    NoValue    \* no UPS claimed: nothing shown

ASSUME ValuesAssumption == Unset \notin Value /\ NoValue \notin Value /\ Unset # NoValue

VARIABLES
    saved,     \* the value under the NVS key "vars"
    cached,    \* its entry in _saved_vars
    readable,  \* observer: load() could read NVS at this start
    shown,     \* the value in UPSData, Unset standing for the driver default
    stage,     \* "idle", or where SET VAR or its reset is: "save", "apply"
    planned,   \* the value it writes, Unset for a reset
    promised   \* observer: what the last request answered to have set

valueVars == <<saved, cached, readable, shown, stage, planned, promised>>

ValuesTypeOK ==
    /\ saved \in Value \cup {Unset} /\ cached \in Value \cup {Unset}
    /\ readable \in BOOLEAN
    /\ shown \in Value \cup {Unset, NoValue}
    /\ stage \in {"idle", "save", "apply"}
    /\ planned \in Value \cup {Unset} /\ promised \in Value \cup {Unset}

ValuesInit ==
    /\ saved = Unset /\ cached = Unset /\ readable = TRUE
    /\ shown = NoValue
    /\ stage = "idle" /\ planned = Unset
    /\ promised = Unset

Claimed == shown # NoValue

------------------------------------------------------------------------------
\* claimInterface(): setup() of the new driver, then the saved values.
Claim ==
    /\ shown' = cached
    /\ UNCHANGED <<saved, cached, readable, stage, planned, promised>>

\* handleDisconnected().
Disconnect ==
    /\ Claimed
    /\ shown' = NoValue
    /\ UNCHANGED <<saved, cached, readable, stage, planned, promised>>

\* planSet(), or the lookup of resetDriverSideValue(), under _mutex.
Plan(value) ==
    /\ stage = "idle" /\ Claimed
    /\ stage' = "save"
    /\ planned' = value
    /\ UNCHANGED <<saved, cached, readable, shown, promised>>

\* save() or erase() of NVS, without _mutex.
SaveValue ==
    /\ stage = "save"
    /\ saved' = planned
    /\ stage' = "apply"
    /\ UNCHANGED <<cached, readable, shown, planned, promised>>

\* A value that is not saved changes nothing.
SaveFails ==
    /\ stage = "save"
    /\ stage' = "idle" /\ planned' = Unset
    /\ UNCHANGED <<saved, cached, readable, shown, promised>>

\* Mutant: only the driver in use learns the value.
ApplyValueUncached ==
    /\ stage = "apply"
    /\ shown' = IF Claimed THEN planned ELSE NoValue
    /\ stage' = "idle" /\ planned' = Unset
    /\ promised' = planned
    /\ UNCHANGED <<saved, cached, readable>>

\* Under _mutex again: the cache, and the driver when there is one.
ApplyValue ==
    /\ stage = "apply"
    /\ cached' = planned
    /\ shown' = IF Claimed THEN planned ELSE NoValue
    /\ stage' = "idle" /\ planned' = Unset
    /\ promised' = planned
    /\ UNCHANGED <<saved, readable>>

\* A reset of the board, in the middle of a request too, and setDriverVarStore().
ValuesRestart(read) ==
    /\ cached' = IF read THEN saved ELSE Unset
    /\ readable' = read
    /\ shown' = NoValue
    /\ stage' = "idle" /\ planned' = Unset
    /\ promised' = IF stage = "apply" THEN saved ELSE promised
    /\ UNCHANGED saved

------------------------------------------------------------------------------
\* What SET VAR (or its reset) answered to have set is in NVS and, through every
\* claim and reset, what LIST VAR shows of the UPS in use; a request that failed
\* changed nothing.  A start that cannot read NVS shows the driver defaults.
PromiseKept ==
    stage # "apply" =>
        /\ saved = promised
        /\ Claimed /\ readable => shown = promised

==============================================================================
