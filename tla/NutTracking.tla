------------------------------ MODULE NutTracking ------------------------------
(***************************************************************************)
(* The outcomes kept for GET TRACKING (lib/NUTServer/src/NutTracking.h):   *)
(* a table of a few entries shared by all the clients, with ages in ticks  *)
(* of millis().                                                            *)
(***************************************************************************)
EXTENDS Ticks, FiniteSets

CONSTANTS
    Id,        \* the ids newId() may return
    NoId,      \* the id of an unused entry
    Capacity,  \* CAPACITY
    MaxAge     \* MAX_AGE_MS, in ticks

ASSUME TrackingAssumption == NoId \notin Id /\ Capacity \in Nat \ {0} /\ MaxAge \in Nat

VARIABLES
    entries,   \* _entries: id, status and age of a used entry, or Unused
    issued     \* observer: every id answered within MaxAge

trackingVars == <<entries, issued>>

Entry == 1..Capacity
Outcome == {"SUCCESS", "ERR FAILED"}
Tracked == [id : Id, status : Outcome, age : 0..MaxAge + 1]
Unused == [id |-> NoId, status |-> "ERR UNKNOWN", age |-> 0]

TrackingTypeOK ==
    /\ entries \in [Entry -> Tracked \cup {Unused}]
    /\ issued \subseteq Tracked

TrackingInit ==
    /\ entries = [e \in Entry |-> Unused]
    /\ issued = {}

------------------------------------------------------------------------------
UnusedEntries == {e \in Entry : entries[e].id = NoId}

\* Mutant: a full table gives away its youngest entry.
EntryForYoungest ==
    IF UnusedEntries # {}
    THEN CHOOSE e \in UnusedEntries : \A f \in UnusedEntries : e <= f
    ELSE CHOOSE e \in Entry :
           \A f \in Entry : \/ entries[e].age < entries[f].age
                            \/ entries[e].age = entries[f].age /\ e >= f

\* The first unused entry, otherwise the last one of the oldest.
EntryFor ==
    IF UnusedEntries # {}
    THEN CHOOSE e \in UnusedEntries : \A f \in UnusedEntries : e <= f
    ELSE CHOOSE e \in Entry :
           \A f \in Entry : \/ entries[e].age > entries[f].age
                            \/ entries[e].age = entries[f].age /\ e >= f

\* Bound: no more ids than Id within MaxAge; random ids do not repeat.
FreshId(id) ==
    /\ \A e \in Entry \ UnusedEntries : entries[e].id # id
    /\ \A r \in issued : r.id # id

Add(id, status) ==
    LET new == [id |-> id, status |-> status, age |-> 0]
    IN  /\ FreshId(id)
        /\ entries' = [entries EXCEPT ![EntryFor] = new]
        /\ issued' = issued \cup {new}

\* Entries past their age go.
Cleanup ==
    /\ entries' = [e \in Entry |->
                     IF entries[e].age > MaxAge THEN Unused ELSE entries[e]]
    /\ UNCHANGED issued

\* What GET TRACKING <id> answers.
Get(id) ==
    LET found == {e \in Entry \ UnusedEntries : entries[e].id = id /\ entries[e].age <= MaxAge}
    IN  IF found = {} THEN "ERR UNKNOWN" ELSE entries[CHOOSE e \in found : TRUE].status

\* One tick of millis().
TrackingElapse ==
    /\ entries' = [e \in Entry |->
                     IF e \in UnusedEntries THEN Unused
                     ELSE [entries[e] EXCEPT !.age = Older(@, MaxAge + 1)]]
    /\ issued' = {[r EXCEPT !.age = @ + 1] : r \in {s \in issued : s.age < MaxAge}}

------------------------------------------------------------------------------
\* An id answers its own outcome until it is MaxAge old or as many ids that are
\* not older were issued as the table holds: whoever polls GET TRACKING does not
\* lose the outcome of its command to those of other clients before that.
OutcomeKept ==
    \A r \in issued :
        Cardinality({s \in issued : s # r /\ s.age <= r.age}) < Capacity => Get(r.id) = r.status

==============================================================================
