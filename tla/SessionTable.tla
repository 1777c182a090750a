----------------------------- MODULE SessionTable -----------------------------
(***************************************************************************)
(* The table of web sessions (lib/WebAuth/src/SessionTable.cpp): eight     *)
(* volatile slots in RAM and eight "remember me" slots in RAM that are     *)
(* written as one blob to NVS, where a write may fail.  A token stands for *)
(* its hash.  Every method runs in the loopTask, one at a time; a reset of *)
(* the board comes between any two of them.                                *)
(***************************************************************************)
EXTENDS Ticks, Sequences, FiniteSets

CONSTANTS
    Token,                  \* the tokens generateToken() may return
    NoToken,                \* the content of an unused slot
    MaxSessions,            \* kMaxSessions
    MaxPersistentSessions,  \* kMaxPersistentSessions
    IdleTimeout,            \* kIdleTimeoutMs, in ticks
    MaxSeq                  \* UINT32_MAX

ASSUME SessionsAssumption ==
    /\ NoToken \notin Token
    /\ MaxSessions \in Nat \ {0} /\ MaxPersistentSessions \in Nat \ {0}
    /\ IdleTimeout \in Nat \ {0}
    /\ MaxSeq \in Nat /\ MaxSeq > MaxPersistentSessions

VARIABLES
    slots,       \* slots_: token and time since last_seen_ms
    persistent,  \* persistent_: token and seq
    nextSeq,     \* next_seq_
    blob         \* the NVS key "sessions": the entries in slot order

tableVars == <<slots, persistent, nextSeq, blob>>

Slot == 1..MaxSessions
PSlot == 1..MaxPersistentSessions

FreeSlot == [token |-> NoToken, age |-> 0]
FreePersistent == [token |-> NoToken, seq |-> 0]

NoSlots == [i \in Slot |-> FreeSlot]
NoPersistent == [i \in PSlot |-> FreePersistent]

TableTypeOK ==
    /\ slots \in [Slot -> [token : Token \cup {NoToken}, age : 0..IdleTimeout]]
    /\ persistent \in [PSlot -> [token : Token \cup {NoToken}, seq : 0..MaxSeq]]
    /\ nextSeq \in 0..MaxSeq
    /\ blob \in Seq([token : Token, seq : 0..MaxSeq])
    /\ Len(blob) <= MaxPersistentSessions

------------------------------------------------------------------------------
\* Bound: no slot is left alone for 2^32 ms, when its age would start again.
IsExpired(slot) == slot.age >= IdleTimeout

\* The used slots of a table of "remember me" sessions.
Used(table) == {i \in PSlot : table[i].token # NoToken}
UsedPersistent == Used(persistent)

\* findSlot() != -1: expired volatile slots are found too.
Found(t) ==
    \/ \E i \in Slot : slots[i].token = t
    \/ \E i \in UsedPersistent : persistent[i].token = t

InVolatile(t) == \E i \in Slot : slots[i].token = t
InPersistent(t) == \E i \in UsedPersistent : persistent[i].token = t

\* What validate(t) answers.
Honoured(t) ==
    \/ \E i \in Slot : slots[i].token = t /\ ~IsExpired(slots[i])
    \/ InPersistent(t)

\* Random tokens do not repeat: a token is free once nothing holds it any more.
Fresh(t) ==
    /\ ~Found(t)
    /\ \A i \in DOMAIN blob : blob[i].token # t

\* A free slot, otherwise the one with the lowest seq.
PickPersistentSlot ==
    IF UsedPersistent # PSlot
    THEN CHOOSE i \in PSlot \ UsedPersistent : \A j \in PSlot \ UsedPersistent : i <= j
    ELSE CHOOSE i \in PSlot :
           \A j \in PSlot : \/ persistent[i].seq < persistent[j].seq
                            \/ persistent[i].seq = persistent[j].seq /\ i <= j

\* A free or expired slot, otherwise the last of those left alone the longest.
PickSlot ==
    LET open == {i \in Slot : slots[i].token = NoToken \/ IsExpired(slots[i])}
    IN  IF open # {}
        THEN CHOOSE i \in open : \A j \in open : i <= j
        ELSE CHOOSE i \in Slot :
               \A j \in Slot : \/ slots[i].age > slots[j].age
                               \/ slots[i].age = slots[j].age /\ i >= j

\* What saveSessions() writes of a table: the used slots, in order.
Nth(places, k) == CHOOSE i \in places : Cardinality({j \in places : j <= i}) = k

Entries(table) == [k \in 1..Cardinality(Used(table)) |-> table[Nth(Used(table), k)]]

Save(table, saved) == blob' = IF saved THEN Entries(table) ELSE blob

\* The place of entry i in the order of seq, the position deciding a tie.
Rank(entries, i) ==
    Cardinality({j \in DOMAIN entries :
                   \/ entries[j].seq < entries[i].seq
                   \/ entries[j].seq = entries[i].seq /\ j <= i})

\* Mutant: the new numbers follow the slots.
RenumberedBySlot(entries) == [i \in DOMAIN entries |-> [entries[i] EXCEPT !.seq = i]]

Renumbered(entries) == [i \in DOMAIN entries |-> [entries[i] EXCEPT !.seq = Rank(entries, i)]]

NeedsRenumbering(entries) ==
    \/ \E i \in DOMAIN entries : entries[i].seq = MaxSeq
    \/ \E i, j \in DOMAIN entries : i # j /\ entries[i].seq = entries[j].seq

HighestSeq(entries) ==
    IF entries = <<>> THEN 0
    ELSE CHOOSE s \in 0..MaxSeq :
           /\ \E i \in DOMAIN entries : entries[i].seq = s
           /\ \A i \in DOMAIN entries : entries[i].seq <= s

------------------------------------------------------------------------------
TableInit ==
    /\ slots = NoSlots
    /\ persistent = NoPersistent
    /\ nextSeq = 1
    /\ blob = <<>>

\* A reset and begin(): the blob is read or not, and saved again if renumbered.
Begin(loaded, saved) ==
    LET read  == IF loaded THEN blob ELSE <<>>
        table == IF NeedsRenumbering(read) THEN Renumbered(read) ELSE read
    IN  /\ slots' = NoSlots
        /\ persistent' = [i \in PSlot |-> IF i <= Len(table) THEN table[i] ELSE FreePersistent]
        /\ nextSeq' = HighestSeq(table) + 1
        /\ blob' = IF NeedsRenumbering(read) /\ saved THEN table ELSE blob

\* next_seq_++ wraps to 0 in the boot that hands out UINT32_MAX: bound, no boot
\* sees that many logins.
CreatePersistent(t, saved) ==
    /\ Fresh(t)
    /\ nextSeq # 0
    /\ persistent' = [persistent EXCEPT ![PickPersistentSlot] = [token |-> t, seq |-> nextSeq]]
    /\ nextSeq' = (nextSeq + 1) % (MaxSeq + 1)
    /\ Save(persistent', saved)
    /\ UNCHANGED slots

CreateVolatile(t) ==
    /\ Fresh(t)
    /\ slots' = [slots EXCEPT ![PickSlot] = [token |-> t, age |-> 0]]
    /\ UNCHANGED <<persistent, nextSeq, blob>>

Create(t, isPersistent, saved) ==
    IF isPersistent THEN CreatePersistent(t, saved) ELSE CreateVolatile(t)

\* An expired slot is freed; the clock of the others starts again.
Validate(t) ==
    /\ slots' = [i \in Slot |->
                   CASE slots[i].token # t -> slots[i]
                     [] slots[i].token = t /\ IsExpired(slots[i]) -> FreeSlot
                     [] OTHER -> [slots[i] EXCEPT !.age = 0]]
    /\ UNCHANGED <<persistent, nextSeq, blob>>

\* The slot is freed even when the blob cannot be written.
Remove(t, saved) ==
    \/ /\ InPersistent(t)
       /\ persistent' = [i \in PSlot |->
                           IF persistent[i].token = t THEN FreePersistent ELSE persistent[i]]
       /\ Save(persistent', saved)
       /\ UNCHANGED <<slots, nextSeq>>
    \/ /\ ~InPersistent(t)
       /\ slots' = [i \in Slot |-> IF slots[i].token = t THEN FreeSlot ELSE slots[i]]
       /\ UNCHANGED <<persistent, nextSeq, blob>>

\* NVS first: when it fails nothing changes.
Clear(saved) ==
    \/ /\ saved
       /\ blob' = <<>>
       /\ slots' = NoSlots
       /\ persistent' = NoPersistent
       /\ UNCHANGED nextSeq
    \/ ~saved /\ UNCHANGED tableVars

\* rotateExclusive(): one write before the RAM, and none when the session is
\* volatile and no slot is persistent.  needsWrite and saved give ok.
RotationWrites(t) == InPersistent(t) \/ UsedPersistent # {}
RotationOk(t, saved) == saved \/ (Found(t) /\ ~RotationWrites(t))

\* Mutant: the slots are cleared before the write.
RotateExclusiveHasty(t, n, saved) ==
    /\ Found(t) /\ Fresh(n)
    /\ slots' = NoSlots
    /\ persistent' = NoPersistent
    /\ blob' = IF saved THEN <<>> ELSE blob
    /\ UNCHANGED nextSeq

RotateExclusive(t, n, saved) ==
    \/ ~Found(t) /\ Clear(saved)
    \/ /\ Found(t)
       /\ RotationWrites(t) /\ ~saved
       /\ UNCHANGED tableVars
    \/ /\ InPersistent(t) /\ saved
       /\ Fresh(n)
       /\ nextSeq # 0
       /\ persistent' = [NoPersistent EXCEPT ![1] = [token |-> n, seq |-> nextSeq]]
       /\ slots' = NoSlots
       /\ nextSeq' = (nextSeq + 1) % (MaxSeq + 1)
       /\ blob' = <<[token |-> n, seq |-> nextSeq]>>
    \/ /\ Found(t) /\ ~InPersistent(t)
       /\ RotationWrites(t) => saved
       /\ Fresh(n)
       /\ slots' = [NoSlots EXCEPT ![1] = [token |-> n, age |-> 0]]
       /\ persistent' = NoPersistent
       /\ blob' = IF RotationWrites(t) THEN <<>> ELSE blob
       /\ UNCHANGED nextSeq

\* One tick of millis().
TableElapse ==
    /\ slots' = [i \in Slot |->
                   IF slots[i].token = NoToken THEN slots[i]
                   ELSE [slots[i] EXCEPT !.age = Older(@, IdleTimeout)]]
    /\ UNCHANGED <<persistent, nextSeq, blob>>

\* AuthService rotates a session it has just validated.
TableNext ==
    \/ \E t \in Token : \E isPersistent, saved \in BOOLEAN : Create(t, isPersistent, saved)
    \/ \E t \in Token : Validate(t)
    \/ \E t \in Token : \E saved \in BOOLEAN : Found(t) /\ Remove(t, saved)
    \/ \E saved \in BOOLEAN : Clear(saved)
    \/ \E t, n \in Token : \E saved \in BOOLEAN : Honoured(t) /\ RotateExclusive(t, n, saved)
    \/ \E loaded, saved \in BOOLEAN : Begin(loaded, saved)
    \/ TableElapse

TableSpec == TableInit /\ [][TableNext]_tableVars

------------------------------------------------------------------------------
\* The slots seen as OpenSessions: the persistent ones by seq, the volatile
\* ones that have not expired.
ByAge(entries) ==
    [members |-> {e.token : e \in entries},
     before  |-> {p \in Token \X Token : \E d, e \in entries :
                    d.token = p[1] /\ e.token = p[2] /\ d.seq < e.seq}]

Remembered == ByAge({persistent[i] : i \in UsedPersistent})
Kept == ByAge({blob[i] : i \in DOMAIN blob})
Visiting == {slots[i].token : i \in {j \in Slot : slots[j].token # NoToken /\ ~IsExpired(slots[j])}}

Sessions == INSTANCE OpenSessions WITH
    MaxRemembered <- MaxPersistentSessions,
    MaxVisiting   <- MaxSessions,
    remembered    <- Remembered,
    kept          <- Kept,
    visiting      <- Visiting

\* The table implements the promise: over every order of logins, logouts,
\* rotations, failed writes, unread blobs and resets, only the oldest
\* "remember me" session is ever replaced (renumbered or not), no closed or idle
\* session comes back in RAM, and a start brings back what was last written.
SlotsImplementSessions == Sessions!OpenSpec

==============================================================================
