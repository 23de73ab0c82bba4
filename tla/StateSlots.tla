----------------------------- MODULE StateSlots -----------------------------
(***************************************************************************)
(* What save states promise: a slot is empty or holds one moment of the    *)
(* PSP, a state is stored as the PSP is at that moment, and loading brings *)
(* exactly that moment back.  A slot may be emptied (the user deletes it,  *)
(* or the application is killed while it is being replaced).  Only a slot  *)
(* whose saving was disturbed, by a second one, by a failing write or by a *)
(* memory that was damaged before, may end up damaged or stale.  A load    *)
(* that fails damages the memory, until the next one that does not.        *)
(***************************************************************************)
CONSTANTS
    Path,     \* the slots
    Moment,   \* what the PSP's memory can be
    None,     \* an empty slot; not a moment
    Damaged   \* anything else

VARIABLES
    slots,    \* slots[p]: the moment that p holds
    moment,   \* where the PSP is
    torn      \* slots whose saving was disturbed

vars == <<slots, moment, torn>>

Init ==
    /\ slots \in [Path -> Moment \cup {None}]
    /\ moment \in Moment
    /\ torn = {}

\* The PSP goes on, or is started again.
Run ==
    /\ moment' \in Moment
    /\ UNCHANGED <<slots, torn>>

\* The saving of p is disturbed.
Tear(p) ==
    /\ torn' = torn \cup {p}
    /\ UNCHANGED <<slots, moment>>

Drop(p) ==
    /\ slots' = [slots EXCEPT ![p] = None]
    /\ UNCHANGED <<moment, torn>>

Store(p) ==
    /\ \/ moment # Damaged /\ slots' = [slots EXCEPT ![p] = moment]
       \/ /\ p \in torn
          /\ \E s \in Moment \cup {Damaged} : slots' = [slots EXCEPT ![p] = s]
    /\ UNCHANGED <<moment, torn>>

Restore(p) ==
    /\ slots[p] \in Moment /\ moment' = slots[p]
    /\ UNCHANGED <<slots, torn>>

\* A load of a disturbed state, or one that fails.
Damage ==
    /\ moment' = Damaged
    /\ UNCHANGED <<slots, torn>>

Next ==
    \/ Run \/ Damage
    \/ \E p \in Path : Tear(p) \/ Drop(p) \/ Store(p) \/ Restore(p)

Spec == Init /\ [][Next]_vars

=============================================================================
