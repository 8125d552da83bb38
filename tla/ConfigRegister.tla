--------------------------- MODULE ConfigRegister --------------------------
(***************************************************************************)
(* What the configuration store promises: one register.  A save replaces   *)
(* its whole content in one step or not at all, whatever fails and whenever *)
(* the power goes; only decay of the flash itself takes something away, and *)
(* only a device still on the single-blob format can forfeit its content.  *)
(* A save that does not see what the register holds is the exception: it    *)
(* spoils the content place by place until it commits or ends.              *)
(***************************************************************************)
CONSTANTS
    Task,      \* who saves
    Config,    \* what can be saved
    Slot,      \* the network slots of a content
    Bad,       \* a slot whose content no longer reads back
    Nothing,   \* the content of an empty or unreadable register
    None       \* no save in progress

VARIABLES
    disk,      \* the register's content
    format,    \* "none", "legacy" or "v6": how it is kept
    pending,   \* the configuration each task is saving
    blind      \* the tasks that save without having seen the content
vars == <<disk, format, pending, blind>>

Init ==
    /\ \/ format = "none" /\ disk = Nothing
       \/ format = "legacy" /\ disk \in Config
    /\ pending = [t \in Task |-> None]
    /\ blind = {}

Ended(t) == [pending EXCEPT ![t] = None]

Begin(t) ==
    /\ pending[t] = None
    /\ pending'[t] \in Config
    /\ pending' = [pending EXCEPT ![t] = pending'[t]]
    /\ blind' = blind \/ (format = "v6" /\ blind' = blind \cup {t})
    /\ UNCHANGED <<disk, format>>

\* The content changes at once to all that was saved; the save may go on.
Commit(t) ==
    /\ pending[t] # None
    /\ disk' = pending[t]
    /\ format' = "v6"
    /\ pending' \in {pending, Ended(t)}
    /\ blind' = blind \ {t}

\* A place is lost or holds already what is being saved; the save goes on or ends.
Spoil(t) ==
    /\ t \in blind
    /\ \E i \in Slot : \E content \in {None, pending[t].nets[i]} :
           disk' = [disk EXCEPT !.nets[i] = content]
    /\ \/ UNCHANGED <<pending, blind>>
       \/ pending' = Ended(t) /\ blind' = blind \ {t}
    /\ UNCHANGED format

End(t) ==
    /\ pending[t] # None
    /\ pending' = Ended(t)
    /\ blind' = blind \ {t}
    /\ UNCHANGED <<disk, format>>

Forfeit ==
    /\ format = "legacy"
    /\ format' = "none"
    /\ disk' = Nothing
    /\ UNCHANGED <<pending, blind>>

Decay ==
    /\ pending = [t \in Task |-> None]
    /\ \/ disk' = Nothing
       \/ \E i \in Slot : disk' = [disk EXCEPT !.nets[i] = Bad]
    /\ UNCHANGED <<format, pending, blind>>

Crash ==
    /\ pending' = [t \in Task |-> None]
    /\ blind' = {}
    /\ UNCHANGED <<disk, format>>

Next ==
    \/ \E t \in Task : Begin(t) \/ Commit(t) \/ Spoil(t) \/ End(t)
    \/ Forfeit
    \/ Decay
    \/ Crash

Spec == Init /\ [][Next]_vars
=============================================================================
