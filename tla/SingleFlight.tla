---------------------------- MODULE SingleFlight ----------------------------
(***************************************************************************)
(* What sharing one computation between concurrent callers promises.  At   *)
(* most one computation per key is under way; whoever asks meanwhile waits  *)
(* for it; when it ends everyone who waits gets its one answer.  A          *)
(* computation is named after the caller that started it.                   *)
(***************************************************************************)
CONSTANTS
    Key,      \* what can be asked for
    Caller,   \* one name per call
    Answer,   \* what a call can return
    None

VARIABLES
    flight,   \* the computation under way for each key
    waits,    \* the computation each caller waits for
    answer    \* what each caller got
vars == <<flight, waits, answer>>

Init ==
    /\ flight = [k \in Key |-> None]
    /\ waits = [c \in Caller |-> None]
    /\ answer = [c \in Caller |-> None]

New(c) == waits[c] = None /\ answer[c] = None

Start(c, k) ==
    /\ New(c)
    /\ flight[k] = None
    /\ flight' = [flight EXCEPT ![k] = c]
    /\ waits' = [waits EXCEPT ![c] = c]
    /\ UNCHANGED answer

Join(c, k) ==
    /\ New(c)
    /\ flight[k] # None
    /\ waits' = [waits EXCEPT ![c] = flight[k]]
    /\ UNCHANGED <<flight, answer>>

\* A call that cannot be served at all starts nothing.
Decline(c) ==
    /\ New(c)
    /\ answer' \in {[answer EXCEPT ![c] = a] : a \in Answer}
    /\ UNCHANGED <<flight, waits>>

Waiting(f) == {c \in Caller : waits[c] = f}

Land(k) ==
    /\ flight[k] # None
    /\ flight' = [flight EXCEPT ![k] = None]
    /\ waits' = [c \in Caller |-> IF c \in Waiting(flight[k]) THEN None ELSE waits[c]]
    /\ \E a \in Answer :
          answer' = [c \in Caller |-> IF c \in Waiting(flight[k]) THEN a ELSE answer[c]]

\* The process dies: every computation and everyone who waits with it.
Crash ==
    /\ flight' = [k \in Key |-> None]
    /\ waits' = [c \in Caller |-> None]
    /\ \E a \in Answer :
          answer' \in [Caller -> Answer \cup {None}]
          /\ \A c \in Caller : answer'[c] \in {answer[c], a}

Next ==
    \/ \E c \in Caller, k \in Key : Start(c, k) \/ Join(c, k)
    \/ \E c \in Caller : Decline(c)
    \/ \E k \in Key : Land(k)
    \/ Crash

Spec == Init /\ [][Next]_vars
=============================================================================
