--------------------------- MODULE UpdateMailbox ---------------------------
(***************************************************************************)
(* What a session's update queue promises, without its two queues: for     *)
(* every kind of update it is a register that holds the newest value.      *)
(* Publishing overwrites a value nobody has taken; taking hands out the    *)
(* newest value, never one that was handed out before.                     *)
(***************************************************************************)
EXTENDS Integers

CONSTANT UpdateType

VARIABLES
    sent,    \* sent[t]: how many updates of type t were published
    handed   \* handed[t]: the number of the last one handed out

vars == <<sent, handed>>

Init ==
    /\ sent   = [t \in UpdateType |-> 0]
    /\ handed = [t \in UpdateType |-> 0]

\* Nobody is waiting: the value stays, replacing an older one of its type.
Publish(t) ==
    /\ sent' = [sent EXCEPT ![t] = @ + 1]
    /\ UNCHANGED handed

\* A request is waiting: the new value is handed out at once.
PublishAndHand(t) ==
    /\ sent' = [sent EXCEPT ![t] = @ + 1]
    /\ handed' = [handed EXCEPT ![t] = sent[t] + 1]

\* A request arrives and takes the value that waits for it.
Hand(t) ==
    /\ handed[t] # sent[t]
    /\ handed' = [handed EXCEPT ![t] = sent[t]]
    /\ UNCHANGED sent

Next == \E t \in UpdateType : Publish(t) \/ PublishAndHand(t) \/ Hand(t)

Spec == Init /\ [][Next]_vars
=============================================================================
