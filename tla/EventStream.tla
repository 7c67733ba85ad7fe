---------------------------- MODULE EventStream ----------------------------
(***************************************************************************)
(* What /v1/events promises a client, whatever the buffers in between: the *)
(* events it asks for come one after the other, possibly more than once,   *)
(* and one is passed over only when the daemon no longer keeps it.         *)
(***************************************************************************)
EXTENDS Integers, Sequences

CONSTANTS Clients, Topics, Wants

VARIABLES
    said,   \* how many events this daemon has published: their ids are 1..said
    kept,   \* the names of the latest of them, which it still keeps
    pos     \* the last id each client was shown, Unknown: none of this daemon

streamVars == <<said, kept, pos>>

Unknown == -1
Dropped == said - Len(kept)

StreamInit == said = 0 /\ kept = <<>> /\ pos = [c \in Clients |-> Unknown]

Publish(t) ==
    /\ said' = said + 1
    /\ \E k \in 1..Len(kept) + 1 : kept' = SubSeq(Append(kept, t), k, Len(kept) + 1)
    /\ UNCHANGED pos

\* An event may be passed over when it is no longer kept, or not asked for.
MayMiss(c, i) == i <= Dropped \/ kept[i - Dropped] \notin Wants[c]

\* The next event a client wants, or one it was shown before.
Show(c, i) ==
    /\ pos[c] # Unknown => \A j \in pos[c] + 1 .. i - 1 : MayMiss(c, j)
    /\ pos' = [pos EXCEPT ![c] = i]
    /\ UNCHANGED <<said, kept>>

\* A new daemon numbers its events from 1 again.
Restart == said' = 0 /\ kept' = <<>> /\ pos' = [c \in Clients |-> Unknown]

StreamNext ==
    \/ \E t \in Topics : Publish(t)
    \/ \E c \in Clients : \E i \in 1..said : Show(c, i)
    \/ Restart

StreamSpec == StreamInit /\ [][StreamNext]_streamVars
=============================================================================
