----------------------------- MODULE JobOutput -----------------------------
(***************************************************************************)
(* One output stream of a job: jobWriter and jobOutputSince of             *)
(* runtime/jobs.go, and a client that polls with the offset of the last    *)
(* answer.                                                                 *)
(*                                                                         *)
(* A byte is its position in the stream and whether it is part of valid    *)
(* UTF-8.  A finished job is answered from its receipt, a JSON document:   *)
(* the encoder replaces each invalid byte by the three bytes of U+FFFD.    *)
(***************************************************************************)
EXTENDS Integers, FiniteSets, Sequences

CONSTANTS
    Limit,     \* jobOutputLimit
    MaxChunk,  \* longest write of the command
    MaxBytes,  \* bound on the stream
    Validity   \* the kinds of bytes the command writes, a set of BOOLEANs

ASSUME OutputAssumption ==
    /\ Limit \in Nat \ {0} /\ MaxChunk \in Nat \ {0} /\ MaxBytes \in Nat
    /\ Validity \subseteq BOOLEAN

VARIABLES
    output,  \* record.Stdout: the tail that is kept
    offset,  \* record.StdoutOffset: how many bytes were written
    jobState,   \* "running", "saved" or "interrupted"
    nextOffset,    \* the client: the offset it asks from
    got,     \* the client: the bytes it was given
    lost     \* the client: the bytes it was told are omitted

outputVars == <<output, offset, jobState, nextOffset, got, lost>>

Ending(s, n) == SubSeq(s, Len(s) - n + 1, Len(s))

-----------------------------------------------------------------------------
\* jobWriter.WriteOutput: the tail never exceeds Limit.
Appended(tail, p) ==
    LET keep == Limit - Len(p) IN
    IF Len(p) >= Limit THEN Ending(p, Limit)
    ELSE (IF Len(tail) > keep THEN Ending(tail, keep) ELSE tail) \o p

WriteOutput(k) ==
    /\ jobState = "running" /\ offset + k <= MaxBytes
    /\ \E valid \in [1..k -> Validity] :
           output' = Appended(output,
                        [i \in 1..k |-> [at |-> offset + i, ok |-> valid[i]]])
    /\ offset' = offset + k
    /\ UNCHANGED <<jobState, nextOffset, got, lost>>

\* jobOutputSince: the kept bytes after an offset, and how many are missing.
OutputSince(tail, end, from) ==
    LET start == end - Len(tail)
        after == IF from < 0 THEN 0 ELSE from
    IN  IF after >= end THEN [out |-> <<>>, omitted |-> 0]
        ELSE IF after < start THEN [out |-> tail, omitted |-> start - after]
        ELSE [out |-> SubSeq(tail, after - start + 1, Len(tail)), omitted |-> 0]

Poll_OwnCount ==
    LET r == OutputSince(output, offset, nextOffset) IN
    /\ got' = got \o r.out
    /\ lost' = lost + r.omitted
    /\ nextOffset' = nextOffset + Len(r.out)
    /\ UNCHANGED <<output, offset, jobState>>

Poll ==
    LET r == OutputSince(output, offset, nextOffset) IN
    /\ got' = got \o r.out
    /\ lost' = lost + r.omitted
    /\ nextOffset' = offset
    /\ UNCHANGED <<output, offset, jobState>>

-----------------------------------------------------------------------------
\* The receipt: json.Encoder when it is saved, json.Unmarshal when it is read.
\* Byte i of s becomes the bytes from StartsAt(s, i) to where i + 1 starts.
StartsAt(s, i) == i + 2 * Cardinality({j \in 1..(i - 1) : ~s[j].ok})

Encoded(s) ==
    [n \in 1..(StartsAt(s, Len(s) + 1) - 1) |->
        LET i == CHOOSE i \in 1..Len(s) : StartsAt(s, i) <= n /\ n < StartsAt(s, i + 1)
        IN  [s[i] EXCEPT !.ok = TRUE]]

SaveReceipt ==
    /\ jobState = "running"
    /\ jobState' = "saved"
    /\ output' = Encoded(output)
    /\ UNCHANGED <<offset, nextOffset, got, lost>>

\* The daemon crashes: the receipt of the start holds no output.
Interrupt ==
    /\ jobState = "running"
    /\ jobState' = "interrupted"
    /\ output' = <<>> /\ offset' = 0
    /\ UNCHANGED <<nextOffset, got, lost>>

-----------------------------------------------------------------------------
OutputInit ==
    /\ output = <<>> /\ offset = 0 /\ jobState = "running"
    /\ nextOffset = 0 /\ got = <<>> /\ lost = 0

OutputNext == \/ \E k \in 1..MaxChunk : WriteOutput(k)
        \/ Poll
        \/ SaveReceipt
        \/ Interrupt

OutputSpec == OutputInit /\ [][OutputNext]_outputVars

-----------------------------------------------------------------------------
(* Properties *)

\* A client that polls with the offset it was given gets every byte once and
\* in order, and is told of each byte it cannot get, also across the end of
\* the job, when the answers come from the receipt.
PolledExactly ==
    /\ \A i, j \in 1..Len(got) : i < j => got[i].at < got[j].at
    /\ jobState # "interrupted" => Len(got) + lost = nextOffset
=============================================================================
