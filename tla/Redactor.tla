------------------------------ MODULE Redactor ------------------------------
(***************************************************************************)
(* The redaction of a command's output (internal/redactor): Apply on a     *)
(* whole output, and StreamingWriter, which sees it in pieces and holds    *)
(* back the bytes that may be the beginning of a secret, with and without  *)
(* regard to ANSI escapes.                                                 *)
(*                                                                         *)
(* Bytes are one-letter strings.  x, y and z stand for letters, % for the  *)
(* bytes that end no escape, e for ESC and b for BEL.  A marker is two     *)
(* bytes, so that one cut in the middle shows.                             *)
(***************************************************************************)
EXTENDS Naturals, Sequences, FiniteSets, SequencesExt

CONSTANTS
    Secrets,       \* the items, in the order the caller has them
    MinRedactLen,
    Alphabet,      \* bytes of an output, by mode
    MaxInput       \* bound: the length of an output, by mode

VARIABLES
    ansiAware,
    held, matched,   \* StreamingWriter
    emitted,            \* what reached dst
    written,            \* history: what was given to Write
    drained             \* Flush was called

redactorVars == <<ansiAware, held, matched, emitted, written, drained>>

Marker == <<"<", ">">>

-----------------------------------------------------------------------------
(* Needles *)

\* The encodings that write an escape for every byte (percent, HTML entity,
\* Unicode): a longer needle.
encodeEach(value) == FlattenSeq([i \in 1..Len(value) |-> <<"%", value[i]>>])

buildForms(item) ==
    [i \in 1..2 |-> [needle |-> IF i = 1 THEN item.value ELSE encodeEach(item.value),
                     item |-> item.name]]

Eligible(item) == item.confidential /\ Len(item.value) >= MinRedactLen

forms == FlattenSeq([i \in 1..Len(Secrets) |->
             IF Eligible(Secrets[i]) THEN buildForms(Secrets[i]) ELSE <<>>])

\* Mutant: the shortest needle counts.
lookbackSize_Raw == IF forms = <<>> THEN 0
                    ELSE (CHOOSE n \in {Len(forms[i].needle) : i \in DOMAIN forms} :
                              \A i \in DOMAIN forms : Len(forms[i].needle) >= n) - 1

\* All but one byte of the longest needle.
lookbackSize == IF forms = <<>> THEN 0
                ELSE (CHOOSE n \in {Len(forms[i].needle) : i \in DOMAIN forms} :
                          \A i \in DOMAIN forms : Len(forms[i].needle) <= n) - 1

-----------------------------------------------------------------------------
(* Occurrences *)

IsAt(s, needle, i) == /\ i + Len(needle) - 1 <= Len(s)
                      /\ SubSeq(s, i, i + Len(needle) - 1) = needle

\* The search goes on behind what it found.
Starts(s, needle) ==
    LET from[i \in Nat] ==
            IF i > Len(s) THEN {}
            ELSE IF IsAt(s, needle, i) THEN {i} \cup from[i + Len(needle)] ELSE from[i + 1]
    IN  from[1]

replaceSpans(s, needle) ==
    LET rest[i \in Nat] ==
            IF i > Len(s) THEN <<>>
            ELSE IF IsAt(s, needle, i) THEN Marker \o rest[i + Len(needle)] ELSE <<s[i]>> \o rest[i + 1]
    IN  rest[1]

\* One form after another, each on what the ones before left.
applyForms(s) == FoldLeft(LAMBDA out, f : replaceSpans(out, f.needle), s, forms)

formsIn(s) == {f \in DOMAIN forms : Starts(s, forms[f].needle) # {}}

\* On the whole output: longest values first, and only the forms present at the
\* start (detectPresentForms, which spares the search for the others).
Apply(s) ==
    LET sorted == SortSeq(Secrets, LAMBDA i, j : Len(i.value) > Len(j.value))
        all == FlattenSeq([i \in 1..Len(sorted) |->
                   IF Eligible(sorted[i]) THEN buildForms(sorted[i]) ELSE <<>>])
    IN  FoldLeft(LAMBDA out, f : replaceSpans(out, f.needle), s,
                 SelectSeq(all, LAMBDA f : Starts(s, f.needle) # {}))

\* The matches of all forms in visible, with the span [start, end) they take in
\* the bytes visible was taken from; by start, those of one start by form.
Matches(visible, at) ==
    LET starts == [f \in DOMAIN forms |-> Starts(visible, forms[f].needle)]
        from[i \in Nat, f \in Nat] ==
            CASE i > Len(visible) -> <<>>
              [] i <= Len(visible) /\ f > Len(forms) -> from[i + 1, 1]
              [] OTHER ->
                     IF i \in starts[f]
                     THEN <<[start |-> at[i], end |-> at[i + Len(forms[f].needle) - 1] + 1, form |-> f]>>
                          \o from[i, f + 1]
                     ELSE from[i, f + 1]
    IN  from[1, 1]

ItemsOf(fs) == {forms[f].item : f \in fs}

-----------------------------------------------------------------------------
(* ANSI escapes *)

EndsCSI(c) == c \notin {"%", "b", "e"}
TwoCharFinal(c) == c \in {"[", "]", "\\"}

First(s, i, P(_)) == IF \E j \in i..Len(s) : P(s[j])
                     THEN CHOOSE j \in i..Len(s) : P(s[j]) /\ \A k \in i..(j - 1) : ~P(s[k])
                     ELSE 0

\* Where the escape that begins at i ends, 0 when it is still in progress.
scanEscape(s, i) ==
    IF i + 1 > Len(s) THEN 0
    ELSE CASE s[i + 1] = "[" ->
                  LET j == First(s, i + 2, EndsCSI) IN IF j = 0 THEN 0 ELSE j + 1
           [] s[i + 1] = "]" ->
                  LET j == First(s, i + 2, LAMBDA c : c \in {"b", "e"}) IN
                  CASE j = 0 -> 0
                    [] j # 0 /\ s[j] = "b" -> j + 1
                    [] OTHER -> IF j + 1 <= Len(s) /\ s[j + 1] = "\\" THEN j + 2 ELSE 0
           [] OTHER -> IF TwoCharFinal(s[i + 1]) THEN i + 2 ELSE i + 1

\* indexMap: where the visible bytes are; inProgress: where the bytes begin
\* that no complete escape accounts for.
stripANSI(s) ==
    LET from[i \in Nat] ==
            IF i > Len(s) THEN [indexMap |-> <<>>, inProgress |-> Len(s) + 1]
            ELSE IF s[i] # "e"
                 THEN [from[i + 1] EXCEPT !.indexMap = <<i>> \o @]
                 ELSE IF scanEscape(s, i) = 0 THEN [indexMap |-> <<>>, inProgress |-> i]
                      ELSE from[scanEscape(s, i)]
    IN  from[1]

Visible(s, indexMap) == [i \in 1..Len(indexMap) |-> s[indexMap[i]]]
Identity(s) == [i \in 1..Len(s) |-> i]

\* The bytes s[1..safe] with the matches that end there replaced, skipping one
\* that overlaps the match before it.
Spliced(s, ms, safe) ==
    LET step(acc, m) == IF m.end - 1 > safe \/ m.start < acc.cursor THEN acc
                        ELSE [out |-> acc.out \o SubSeq(s, acc.cursor, m.start - 1) \o Marker,
                              cursor |-> m.end, used |-> acc.used \cup {m.form}]
        upTo == IF \E i \in DOMAIN ms : ms[i].end - 1 > safe
                THEN SubSeq(ms, 1, (CHOOSE i \in DOMAIN ms : ms[i].end - 1 > safe
                                         /\ \A j \in 1..(i - 1) : ms[j].end - 1 <= safe) - 1)
                ELSE ms
        acc == FoldLeft(step, [out |-> <<>>, cursor |-> 1, used |-> {}], upTo)
    IN  [out |-> acc.out \o SubSeq(s, acc.cursor, safe), used |-> acc.used]

applyFormsANSI(s) ==
    LET v == stripANSI(s)
    IN  Spliced(s, Matches(Visible(s, v.indexMap), v.indexMap), Len(s))

-----------------------------------------------------------------------------
(* StreamingWriter *)

\* How many bytes of p may be emitted, and how many bytes they are once
\* redacted: a match that reaches into what is kept back pulls the boundary in
\* front of itself.
Boundary(p) ==
    LET step(acc, m) ==
            CASE acc.stop \/ m.start < acc.cursor -> acc
              [] ~acc.stop /\ m.start > acc.safe  -> [acc EXCEPT !.stop = TRUE]
              [] m.start \in acc.cursor..acc.safe /\ m.end - 1 <= acc.safe ->
                     [acc EXCEPT !.len = @ + (m.start - acc.cursor) + Len(Marker), !.cursor = m.end]
              [] OTHER -> [acc EXCEPT !.safe = m.start - 1, !.stop = TRUE]
        acc == FoldLeft(step, [cursor |-> 1, len |-> 0, safe |-> Len(p) - lookbackSize, stop |-> FALSE],
                        Matches(p, Identity(p)))
    IN  [safe |-> acc.safe,
         len |-> IF acc.cursor <= acc.safe THEN acc.len + (acc.safe - acc.cursor + 1) ELSE acc.len]

flushSafe(p) ==
    LET b == Boundary(p)
        redacted == applyForms(p)
    IN  /\ emitted' = emitted \o SubSeq(redacted, 1, IF b.len < Len(redacted) THEN b.len ELSE Len(redacted))
        /\ held' = SubSeq(p, b.safe + 1, Len(p))
        /\ matched' = matched \cup ItemsOf(formsIn(p))

\* The boundary leaves lookbackSize visible bytes and every unfinished escape.
BoundaryANSI(p, v, ms) ==
    LET byVisible == v.indexMap[Len(v.indexMap) - lookbackSize + 1] - 1
        safe == IF byVisible < v.inProgress - 1 THEN byVisible ELSE v.inProgress - 1
        cut == {i \in DOMAIN ms : ms[i].start <= safe /\ ms[i].end - 1 > safe}
    IN  IF cut = {} THEN safe ELSE ms[CHOOSE i \in cut : \A j \in cut : i <= j].start - 1

flushSafeANSI(p) ==
    LET v == stripANSI(p)
        ms == Matches(Visible(p, v.indexMap), v.indexMap)
        safe == BoundaryANSI(p, v, ms)
        done == Spliced(p, ms, safe)
    IN  IF Len(v.indexMap) <= lookbackSize \/ safe <= 0
        THEN held' = p /\ UNCHANGED <<emitted, matched>>
        ELSE /\ emitted' = emitted \o done.out
             /\ held' = SubSeq(p, safe + 1, Len(p))
             /\ matched' = matched \cup ItemsOf(done.used)

WriteChunk(chunk) ==
    /\ ~drained /\ Len(written) + Len(chunk) <= MaxInput[ansiAware]
    /\ written' = written \o chunk
    /\ LET p == held \o chunk IN
       CASE lookbackSize = 0 -> emitted' = emitted \o chunk /\ UNCHANGED <<held, matched>>
         [] lookbackSize # 0 /\ Len(p) <= lookbackSize -> held' = p /\ UNCHANGED <<emitted, matched>>
         [] OTHER -> IF ansiAware THEN flushSafeANSI(p) ELSE flushSafe(p)
    /\ UNCHANGED <<ansiAware, drained>>

Flush ==
    /\ ~drained
    /\ drained' = TRUE
    /\ held' = <<>>
    /\ IF ansiAware
       THEN /\ emitted' = emitted \o applyFormsANSI(held).out
            /\ matched' = matched \cup ItemsOf(applyFormsANSI(held).used)
       ELSE /\ emitted' = emitted \o applyForms(held)
            /\ matched' = matched \cup ItemsOf(formsIn(held))
    /\ UNCHANGED <<ansiAware, written>>

-----------------------------------------------------------------------------
RedactorInit ==
    /\ ansiAware \in BOOLEAN
    /\ held = <<>> /\ matched = {} /\ emitted = <<>> /\ written = <<>> /\ drained = FALSE

RedactorNext ==
    \/ \E n \in 1..(MaxInput[ansiAware] - Len(written)) : \E chunk \in [1..n -> Alphabet[ansiAware]] : WriteChunk(chunk)
    \/ Flush

-----------------------------------------------------------------------------
(* Properties *)

Shown(s) == IF ansiAware THEN Visible(s, stripANSI(s).indexMap) ELSE s

Disjoint(s) ==
    LET all == {<<i, f>> \in (1..Len(s)) \X (1..Len(forms)) : IsAt(s, forms[f].needle, i)}
    IN  \A p, q \in all : p # q => \/ p[1] + Len(forms[p[2]].needle) <= q[1]
                                   \/ q[1] + Len(forms[q[2]].needle) <= p[1]

\* However the output is cut into writes, no form of a secret comes out whole:
\* not across a write, not around another secret it overlaps, and not with
\* escapes between its letters.  It does not hold of the writer that regards
\* escapes: there a match that is cut pulls the boundary into the match before
\* it, whose first bytes are then emitted.
NoSecretPasses ==
    \A f \in DOMAIN forms : Starts(Shown(emitted), forms[f].needle) = {}

\* The plain writer lets no secret through.  Where no two occurrences of secrets
\* overlap, both writers' pieces make exactly what redacting the whole output
\* makes, and their statistics name the same items.
StreamingRedacts ==
    /\ ~ansiAware => NoSecretPasses
    /\ drained /\ Disjoint(Shown(written)) =>
        /\ emitted = IF ansiAware THEN applyFormsANSI(written).out ELSE Apply(written)
        /\ matched = ItemsOf(formsIn(Shown(written)))
=============================================================================
