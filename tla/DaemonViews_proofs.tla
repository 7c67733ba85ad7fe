------------------------ MODULE DaemonViews_proofs ------------------------
(***************************************************************************)
(* Proof that the event hub with its bounded channels and history keeps    *)
(* the promise of EventStream, and that the copies of a client that has    *)
(* read all of it are current, for any number of clients and handlers, any *)
(* Buffer and any MaxHistory; and that a client which polls the output of  *)
(* a job is given or told of every byte.                                   *)
(*                                                                         *)
(* The argument for the stream: what waits for a client is a run of        *)
(* consecutive events (the replayed ones) and another (its channel), and   *)
(* the second begins no later than right after the first.  What lies       *)
(* between the last event the client was shown and the first that waits is *)
(* dropped or not asked for.                                               *)
(*                                                                         *)
(* The argument for the copies: a copy that is behind is owed an event by  *)
(* an operation under way, or that event is ahead of the client (kept,     *)
(* waiting, or lost so that the ids will show it).  When nothing is under  *)
(* way the hub's last event is one that every client asks for, so nothing  *)
(* lost is ahead of a client that has read all of them.                    *)
(***************************************************************************)
EXTENDS DaemonViews, JobOutput, FiniteSetTheorems, SequenceTheorems, TLAPS

-----------------------------------------------------------------------------
(* The invariant *)

Events == [id: Nat, name: Topics]
StepRecords == [change: SUBSET Parts, publish: SUBSET (Topics \cup {"none"})]
Conns == [phase: {"off", "on", "subscribed", "live"}, sub: BOOLEAN,
          chan: Seq(Events), backlog: Seq(Events)]

\* How many events of a hub at id n are no longer in its history h.
Gone(n, h) == n - Len(h)

\* The history is the latest events, in the order of their ids.
Numbered(n, h) ==
    /\ n \in Nat /\ h \in Seq(Events) /\ Len(h) <= n
    /\ \A i \in 1..Len(h) : h[i].id = Gone(n, h) + i

\* e was published; if it is still kept, it is the same there.
Told(e, n, h) == /\ 1 <= e.id /\ e.id <= n
                 /\ e.id > Gone(n, h) => h[e.id - Gone(n, h)].name = e.name

\* Consecutive events.
Run(s, n, h) == /\ \A i \in 1..Len(s) : Told(s[i], n, h)
                /\ \A i \in 1..Len(s) : s[i].id = s[1].id + i - 1

\* More may come through the channel.
Watches(k) == k.sub \/ k.chan # <<>>

\* The event before the next one that the channel brings.
Front(k, n) == IF k.chan = <<>> THEN n ELSE k.chan[1].id - 1

ChannelOK(k, n, h) ==
    /\ Run(k.chan, n, h) /\ Run(k.backlog, n, h)
    /\ k.sub /\ k.chan # <<>> => k.chan[Len(k.chan)].id = n
    /\ k.phase # "live" => k.backlog = <<>>
    /\ k.phase \in {"off", "on"} => ~ k.sub /\ k.chan = <<>>
    /\ k.backlog # <<>> /\ Watches(k) => Front(k, n) <= k.backlog[Len(k.backlog)].id

\* Event j need not be shown to who wants w.
Missable(w, j, n, h) == j <= Gone(n, h) \/ h[j - Gone(n, h)].name \notin w

\* Nothing the client still has to be shown lies between l, which it was shown
\* last, and what waits for it on connection k.
NoGap(k, l, w, n, h) ==
    /\ 1 <= l /\ l <= n
    /\ k.phase = "live" /\ k.backlog # <<>> =>
           \A j \in Nat : l < j /\ j < k.backlog[1].id => Missable(w, j, n, h)
    /\ k.phase = "live" /\ k.backlog = <<>> /\ Watches(k) =>
           \A j \in Nat : l < j /\ j <= Front(k, n) => Missable(w, j, n, h)

StreamTypeOK ==
    /\ Numbered(nextID, history)
    /\ running \in [Handlers -> Seq(StepRecords)]
    /\ conn \in [Clients -> Conns]
    /\ last \in [Clients -> Nat] /\ known \in [Clients -> BOOLEAN]

SInv ==
    /\ StreamTypeOK
    /\ \A c \in Clients : ChannelOK(conn[c], nextID, history)
    /\ \A c \in Clients : known[c] => NoGap(conn[c], last[c], Wants[c], nextID, history)

-----------------------------------------------------------------------------
(* Runs of events *)

LEMMA SeqFacts ==
    ASSUME NEW S, NEW s \in Seq(S)
    PROVE  /\ Len(s) \in Nat /\ (s # <<>> <=> Len(s) >= 1)
           /\ \A i \in 1..Len(s) : s[i] \in S
<1>1. Len(s) \in Nat /\ (s # <<>> => Len(s) \in Nat \ {0}) /\ Len(<<>>) = 0
  BY LenProperties, EmptySeq
<1>2. \A i \in 1..Len(s) : s[i] \in S
  BY ElementOfSeq
<1> QED BY <1>1, <1>2

\* What is left of a run after its first event.
LEMMA RunTail ==
    ASSUME NEW n, NEW h, NEW s \in Seq(Events), s # <<>>, Run(s, n, h)
    PROVE  /\ Head(s) = s[1] /\ s[1] \in Events /\ Told(s[1], n, h)
           /\ Tail(s) \in Seq(Events) /\ Run(Tail(s), n, h)
           /\ Tail(s) # <<>> => /\ Tail(s)[1].id = s[1].id + 1
                                /\ Tail(s)[Len(Tail(s))] = s[Len(s)]
           /\ Tail(s) = <<>> => s[Len(s)] = s[1]
<1>1. /\ Len(s) \in Nat /\ Len(s) >= 1 /\ \A i \in 1..Len(s) : s[i] \in Events
  BY SeqFacts
<1>2. /\ Tail(s) \in Seq(Events) /\ Len(Tail(s)) = Len(s) - 1
      /\ \A i \in 1..Len(Tail(s)) : Tail(s)[i] = s[i + 1]
  BY HeadTailProperties
<1>3. Head(s) = s[1] /\ s[1] \in Events /\ Told(s[1], n, h)
  BY <1>1 DEF Run
<1>4. Tail(s) # <<>> <=> Len(Tail(s)) >= 1
  BY <1>2, SeqFacts
<1>5. s[1].id \in Nat
  BY <1>3 DEF Events
<1>6. \A i \in 1..Len(s) : s[i].id = s[1].id + i - 1
  BY DEF Run
<1>7. ASSUME NEW i \in 1..Len(Tail(s))
      PROVE  Tail(s)[i] = s[i + 1] /\ i + 1 \in 1..Len(s) /\ Tail(s)[i].id = s[1].id + i
  <2>1. Tail(s)[i] = s[i + 1] /\ i + 1 \in 1..Len(s) /\ i \in Nat
    BY <1>1, <1>2
  <2>2. s[i + 1].id = s[1].id + (i + 1) - 1
    BY <1>6, <2>1
  <2> QED BY <1>5, <2>1, <2>2
<1>8. ASSUME Tail(s) # <<>>
      PROVE  Tail(s)[1].id = s[1].id + 1 /\ Tail(s)[Len(Tail(s))] = s[Len(s)]
  <2>1. 1 \in 1..Len(Tail(s)) /\ Len(Tail(s)) \in 1..Len(Tail(s)) /\ Len(Tail(s)) + 1 = Len(s)
    BY <1>1, <1>2, <1>4, <1>8
  <2> QED BY <1>7, <2>1
<1>9. Run(Tail(s), n, h)
  <2>1. \A i \in 1..Len(Tail(s)) : Told(Tail(s)[i], n, h)
    BY <1>7 DEF Run
  <2>2. ASSUME NEW i \in 1..Len(Tail(s)) PROVE Tail(s)[i].id = Tail(s)[1].id + i - 1
    <3>1. Tail(s) # <<>>
      BY <1>1, <1>2, <1>4
    <3>2. Tail(s)[i].id = s[1].id + i /\ Tail(s)[1].id = s[1].id + 1 /\ i \in Nat
      BY <1>7, <1>8, <3>1
    <3> QED BY <1>5, <3>2, SMTT(30)
  <2> QED BY <2>1, <2>2 DEF Run
<1>10. Tail(s) = <<>> => s[Len(s)] = s[1]
  BY <1>1, <1>2, <1>4
<1> QED BY <1>2, <1>3, <1>8, <1>9, <1>10

\* publish keeps the end of the history.
LEMMA KeptEnd ==
    ASSUME NEW s \in Seq(Events), s # <<>>
    PROVE  \E m \in 1..Len(s) : Kept(s) = SubSeq(s, m, Len(s))
<1>1. Len(s) \in Nat /\ Len(s) >= 1
  BY SeqFacts
<1>2. CASE Len(s) > MaxHistory
  <2>1. Len(s) - MaxHistory + 1 \in 1..Len(s)
    BY <1>1, <1>2, ViewsAssumption
  <2> QED BY <1>2, <2>1 DEF Kept
<1>3. CASE ~ (Len(s) > MaxHistory)
  <2>1. Kept(s) = SubSeq(s, 1, Len(s))
    BY <1>3, SubSeqFull DEF Kept
  <2> QED BY <1>1, <2>1
<1> QED BY <1>2, <1>3

\* Between a hub at (n, h) and a later one the names of the events that are
\* still kept stay the same.
Later(n, h, n2, h2) ==
    /\ n2 = n + 1 /\ Gone(n, h) \in Nat /\ Gone(n2, h2) \in Nat
    /\ Gone(n, h) <= Gone(n2, h2) /\ Gone(n2, h2) <= n
    /\ \A j \in Nat : Gone(n2, h2) < j /\ j <= n =>
          h2[j - Gone(n2, h2)].name = h[j - Gone(n, h)].name

\* Event e of topic t turns (n, h) into (n + 1, h2).
Published(n, h, t, e, h2) == e = [id |-> n + 1, name |-> t] /\ h2 = Kept(Append(h, e))

LEMMA PublishFacts ==
    ASSUME NEW n, NEW h, Numbered(n, h), NEW t \in Topics, NEW e, NEW h2, Published(n, h, t, e, h2)
    PROVE  /\ Numbered(n + 1, h2) /\ Later(n, h, n + 1, h2) /\ e \in Events
           /\ Told(e, n + 1, h2)
           /\ \E m \in 1..Len(h) + 1 : h2 = SubSeq(Append(h, e), m, Len(h) + 1)
<1> DEFINE s == Append(h, e)
           n2 == n + 1
<1>0. n \in Nat /\ h \in Seq(Events) /\ Len(h) <= n /\ Len(h) \in Nat
  BY SeqFacts DEF Numbered
<1>1. e \in Events /\ e.id = n + 1 /\ e.name = t
  BY <1>0 DEF Events, Published
<1>2. /\ s \in Seq(Events) /\ s # <<>> /\ Len(s) = Len(h) + 1
      /\ \A i \in 1..Len(h) : s[i] = h[i]
      /\ s[Len(h) + 1] = e
  BY <1>0, <1>1, AppendProperties
<1> HIDE DEF s
<1>3. PICK m \in 1..Len(s) : Kept(s) = SubSeq(s, m, Len(s))
  BY <1>2, KeptEnd
<1>4. /\ h2 \in Seq(Events) /\ Len(h2) = Len(h) + 2 - m
      /\ \A i \in 1..Len(h2) : h2[i] = s[m + i - 1]
  <2>1. m \in Int /\ Len(s) \in Int /\ m <= Len(s) /\ 1 <= m
    BY <1>0, <1>2
  <2>2. \A i \in m..Len(s) : s[i] \in Events
    BY <1>2, <2>1, SeqFacts
  <2>3. /\ SubSeq(s, m, Len(s)) \in Seq(Events)
        /\ Len(SubSeq(s, m, Len(s))) = Len(s) - m + 1
        /\ \A i \in 1..(Len(s) - m + 1) : SubSeq(s, m, Len(s))[i] = s[m + i - 1]
    BY <2>1, <2>2, SubSeqProperties
  <2>4. h2 = SubSeq(s, m, Len(s))
    BY <1>3 DEF s, Published
  <2>5. Len(s) - m + 1 = Len(h) + 2 - m
    BY <1>0, <1>2, <2>1
  <2> QED BY <2>3, <2>4, <2>5
<1>5. m \in Nat /\ 1 <= m /\ m <= Len(h) + 1
  BY <1>0, <1>2
<1>6. /\ Gone(n, h) = n - Len(h) /\ Gone(n2, h2) = Gone(n, h) + m - 1
      /\ Gone(n, h) \in Nat /\ Gone(n2, h2) \in Nat
      /\ Gone(n, h) <= Gone(n2, h2) /\ Gone(n2, h2) <= n /\ Len(h2) <= n2 /\ n2 \in Nat
  BY <1>0, <1>4, <1>5 DEF Gone
<1>7. \A i \in 1..Len(h) + 1 : s[i].id = Gone(n, h) + i
  <2>1. \A i \in 1..Len(h) : s[i].id = Gone(n, h) + i
    BY <1>2 DEF Numbered
  <2>2. s[Len(h) + 1].id = Gone(n, h) + (Len(h) + 1)
    BY <1>0, <1>1, <1>2, <1>6
  <2> QED BY <1>0, <2>1, <2>2
<1>8. ASSUME NEW i \in 1..Len(h2) PROVE h2[i].id = Gone(n2, h2) + i
  <2>1. m + i - 1 \in 1..Len(h) + 1 /\ h2[i] = s[m + i - 1] /\ i \in Nat
    BY <1>0, <1>4, <1>5
  <2>2. h2[i].id = Gone(n, h) + (m + i - 1)
    BY <1>7, <2>1
  <2> QED BY <1>5, <1>6, <2>1, <2>2
<1>9. Numbered(n2, h2)
  BY <1>4, <1>6, <1>8 DEF Numbered
<1>10. ASSUME NEW j \in Nat, Gone(n2, h2) < j, j <= n
       PROVE  h2[j - Gone(n2, h2)].name = h[j - Gone(n, h)].name
  <2>1. /\ j - Gone(n2, h2) \in 1..Len(h2) /\ j - Gone(n, h) \in 1..Len(h)
        /\ m + (j - Gone(n2, h2)) - 1 = j - Gone(n, h)
    <3>1. Len(h2) = n2 - Gone(n2, h2) /\ Len(h) = n - Gone(n, h)
      BY <1>0, <1>4, <1>5 DEF Gone
    <3>2. Gone(n, h) < j /\ j <= n2
      BY <1>0, <1>6, <1>10
    <3> QED BY <1>0, <1>5, <1>6, <1>10, <3>1, <3>2, SMTT(30)
  <2>2. h2[j - Gone(n2, h2)] = s[m + (j - Gone(n2, h2)) - 1]
    BY <1>4, <2>1
  <2>3. h2[j - Gone(n2, h2)] = h[j - Gone(n, h)]
    BY <1>2, <2>1, <2>2
  <2> QED BY <2>3
<1>11. Told(e, n2, h2)
  <2>1. n2 - Gone(n2, h2) \in 1..Len(h2) /\ m + (n2 - Gone(n2, h2)) - 1 = Len(h) + 1
    BY <1>0, <1>4, <1>5, <1>6, SMTT(30)
  <2>2. h2[n2 - Gone(n2, h2)] = s[m + (n2 - Gone(n2, h2)) - 1]
    BY <1>4, <2>1
  <2>3. h2[n2 - Gone(n2, h2)] = e
    BY <1>2, <2>1, <2>2
  <2>4. e.id = n2 /\ 1 <= n2
    BY <1>0, <1>1
  <2> QED BY <1>6, <2>3, <2>4 DEF Told
<1>12. \E i \in 1..Len(h) + 1 : h2 = SubSeq(Append(h, e), i, Len(h) + 1)
  BY <1>2, <1>3 DEF s, Published
<1>13. Later(n, h, n2, h2)
  BY <1>6, <1>10 DEF Later
<1> QED BY <1>1, <1>9, <1>11, <1>12, <1>13

LEMMA ToldLater ==
    ASSUME NEW n \in Nat, NEW h, NEW n2, NEW h2, Later(n, h, n2, h2), NEW e \in Events, Told(e, n, h)
    PROVE  Told(e, n2, h2)
<1>1. e.id \in Nat /\ 1 <= e.id /\ e.id <= n
  BY DEF Told, Events
<1>2. n2 = n + 1 /\ Gone(n, h) \in Nat /\ Gone(n2, h2) \in Nat /\ Gone(n, h) <= Gone(n2, h2)
  BY DEF Later
<1>3. e.id <= n2
  BY <1>1, <1>2
<1>4. ASSUME e.id > Gone(n2, h2) PROVE h2[e.id - Gone(n2, h2)].name = e.name
  <2>1. h2[e.id - Gone(n2, h2)].name = h[e.id - Gone(n, h)].name
    BY <1>1, <1>4, <1>2 DEF Later
  <2>2. e.id > Gone(n, h)
    BY <1>1, <1>2, <1>4
  <2> QED BY <2>1, <2>2 DEF Told
<1> QED BY <1>1, <1>3, <1>4 DEF Told

LEMMA RunLater ==
    ASSUME NEW n \in Nat, NEW h, NEW n2, NEW h2, Later(n, h, n2, h2), NEW s \in Seq(Events),
           Run(s, n, h)
    PROVE  Run(s, n2, h2)
<1>1. \A i \in 1..Len(s) : s[i] \in Events
  BY SeqFacts
<1> QED BY <1>1, ToldLater DEF Run

LEMMA MissableLater ==
    ASSUME NEW n \in Nat, NEW h, NEW n2, NEW h2, Later(n, h, n2, h2), NEW w, NEW j \in Nat, j <= n,
           Missable(w, j, n, h)
    PROVE  Missable(w, j, n2, h2)
<1>1. Gone(n, h) \in Nat /\ Gone(n2, h2) \in Nat /\ Gone(n, h) <= Gone(n2, h2)
  BY DEF Later
<1>2. CASE j <= Gone(n2, h2)
  BY <1>2 DEF Missable
<1>3. CASE ~ (j <= Gone(n2, h2))
  <2>1. Gone(n2, h2) < j /\ ~ (j <= Gone(n, h))
    BY <1>1, <1>3
  <2>2. h2[j - Gone(n2, h2)].name = h[j - Gone(n, h)].name
    BY <2>1 DEF Later
  <2> QED BY <2>1, <2>2 DEF Missable
<1> QED BY <1>2, <1>3

-----------------------------------------------------------------------------
(* What the steps do to a connection *)

LEMMA ConnFacts ==
    ASSUME NEW k \in Conns, NEW n \in Nat, NEW h, ChannelOK(k, n, h)
    PROVE  /\ k.chan \in Seq(Events) /\ k.backlog \in Seq(Events)
           /\ k.chan # <<>> => k.chan[1] \in Events /\ k.chan[1].id \in Nat
                               /\ 1 <= k.chan[1].id /\ k.chan[1].id <= n
           /\ k.backlog # <<>> => k.backlog[1] \in Events /\ k.backlog[1].id \in Nat
                                  /\ 1 <= k.backlog[1].id /\ k.backlog[1].id <= n
           /\ Front(k, n) \in Nat /\ Front(k, n) <= n
<1>1. k.chan \in Seq(Events) /\ k.backlog \in Seq(Events)
  BY DEF Conns
<1>2. ASSUME NEW s \in Seq(Events), Run(s, n, h), s # <<>>
      PROVE  s[1] \in Events /\ s[1].id \in Nat /\ 1 <= s[1].id /\ s[1].id <= n
  <2>1. s[1] \in Events /\ Told(s[1], n, h)
    BY <1>2, RunTail
  <2> QED BY <2>1 DEF Told, Events
<1>3. /\ k.chan # <<>> => k.chan[1] \in Events /\ k.chan[1].id \in Nat
                               /\ 1 <= k.chan[1].id /\ k.chan[1].id <= n
      /\ k.backlog # <<>> => k.backlog[1] \in Events /\ k.backlog[1].id \in Nat
                                  /\ 1 <= k.backlog[1].id /\ k.backlog[1].id <= n
  BY <1>1, <1>2 DEF ChannelOK
<1>4. Front(k, n) \in Nat /\ Front(k, n) <= n
  BY <1>3 DEF Front
<1> QED BY <1>1, <1>3, <1>4

LEMMA AppendRun ==
    ASSUME NEW n \in Nat, NEW h, NEW s \in Seq(Events), Run(s, n, h), NEW e \in Events,
           Told(e, n, h), s # <<>> => s[Len(s)].id + 1 = e.id
    PROVE  /\ Append(s, e) \in Seq(Events) /\ Run(Append(s, e), n, h)
           /\ Append(s, e) # <<>> /\ Append(s, e)[Len(Append(s, e))] = e
           /\ Append(s, e)[1] = IF s = <<>> THEN e ELSE s[1]
<1> DEFINE a == Append(s, e)
<1>1. /\ a \in Seq(Events) /\ a # <<>> /\ Len(a) = Len(s) + 1
      /\ \A i \in 1..Len(s) : a[i] = s[i]
      /\ a[Len(s) + 1] = e
  BY AppendProperties
<1>2. Len(s) \in Nat /\ (s # <<>> <=> Len(s) >= 1) /\ \A i \in 1..Len(s) : s[i] \in Events
  BY SeqFacts
<1> HIDE DEF a
<1>3. a[1] = IF s = <<>> THEN e ELSE s[1]
  <2>1. CASE s = <<>>
    <3>1. Len(s) + 1 = 1
      BY <1>2, <2>1
    <3> QED BY <1>1, <2>1, <3>1
  <2>2. CASE s # <<>>
    <3>1. 1 \in 1..Len(s)
      BY <1>2, <2>2
    <3> QED BY <1>1, <2>2, <3>1
  <2> QED BY <2>1, <2>2
<1>4. \A i \in 1..Len(a) : Told(a[i], n, h)
  <2> SUFFICES ASSUME NEW i \in 1..Len(a) PROVE Told(a[i], n, h)
    OBVIOUS
  <2>1. i \in 1..Len(s) \/ i = Len(s) + 1
    BY <1>1, <1>2
  <2> QED BY <1>1, <2>1 DEF Run
<1>5. \A i \in 1..Len(a) : a[i].id = a[1].id + i - 1
  <2> SUFFICES ASSUME NEW i \in 1..Len(a) PROVE a[i].id = a[1].id + i - 1
    OBVIOUS
  <2>0. e.id \in Nat
    BY DEF Events
  <2>1. CASE s = <<>>
    <3>1. i = 1 /\ a[1] = e
      BY <1>1, <1>2, <1>3, <2>1
    <3> QED BY <2>0, <3>1
  <2>2. CASE s # <<>> /\ i \in 1..Len(s)
    BY <1>1, <1>3, <2>2 DEF Run
  <2>3. CASE s # <<>> /\ i = Len(s) + 1
    <3>1. s[Len(s)].id = s[1].id + Len(s) - 1 /\ s[1] \in Events
      BY <1>2, <2>3 DEF Run
    <3>2. s[1].id \in Nat
      BY <3>1 DEF Events
    <3>3. a[i] = e /\ a[1] = s[1] /\ s[Len(s)].id + 1 = e.id
      BY <1>1, <1>3, <2>3
    <3>4. a[i].id = e.id /\ a[1].id = s[1].id
      BY <3>3
    <3>5. e.id = s[1].id + Len(s)
      <4>1. (s[1].id + Len(s) - 1) + 1 = e.id
        BY <3>1, <3>3
      <4>2. Len(s) \in Nat
        BY <1>2
      <4>3. \A x, y, z \in Nat : (x + y - 1) + 1 = z => z = x + y
        OBVIOUS
      <4> QED BY <2>0, <3>2, <4>1, <4>2, <4>3, Zenon
    <3> QED BY <1>2, <2>3, <3>2, <3>4, <3>5
  <2> QED BY <1>1, <1>2, <2>1, <2>2, <2>3
<1>6. Run(a, n, h)
  BY <1>4, <1>5 DEF Run
<1>7. a[Len(a)] = e
  BY <1>1
<1> QED BY <1>1, <1>3, <1>6, <1>7 DEF a

\* An event is published: a subscriber is sent it, or is cut off.
LEMMA DeliverStep ==
    ASSUME NEW n, NEW h, Numbered(n, h), NEW t \in Topics, NEW e, NEW h2, Published(n, h, t, e, h2),
           NEW k \in Conns, ChannelOK(k, n, h)
    PROVE  /\ Delivered(k, e) \in Conns /\ ChannelOK(Delivered(k, e), n + 1, h2)
           /\ \A w : \A l \in Nat : NoGap(k, l, w, n, h) => NoGap(Delivered(k, e), l, w, n + 1, h2)
<1> DEFINE k2 == Delivered(k, e)
<1>0. n \in Nat /\ Numbered(n + 1, h2) /\ Later(n, h, n + 1, h2) /\ e \in Events /\ Told(e, n + 1, h2)
  BY PublishFacts DEF Numbered
<1>1. e.id = n + 1
  BY DEF Published
<1>2. /\ k.chan \in Seq(Events) /\ k.backlog \in Seq(Events)
      /\ k.chan # <<>> => k.chan[1].id \in Nat /\ k.chan[1].id <= n
      /\ k.backlog # <<>> => k.backlog[1].id \in Nat /\ k.backlog[1].id <= n
      /\ Front(k, n) \in Nat /\ Front(k, n) <= n
  BY <1>0, ConnFacts
<1>3. Run(k.chan, n + 1, h2) /\ Run(k.backlog, n + 1, h2)
  BY <1>0, <1>2, RunLater DEF ChannelOK
<1>4. /\ k2 \in Conns /\ k2.phase = k.phase /\ k2.backlog = k.backlog
      /\ Run(k2.chan, n + 1, h2)
      /\ k2.sub => k.sub
      /\ k2.sub /\ k2.chan # <<>> => k2.chan[Len(k2.chan)].id = n + 1
      /\ Watches(k2) => Watches(k) /\ Front(k2, n + 1) = Front(k, n)
      /\ k.phase \in {"off", "on"} => ~ k2.sub /\ k2.chan = <<>>
  <2>1. CASE ~ k.sub
    <3>1. k2 = k
      BY <2>1 DEF Delivered
    <3>2. k.chan # <<>> => Front(k, n + 1) = Front(k, n)
      BY DEF Front
    <3> QED BY <1>3, <2>1, <3>1, <3>2 DEF Watches, ChannelOK
  <2>2. CASE k.sub /\ Len(k.chan) < Buffer
    <3>1. k2 = [k EXCEPT !.chan = Append(k.chan, e)]
      BY <2>2 DEF Delivered
    <3>2. k.chan # <<>> => k.chan[Len(k.chan)].id + 1 = e.id
      BY <1>1, <2>2 DEF ChannelOK
    <3>3. n + 1 \in Nat
      BY <1>0
    <3>4. /\ Append(k.chan, e) \in Seq(Events) /\ Run(Append(k.chan, e), n + 1, h2)
          /\ Append(k.chan, e) # <<>> /\ Append(k.chan, e)[Len(Append(k.chan, e))] = e
          /\ Append(k.chan, e)[1] = IF k.chan = <<>> THEN e ELSE k.chan[1]
      BY <1>0, <1>2, <1>3, <3>2, <3>3, AppendRun
    <3>5. /\ k2 \in Conns /\ k2.phase = k.phase /\ k2.backlog = k.backlog /\ k2.sub = k.sub
          /\ k2.chan = Append(k.chan, e)
      BY <3>1, <3>4 DEF Conns
    <3> HIDE DEF k2
    <3>6. Front(k2, n + 1) = Front(k, n)
      BY <1>0, <1>1, <3>4, <3>5 DEF Front
    <3>7. k.phase \notin {"off", "on"}
      BY <2>2 DEF ChannelOK
    <3> QED BY <1>1, <2>2, <3>4, <3>5, <3>6, <3>7 DEF Watches
  <2>3. CASE k.sub /\ ~ (Len(k.chan) < Buffer)
    <3>1. k2 = [k EXCEPT !.sub = FALSE]
      BY <2>3 DEF Delivered
    <3>2. /\ k2 \in Conns /\ k2.phase = k.phase /\ k2.backlog = k.backlog /\ k2.sub = FALSE
          /\ k2.chan = k.chan
      BY <3>1 DEF Conns
    <3>3. k.chan # <<>>
      BY <1>2, <2>3, SeqFacts, ViewsAssumption
    <3>4. k.phase \notin {"off", "on"}
      BY <2>3 DEF ChannelOK
    <3> HIDE DEF k2
    <3> QED BY <1>3, <2>3, <3>2, <3>3, <3>4 DEF Watches, Front
  <2> QED BY <2>1, <2>2, <2>3
<1> HIDE DEF k2
<1>5. ChannelOK(k2, n + 1, h2)
  BY <1>3, <1>4 DEF ChannelOK
<1>6. ASSUME NEW l \in Nat, NEW w, NoGap(k, l, w, n, h) PROVE NoGap(k2, l, w, n + 1, h2)
  <2>1. 1 <= l /\ l <= n + 1
    BY <1>0, <1>6 DEF NoGap
  <2>2. ASSUME k.phase = "live", k.backlog # <<>>, NEW j \in Nat, l < j, j < k.backlog[1].id
        PROVE  Missable(w, j, n + 1, h2)
    <3>1. Missable(w, j, n, h)
      BY <1>6, <2>2 DEF NoGap
    <3>2. j <= n
      BY <1>0, <1>2, <2>2
    <3> QED BY <1>0, <3>1, <3>2, MissableLater
  <2>3. ASSUME k.phase = "live", k.backlog = <<>>, Watches(k), NEW j \in Nat, l < j, j <= Front(k, n)
        PROVE  Missable(w, j, n + 1, h2)
    <3>1. Missable(w, j, n, h)
      BY <1>6, <2>3 DEF NoGap
    <3>2. j <= n
      BY <1>0, <1>2, <2>3
    <3> QED BY <1>0, <3>1, <3>2, MissableLater
  <2> QED BY <1>4, <2>1, <2>2, <2>3 DEF NoGap
<1> QED BY <1>4, <1>5, <1>6 DEF k2

\* e is taken from the replayed events, or from the channel.
BacklogRead(k, e, k2) == e = Head(k.backlog) /\ k2 = [k EXCEPT !.backlog = Tail(@)]
ChannelRead(k, e, k2) == e = Head(k.chan) /\ k2 = [k EXCEPT !.chan = Tail(@)]

\* What holds of an event that is read: all before it that the client has not
\* been shown is missable, and the client can go on from it.
ReadOK(k, e, k2, n, h) ==
    /\ k2 \in Conns /\ ChannelOK(k2, n, h) /\ e \in Events /\ Told(e, n, h)
    /\ \A w : NoGap(k2, e.id, w, n, h)
    /\ \A w : \A l \in Nat : NoGap(k, l, w, n, h) =>
         /\ \A j \in Nat : l < j /\ j < e.id => Missable(w, j, n, h)
         /\ Missable(w, e.id, n, h) => NoGap(k2, l, w, n, h)

\* The client reads a replayed event.  If it has no use for it, event by event
\* nothing it wants is passed over; if it has, it goes on from there.
LEMMA ReadBacklogStep ==
    ASSUME NEW n \in Nat, NEW h, NEW k \in Conns, ChannelOK(k, n, h), k.phase = "live",
           k.backlog # <<>>, NEW k2, NEW e, BacklogRead(k, e, k2)
    PROVE  ReadOK(k, e, k2, n, h)
<1>1. /\ k.chan \in Seq(Events) /\ k.backlog \in Seq(Events)
      /\ Front(k, n) \in Nat /\ Front(k, n) <= n
  BY ConnFacts
<1>2. /\ e = k.backlog[1] /\ e \in Events /\ Told(e, n, h)
      /\ Tail(k.backlog) \in Seq(Events) /\ Run(Tail(k.backlog), n, h)
      /\ Tail(k.backlog) # <<>> => /\ Tail(k.backlog)[1].id = e.id + 1
                                   /\ Tail(k.backlog)[Len(Tail(k.backlog))] = k.backlog[Len(k.backlog)]
      /\ Tail(k.backlog) = <<>> => k.backlog[Len(k.backlog)] = e
  BY <1>1, RunTail, ZenonT(30) DEF ChannelOK, BacklogRead
<1>3. /\ k2 \in Conns /\ k2.phase = "live" /\ k2.sub = k.sub /\ k2.chan = k.chan
      /\ k2.backlog = Tail(k.backlog)
  BY <1>2 DEF Conns, BacklogRead
<1>4. e.id \in Nat /\ 1 <= e.id /\ e.id <= n
  BY <1>2 DEF Told, Events
<1>5. Front(k2, n) = Front(k, n) /\ (Watches(k2) <=> Watches(k))
  BY <1>3 DEF Front, Watches
<1>6. Watches(k) => Front(k, n) <= k.backlog[Len(k.backlog)].id
  BY DEF ChannelOK
<1>7. ChannelOK(k2, n, h)
  BY <1>2, <1>3, <1>5, <1>6 DEF ChannelOK
<1>8. ASSUME NEW w, NEW l \in Nat, 1 <= l, l <= n,
             \A j \in Nat : l < j /\ j <= e.id => Missable(w, j, n, h)
      PROVE  NoGap(k2, l, w, n, h)
  <2>1. ASSUME k2.backlog # <<>>, NEW j \in Nat, l < j, j < k2.backlog[1].id
        PROVE  Missable(w, j, n, h)
    <3>1. j < e.id + 1
      BY <1>2, <1>3, <2>1
    <3>2. j <= e.id
      BY <1>4, <3>1
    <3> QED BY <1>8, <2>1, <3>2
  <2>2. ASSUME k2.backlog = <<>>, Watches(k2), NEW j \in Nat, l < j, j <= Front(k2, n)
        PROVE  Missable(w, j, n, h)
    <3>1. Front(k, n) <= e.id
      BY <1>2, <1>3, <1>5, <1>6, <2>2
    <3>2. j <= e.id
      BY <1>1, <1>4, <1>5, <2>2, <3>1
    <3> QED BY <1>8, <2>2, <3>2
  <2> QED BY <1>8, <2>1, <2>2 DEF NoGap
<1>9. ASSUME NEW w PROVE NoGap(k2, e.id, w, n, h)
  <2>1. \A j \in Nat : ~ (e.id < j /\ j <= e.id)
    BY <1>4
  <2> QED BY <1>4, <1>8, <2>1
<1>10. ASSUME NEW l \in Nat, NEW w, NoGap(k, l, w, n, h)
       PROVE  /\ \A j \in Nat : l < j /\ j < e.id => Missable(w, j, n, h)
              /\ Missable(w, e.id, n, h) => NoGap(k2, l, w, n, h)
  <2>1. 1 <= l /\ l <= n /\ \A j \in Nat : l < j /\ j < e.id => Missable(w, j, n, h)
    BY <1>2, <1>10 DEF NoGap
  <2>2. ASSUME Missable(w, e.id, n, h), NEW j \in Nat, l < j, j <= e.id
        PROVE  Missable(w, j, n, h)
    <3>1. j < e.id \/ j = e.id
      BY <1>4, <2>2
    <3>2. CASE j < e.id
      BY <2>1, <2>2, <3>2
    <3>3. CASE j = e.id
      BY <2>2, <3>3
    <3> QED BY <3>1, <3>2, <3>3
  <2> QED BY <1>8, <2>1, <2>2
<1> QED BY <1>2, <1>3, <1>7, <1>9, <1>10 DEF ReadOK

\* The same for an event of the channel, when no replayed one is left.
LEMMA ReadChannelStep ==
    ASSUME NEW n \in Nat, NEW h, NEW k \in Conns, ChannelOK(k, n, h), k.phase = "live",
           k.backlog = <<>>, k.chan # <<>>, NEW k2, NEW e, ChannelRead(k, e, k2)
    PROVE  ReadOK(k, e, k2, n, h)
<1>1. k.chan \in Seq(Events) /\ k.backlog \in Seq(Events)
  BY ConnFacts
<1>2. /\ e = k.chan[1] /\ e \in Events /\ Told(e, n, h)
      /\ Tail(k.chan) \in Seq(Events) /\ Run(Tail(k.chan), n, h)
      /\ Tail(k.chan) # <<>> => /\ Tail(k.chan)[1].id = e.id + 1
                                /\ Tail(k.chan)[Len(Tail(k.chan))] = k.chan[Len(k.chan)]
      /\ Tail(k.chan) = <<>> => k.chan[Len(k.chan)] = e
  BY <1>1, RunTail, ZenonT(30) DEF ChannelOK, ChannelRead
<1>3. /\ k2 \in Conns /\ k2.phase = "live" /\ k2.sub = k.sub /\ k2.chan = Tail(k.chan)
      /\ k2.backlog = <<>>
  BY <1>2 DEF Conns, ChannelRead
<1>4. e.id \in Nat /\ 1 <= e.id /\ e.id <= n
  BY <1>2 DEF Told, Events
<1>5. k.sub => k.chan[Len(k.chan)].id = n
  BY DEF ChannelOK
<1>6. Run(k2.backlog, n, h)
  BY <1>3 DEF ChannelOK
<1>7. ChannelOK(k2, n, h)
  BY <1>2, <1>3, <1>5, <1>6 DEF ChannelOK
<1>8. Watches(k2) => Front(k2, n) = e.id
  <2>1. CASE Tail(k.chan) # <<>>
    <3>1. Front(k2, n) = Tail(k.chan)[1].id - 1
      BY <1>3, <2>1 DEF Front
    <3>2. Tail(k.chan)[1].id = e.id + 1
      BY <1>2, <2>1
    <3>3. \A a \in Nat : (a + 1) - 1 = a
      OBVIOUS
    <3> QED BY <1>4, <3>1, <3>2, <3>3, Zenon
  <2>2. CASE Tail(k.chan) = <<>>
    BY <1>2, <1>3, <1>5, <2>2 DEF Front, Watches
  <2> QED BY <2>1, <2>2
<1>9. ASSUME NEW w PROVE NoGap(k2, e.id, w, n, h)
  <2>1. \A j \in Nat : ~ (e.id < j /\ j <= e.id)
    BY <1>4
  <2> QED BY <1>3, <1>4, <1>8, <2>1 DEF NoGap
<1>10. ASSUME NEW l \in Nat, NEW w, NoGap(k, l, w, n, h)
       PROVE  /\ \A j \in Nat : l < j /\ j < e.id => Missable(w, j, n, h)
              /\ Missable(w, e.id, n, h) => NoGap(k2, l, w, n, h)
  <2>1. Front(k, n) = e.id - 1 /\ Watches(k)
    BY <1>2 DEF Front, Watches
  <2>2. 1 <= l /\ l <= n /\ \A j \in Nat : l < j /\ j <= Front(k, n) => Missable(w, j, n, h)
    BY <1>10, <2>1 DEF NoGap
  <2>3. ASSUME NEW j \in Nat, l < j, j < e.id PROVE Missable(w, j, n, h)
    <3>1. j <= e.id - 1
      BY <1>4, <2>3
    <3> QED BY <2>1, <2>2, <2>3, <3>1
  <2>4. ASSUME Missable(w, e.id, n, h), NEW j \in Nat, l < j, j <= e.id
        PROVE  Missable(w, j, n, h)
    <3>1. j < e.id \/ j = e.id
      BY <1>4, <2>4
    <3>2. CASE j < e.id
      BY <2>3, <2>4, <3>2
    <3>3. CASE j = e.id
      BY <2>4, <3>3
    <3> QED BY <3>1, <3>2, <3>3
  <2>5. Missable(w, e.id, n, h) => NoGap(k2, l, w, n, h)
    BY <1>3, <1>8, <2>2, <2>4 DEF NoGap
  <2> QED BY <2>3, <2>5
<1> QED BY <1>2, <1>3, <1>7, <1>9, <1>10 DEF ReadOK

\* The replay is the run of the kept events newer than l.
LEMMA ReplayFacts ==
    ASSUME Numbered(nextID, history), NEW l \in Nat, l # 0
    PROVE  /\ replaySince(l) \in Seq(Events) /\ Run(replaySince(l), nextID, history)
           /\ \A i \in 1..Len(replaySince(l)) : replaySince(l)[i].id > Gone(nextID, history)
           /\ replaySince(l) # <<>> =>
                /\ replaySince(l)[Len(replaySince(l))].id = nextID
                /\ \A j \in Nat : l < j /\ j < replaySince(l)[1].id => j <= Gone(nextID, history)
           /\ replaySince(l) = <<>> =>
                \A j \in Nat : l < j /\ j <= nextID => j <= Gone(nextID, history)
<1> DEFINE m == Len(history)
           g == Gone(nextID, history)
           f == FirstNewer(l)
           r == SubSeq(history, f, m)
<1>0. replaySince(l) = r
  BY DEF replaySince
<1>1. /\ nextID \in Nat /\ history \in Seq(Events) /\ m \in Nat /\ m <= nextID
      /\ g = nextID - m /\ g \in Nat
      /\ \A i \in 1..m : history[i].id = g + i /\ history[i] \in Events
  <2>1. /\ nextID \in Nat /\ history \in Seq(Events) /\ m <= nextID
        /\ \A i \in 1..m : history[i].id = g + i
    BY DEF Numbered
  <2>2. m \in Nat /\ \A i \in 1..m : history[i] \in Events
    BY <2>1, SeqFacts
  <2> QED BY <2>1, <2>2 DEF Gone
<1> HIDE DEF m, g
<1>2. f \in 1..m + 1 /\ \A i \in 1..m : history[i].id > l <=> i >= f
  <2>1. \E x \in 1..m + 1 : \A i \in 1..m : history[i].id > l <=> i >= x
    <3>1. \E x \in 1..m + 1 : \A i \in 1..m : g + i > l <=> i >= x
      <4>1. CASE l < g
        <5>1. 1 \in 1..m + 1 /\ \A i \in 1..m : g + i > l <=> i >= 1
          BY <1>1, <4>1
        <5> QED BY <5>1
      <4>2. CASE g <= l /\ l <= g + m
        <5>1. l - g + 1 \in 1..m + 1 /\ \A i \in 1..m : g + i > l <=> i >= l - g + 1
          BY <1>1, <4>2
        <5> QED BY <5>1
      <4>3. CASE g + m < l
        <5>1. m + 1 \in 1..m + 1 /\ \A i \in 1..m : g + i > l <=> i >= m + 1
          BY <1>1, <4>3
        <5> QED BY <5>1
      <4> QED BY <1>1, <4>1, <4>2, <4>3
    <3>2. PICK x \in 1..m + 1 : \A i \in 1..m : g + i > l <=> i >= x
      BY <3>1
    <3>3. \A i \in 1..m : history[i].id > l <=> i >= x
      BY <1>1, <3>2
    <3> QED BY <3>3
  <2>2. f = CHOOSE x \in 1..m + 1 : \A i \in 1..m : history[i].id > l <=> i >= x
    BY DEF FirstNewer, m
  <2> QED BY <2>1, <2>2
<1> HIDE DEF f
<1>3. f \in Nat /\ 1 <= f /\ f <= m + 1
  BY <1>1, <1>2
<1>4. /\ r \in Seq(Events) /\ Len(r) = m + 1 - f
      /\ \A i \in 1..Len(r) : r[i] = history[f + i - 1]
  <2>1. f \in Int /\ m \in Int /\ \A i \in f..m : history[i] \in Events
    BY <1>1, <1>3
  <2>2. /\ r \in Seq(Events) /\ Len(r) = IF f <= m THEN m - f + 1 ELSE 0
        /\ \A i \in 1..(m - f + 1) : r[i] = history[f + i - 1]
    BY <2>1, SubSeqProperties
  <2>3. Len(r) = m + 1 - f /\ m - f + 1 = m + 1 - f
    BY <1>1, <1>3, <2>2
  <2> QED BY <2>2, <2>3
<1> HIDE DEF r
<1>5. ASSUME NEW i \in 1..Len(r)
      PROVE  /\ i \in Nat /\ f + i - 1 \in 1..m /\ r[i] = history[f + i - 1]
             /\ r[i].id = g + (f + i - 1) /\ Told(r[i], nextID, history)
  <2>1. i \in Nat /\ f + i - 1 \in 1..m /\ r[i] = history[f + i - 1]
    BY <1>1, <1>3, <1>4
  <2>2. r[i].id = g + (f + i - 1)
    BY <1>1, <2>1
  <2>3. r[i].id - g = f + i - 1 /\ 1 <= r[i].id /\ r[i].id <= nextID
    BY <1>1, <1>3, <2>1, <2>2
  <2>4. Told(r[i], nextID, history)
    BY <2>1, <2>3 DEF Told, g
  <2> QED BY <2>1, <2>2, <2>4
<1>6. r # <<>> <=> Len(r) >= 1
  BY <1>4, SeqFacts
<1>7. Run(r, nextID, history)
  <2>1. ASSUME NEW i \in 1..Len(r) PROVE r[i].id = r[1].id + i - 1
    <3>1. 1 \in 1..Len(r)
      BY <1>1, <1>3, <1>4
    <3>2. r[1].id = g + (f + 1 - 1) /\ r[i].id = g + (f + i - 1) /\ i \in Nat
      BY <1>5, <3>1
    <3> QED BY <1>1, <1>3, <3>2
  <2> QED BY <1>5, <2>1 DEF Run
<1>8. ASSUME NEW j \in Nat, l < j, g < j, j <= nextID PROVE f <= j - g
  <2>1. j - g \in 1..m /\ g + (j - g) = j
    BY <1>1, <1>8
  <2>2. history[j - g].id = j
    BY <1>1, <2>1
  <2>3. j - g >= f
    BY <1>2, <1>8, <2>1, <2>2
  <2> QED BY <1>1, <1>3, <2>1, <2>3
<1>9. ASSUME r # <<>>
      PROVE  /\ r[Len(r)].id = nextID
             /\ \A j \in Nat : l < j /\ j < r[1].id => j <= g
  <2>1. 1 \in 1..Len(r) /\ Len(r) \in 1..Len(r)
    BY <1>1, <1>3, <1>4, <1>6, <1>9
  <2>2. r[Len(r)].id = g + (f + Len(r) - 1) /\ r[1].id = g + (f + 1 - 1)
    BY <1>5, <2>1
  <2>3. r[Len(r)].id = nextID /\ r[1].id = g + f /\ f <= m
    BY <1>1, <1>3, <1>4, <1>6, <1>9, <2>2
  <2>4. ASSUME NEW j \in Nat, l < j, j < r[1].id PROVE j <= g
    <3>1. j < g + f /\ j <= nextID
      BY <1>1, <1>3, <2>3, <2>4
    <3>2. g < j => f <= j - g
      BY <1>8, <2>4, <3>1
    <3> QED BY <1>1, <1>3, <3>1, <3>2
  <2> QED BY <2>3, <2>4
<1>10. ASSUME r = <<>>, NEW j \in Nat, l < j, j <= nextID PROVE j <= g
  <2>1. f = m + 1
    BY <1>1, <1>3, <1>4, <1>6, <1>10
  <2>2. g < j => f <= j - g
    BY <1>8, <1>10
  <2> QED BY <1>1, <1>10, <2>1, <2>2
<1>11. ASSUME NEW i \in 1..Len(r) PROVE r[i].id > g
  <2>1. f + i - 1 \in 1..m /\ r[i].id = g + (f + i - 1)
    BY <1>5
  <2> QED BY <1>1, <2>1
<1> QED BY <1>0, <1>4, <1>7, <1>9, <1>10, <1>11 DEF g

LEMMA ReplayStep ==
    ASSUME Numbered(nextID, history), NEW k \in Conns, ChannelOK(k, nextID, history),
           k.phase = "subscribed", NEW l \in Nat,
           NEW k2, k2 = [k EXCEPT !.phase = "live", !.backlog = replaySince(l)]
    PROVE  /\ k2 \in Conns /\ ChannelOK(k2, nextID, history)
           /\ \A w : NoGap(k, l, w, nextID, history) => NoGap(k2, l, w, nextID, history)
<1> DEFINE r == replaySince(l)
<1>1. nextID \in Nat /\ Front(k, nextID) \in Nat /\ Front(k, nextID) <= nextID
  BY ConnFacts DEF Numbered
<1>2. r \in Seq(Events) /\ Run(r, nextID, history) /\ (r # <<>> => r[Len(r)].id = nextID)
  <2>1. CASE l = 0
    <3>1. r = <<>>
      BY <2>1 DEF replaySince
    <3> QED BY <3>1, EmptySeq DEF Run
  <2>2. CASE l # 0
    BY <2>2, ReplayFacts
  <2> QED BY <2>1, <2>2
<1> HIDE DEF r
<1>3. /\ k2 \in Conns /\ k2.phase = "live" /\ k2.sub = k.sub /\ k2.chan = k.chan /\ k2.backlog = r
  BY <1>2 DEF Conns, r
<1>4. Front(k2, nextID) = Front(k, nextID)
  BY <1>3 DEF Front
<1>5. ChannelOK(k2, nextID, history)
  BY <1>1, <1>2, <1>3, <1>4 DEF ChannelOK
<1>6. ASSUME NEW w, NoGap(k, l, w, nextID, history)
      PROVE  NoGap(k2, l, w, nextID, history)
  <2>1. 1 <= l /\ l <= nextID /\ l # 0
    BY <1>6 DEF NoGap
  <2>2. /\ r # <<>> => \A j \in Nat : l < j /\ j < r[1].id => j <= Gone(nextID, history)
        /\ r = <<>> => \A j \in Nat : l < j /\ j <= nextID => j <= Gone(nextID, history)
    BY <2>1, ReplayFacts DEF r
  <2>3. ASSUME k2.backlog # <<>>, NEW j \in Nat, l < j, j < k2.backlog[1].id
        PROVE  Missable(w, j, nextID, history)
    BY <1>3, <2>2, <2>3 DEF Missable
  <2>4. ASSUME k2.backlog = <<>>, NEW j \in Nat, l < j, j <= Front(k2, nextID)
        PROVE  Missable(w, j, nextID, history)
    <3>1. j <= nextID
      BY <1>1, <1>4, <2>4
    <3> QED BY <1>3, <2>2, <2>4, <3>1 DEF Missable
  <2> QED BY <2>1, <2>3, <2>4 DEF NoGap
<1> QED BY <1>3, <1>5, <1>6

-----------------------------------------------------------------------------
(* The invariant *)

\* The operations are sequences of steps that publish topics.
LEMMA RoutesTyped == \A r \in Routes \cup Rivals : r.steps \in Seq(StepRecords)
<1>1. \A ps \in SUBSET Parts : Change(ps) \in Seq(StepRecords)
  BY DEF Change, StepRecords
<1>2. \A t \in Topics : Say(t) \in Seq(StepRecords)
  BY DEF Say, StepRecords
<1>3. Audit \in Seq(StepRecords)
  BY DEF Audit, StepRecords, Topics
<1>4. Leases \in Seq(StepRecords) /\ Dashboard \in Seq(StepRecords)
  <2>1. Say("leases.changed") \in Seq(StepRecords) /\ Say("access.changed") \in Seq(StepRecords)
        /\ Say("dashboard.changed") \in Seq(StepRecords)
    BY <1>2 DEF Topics
  <2> QED BY <2>1, ConcatProperties DEF Leases, Dashboard
<1>5. \A s1, s2 \in Seq(StepRecords) : s1 \o s2 \in Seq(StepRecords)
  BY ConcatProperties
<1>6. <<>> \in Seq(StepRecords)
  BY EmptySeq
<1>7. /\ Change({"vault", "leases"}) \in Seq(StepRecords)
      /\ Change({"vault", "internal"}) \in Seq(StepRecords)
      /\ Change(SessionParts) \in Seq(StepRecords)
      /\ Change({"approvals", "leases"}) \in Seq(StepRecords)
      /\ Change({"approvals"}) \in Seq(StepRecords) /\ Change({"policy"}) \in Seq(StepRecords)
      /\ Change({"config"}) \in Seq(StepRecords) /\ Change({"profiles"}) \in Seq(StepRecords)
  BY <1>1 DEF Parts, SessionParts
<1>8. /\ Say("vault.unlocked") \in Seq(StepRecords) /\ Say("vault.locked") \in Seq(StepRecords)
      /\ Say("approvals.changed") \in Seq(StepRecords) /\ Say("policy.changed") \in Seq(StepRecords)
      /\ Say("config.changed") \in Seq(StepRecords) /\ Say("backup.created") \in Seq(StepRecords)
      /\ Say("integrations.profiles.changed") \in Seq(StepRecords)
      /\ Say("integrations.changed") \in Seq(StepRecords) /\ Say("audit.changed") \in Seq(StepRecords)
  BY <1>2 DEF Topics
<1> HIDE DEF StepRecords
<1>9. \A b \in BOOLEAN : OpenSession(b) \in Seq(StepRecords) /\ DecideApproval(b) \in Seq(StepRecords)
  BY <1>3, <1>4, <1>5, <1>6, <1>7, <1>8 DEF OpenSession, DecideApproval
<1>10. /\ RevokeSession \in Seq(StepRecords) /\ RevokeAllSessions \in Seq(StepRecords)
       /\ RevokeLease \in Seq(StepRecords) /\ RevokeLeases \in Seq(StepRecords)
       /\ RevokeAllForConsumer \in Seq(StepRecords) /\ LockVault \in Seq(StepRecords)
  BY <1>3, <1>4, <1>5, <1>7, <1>8
     DEF RevokeSession, RevokeAllSessions, RevokeLease, RevokeLeases, RevokeAllForConsumer, LockVault
<1>11. /\ publishQueuedApproval \in Seq(StepRecords) /\ SetPolicy \in Seq(StepRecords)
       /\ SetConfig \in Seq(StepRecords) /\ Backup \in Seq(StepRecords)
       /\ recordIntegrationProfileMutation \in Seq(StepRecords)
       /\ DoctorIntegration \in Seq(StepRecords) /\ AuditVerify \in Seq(StepRecords)
  BY <1>4, <1>5, <1>7, <1>8
     DEF publishQueuedApproval, SetPolicy, SetConfig, Backup, recordIntegrationProfileMutation,
         DoctorIntegration, AuditVerify
<1>12. \A via : \A s \in Seq(StepRecords) : Route(s, via).steps \in Seq(StepRecords)
  BY DEF Route
<1>13. \A r \in SocketRoutes \cup LeaseRoutes \cup ApprovalRoutes : r.steps \in Seq(StepRecords)
  BY <1>9, <1>10, <1>11, <1>12 DEF SocketRoutes, LeaseRoutes, ApprovalRoutes
<1>14. \A r \in IntegrationRoutes \cup PolicyRoutes \cup ConfigRoutes \cup AuditRoutes \cup BackupRoutes :
          r.steps \in Seq(StepRecords)
  BY <1>11, <1>12 DEF IntegrationRoutes, PolicyRoutes, ConfigRoutes, AuditRoutes, BackupRoutes
<1>15. \A r \in VaultRoutes : r.steps \in Seq(StepRecords)
  BY <1>3, <1>5, <1>9, <1>10, <1>12 DEF VaultRoutes
<1>16. \A r \in Rivals : r.steps \in Seq(StepRecords)
  BY <1>11, <1>12 DEF Rivals
<1> QED BY <1>13, <1>14, <1>15, <1>16 DEF Routes

\* One client's connection changes.
LEMMA OneConn ==
    ASSUME SInv, NEW c \in Clients, NEW k2 \in Conns, conn' = [conn EXCEPT ![c] = k2],
           ChannelOK(k2, nextID, history), UNCHANGED <<running, history, nextID>>,
           last' \in [Clients -> Nat], known' \in [Clients -> BOOLEAN],
           \A d \in Clients : d # c => last'[d] = last[d] /\ known'[d] = known[d],
           known'[c] => NoGap(k2, last'[c], Wants[c], nextID, history)
    PROVE  SInv'
<1>1. /\ conn' \in [Clients -> Conns]
      /\ \A d \in Clients : conn'[d] = IF d = c THEN k2 ELSE conn[d]
  BY DEF SInv, StreamTypeOK
<1>2. nextID' = nextID /\ history' = history /\ running' = running
  OBVIOUS
<1>3. StreamTypeOK'
  BY <1>1, <1>2 DEF SInv, StreamTypeOK
<1>4. \A d \in Clients : ChannelOK(conn'[d], nextID, history)
  BY <1>1 DEF SInv
<1>5. ASSUME NEW d \in Clients, known'[d]
      PROVE  NoGap(conn'[d], last'[d], Wants[d], nextID, history)
  <2>1. CASE d = c
    BY <1>1, <1>5, <2>1
  <2>2. CASE d # c
    <3>1. known[d] /\ last'[d] = last[d] /\ conn'[d] = conn[d]
      BY <1>1, <1>5, <2>2
    <3> QED BY <3>1 DEF SInv
  <2> QED BY <2>1, <2>2
<1> QED BY <1>2, <1>3, <1>4, <1>5 DEF SInv

LEMMA ViewsInitSInv == ViewsInit => SInv
<1> SUFFICES ASSUME ViewsInit PROVE SInv
  OBVIOUS
<1>1. <<>> \in Seq(Events) /\ <<>> \in Seq(StepRecords) /\ Len(<<>>) = 0
  BY EmptySeq
<1>2. Numbered(nextID, history)
  BY <1>1 DEF ViewsInit, Numbered
<1>3. Off \in Conns /\ Off.phase = "off" /\ Off.sub = FALSE /\ Off.chan = <<>> /\ Off.backlog = <<>>
  BY <1>1 DEF Off, Conns
<1>4. StreamTypeOK
  BY <1>1, <1>2, <1>3 DEF ViewsInit, StreamTypeOK
<1>5. ChannelOK(Off, nextID, history)
  BY <1>3 DEF ChannelOK, Run, Watches
<1> QED BY <1>4, <1>5 DEF ViewsInit, SInv

LEMMA OffOK ==
    ASSUME NEW n, NEW h
    PROVE  /\ Off \in Conns /\ ChannelOK(Off, n, h)
           /\ \A l, w : 1 <= l /\ l <= n => NoGap(Off, l, w, n, h)
<1>1. Off \in Conns /\ Off.phase = "off" /\ Off.sub = FALSE /\ Off.chan = <<>> /\ Off.backlog = <<>>
  BY EmptySeq DEF Off, Conns
<1>2. ChannelOK(Off, n, h)
  BY <1>1 DEF ChannelOK, Run, Watches
<1>3. \A l, w : 1 <= l /\ l <= n => NoGap(Off, l, w, n, h)
  BY <1>1 DEF NoGap
<1> QED BY <1>1, <1>2, <1>3

\* An event is published to every client.
LEMMA PublishSInv ==
    ASSUME SInv, NEW t \in Topics, publish(t), running' \in [Handlers -> Seq(StepRecords)],
           UNCHANGED clientVars
    PROVE  SInv'
<1> DEFINE e == [id |-> nextID + 1, name |-> t]
<1>1. Published(nextID, history, t, e, history') /\ nextID' = nextID + 1
  BY DEF publish, Published
<1>2. \A c \in Clients : conn'[c] = Delivered(conn[c], e)
  BY DEF publish
<1>3. conn' = [c \in Clients |-> conn'[c]]
  BY DEF publish
<1> HIDE DEF e
<1>4. Numbered(nextID, history)
  BY DEF SInv, StreamTypeOK
<1>5. Numbered(nextID', history')
  BY <1>1, <1>4, PublishFacts
<1>6. ASSUME NEW c \in Clients
      PROVE  /\ conn'[c] \in Conns /\ ChannelOK(conn'[c], nextID', history')
             /\ \A w : \A l \in Nat : NoGap(conn[c], l, w, nextID, history) =>
                                     NoGap(conn'[c], l, w, nextID', history')
  <2>1. conn[c] \in Conns /\ ChannelOK(conn[c], nextID, history)
    BY DEF SInv, StreamTypeOK
  <2> QED BY <1>1, <1>2, <1>4, <2>1, DeliverStep
<1>7. StreamTypeOK'
  BY <1>3, <1>5, <1>6 DEF clientVars, SInv, StreamTypeOK
<1>8. ASSUME NEW c \in Clients, known'[c]
      PROVE  NoGap(conn'[c], last'[c], Wants[c], nextID', history')
  <2>1. known[c] /\ last'[c] = last[c] /\ last[c] \in Nat
    BY <1>8 DEF clientVars, SInv, StreamTypeOK
  <2> QED BY <1>6, <2>1 DEF SInv
<1> QED BY <1>6, <1>7, <1>8 DEF SInv

\* What a step of an operation publishes.
LEMMA StepPublishes ==
    ASSUME SInv, NEW h \in Handlers, Step(h)
    PROVE  /\ running' \in [Handlers -> Seq(StepRecords)] /\ UNCHANGED clientVars
           /\ UNCHANGED hubVars \/ \E t \in Topics : publish(t)
<1>1. running \in [Handlers -> Seq(StepRecords)] /\ running[h] # <<>>
  BY DEF SInv, StreamTypeOK, Step
<1>2. Head(running[h]) \in StepRecords /\ Tail(running[h]) \in Seq(StepRecords)
  BY <1>1, HeadTailProperties
<1>3. Head(running[h]).publish \in SUBSET (Topics \cup {"none"})
  BY <1>2 DEF StepRecords
<1>4. running' = [running EXCEPT ![h] = Tail(running[h])] /\ UNCHANGED clientVars
  BY DEF Step
<1>5. UNCHANGED hubVars \/ \E t \in Head(running[h]).publish \ {"none"} : publish(t)
  BY DEF Step
<1>6. UNCHANGED hubVars \/ \E t \in Topics : publish(t)
  BY <1>3, <1>5
<1> QED BY <1>1, <1>2, <1>4, <1>6

\* What is shown to a client, of an event that a read takes.
LEMMA ShownSInv ==
    ASSUME SInv, NEW c \in Clients, NEW k2, conn' = [conn EXCEPT ![c] = k2],
           NEW e, ReadOK(conn[c], e, k2, nextID, history),
           Shown(c, e), UNCHANGED <<running, history, nextID>>
    PROVE  SInv'
<1>0. /\ last \in [Clients -> Nat] /\ known \in [Clients -> BOOLEAN]
      /\ known[c] => NoGap(conn[c], last[c], Wants[c], nextID, history)
  BY DEF SInv, StreamTypeOK
<1>1. /\ k2 \in Conns /\ ChannelOK(k2, nextID, history) /\ e \in Events /\ Told(e, nextID, history)
      /\ \A w : NoGap(k2, e.id, w, nextID, history)
      /\ known[c] /\ Missable(Wants[c], e.id, nextID, history) =>
            NoGap(k2, last[c], Wants[c], nextID, history)
  BY <1>0 DEF ReadOK
<1>2. e.id \in Nat
  BY <1>1 DEF Events
<1>3. CASE e.name \notin Wants[c]
  <2>1. last' = last /\ known' = known
    BY <1>3 DEF Shown, clientVars
  <2>2. Missable(Wants[c], e.id, nextID, history)
    <3>1. CASE e.id <= Gone(nextID, history)
      BY <3>1 DEF Missable
    <3>2. CASE ~ (e.id <= Gone(nextID, history))
      <4>1. Gone(nextID, history) \in Int
        BY SeqFacts DEF SInv, StreamTypeOK, Numbered, Gone
      <4>2. e.id > Gone(nextID, history)
        BY <1>2, <3>2, <4>1
      <4> QED BY <1>1, <1>3, <4>2 DEF Missable, Told
    <3> QED BY <3>1, <3>2
  <2>3. known'[c] => NoGap(k2, last'[c], Wants[c], nextID, history)
    BY <1>1, <2>1, <2>2
  <2>4. \A d \in Clients : d # c => last'[d] = last[d] /\ known'[d] = known[d]
    BY <2>1
  <2> QED BY <1>0, <1>1, <2>1, <2>3, <2>4, OneConn
<1>4. CASE e.name \in Wants[c]
  <2>1. last' = [last EXCEPT ![c] = e.id] /\ known' = [known EXCEPT ![c] = TRUE]
    BY <1>4 DEF Shown
  <2>2. /\ last' \in [Clients -> Nat] /\ known' \in [Clients -> BOOLEAN] /\ last'[c] = e.id
        /\ \A d \in Clients : d # c => last'[d] = last[d] /\ known'[d] = known[d]
    BY <1>0, <1>2, <2>1
  <2>3. NoGap(k2, last'[c], Wants[c], nextID, history)
    BY <1>1, <2>2
  <2> QED BY <1>1, <2>2, <2>3, OneConn
<1> QED BY <1>3, <1>4

\* A read takes the first event that waits.
LEMMA ReadCases ==
    ASSUME SInv, NEW c \in Clients, Read(c)
    PROVE  /\ UNCHANGED <<running, history, nextID>>
           /\ \/ conn' = [conn EXCEPT ![c] = Off] /\ UNCHANGED clientVars
              \/ \E e, k2 : /\ conn' = [conn EXCEPT ![c] = k2] /\ Shown(c, e)
                            /\ ReadOK(conn[c], e, k2, nextID, history)
<1>0. /\ conn[c] \in Conns /\ ChannelOK(conn[c], nextID, history) /\ nextID \in Nat
      /\ conn \in [Clients -> Conns]
  BY DEF SInv, StreamTypeOK, Numbered
<1>1. conn[c].phase = "live" /\ UNCHANGED <<running, history, nextID>>
  BY DEF Read
<1>2. CASE /\ conn[c].backlog # <<>>
           /\ conn' = [conn EXCEPT ![c].backlog = Tail(@)] /\ Shown(c, Head(conn[c].backlog))
  <2>1. PICK e, k2 : BacklogRead(conn[c], e, k2)
    BY DEF BacklogRead
  <2>2. conn' = [conn EXCEPT ![c] = k2] /\ Shown(c, e)
    BY <1>0, <1>2, <2>1 DEF BacklogRead
  <2>3. ReadOK(conn[c], e, k2, nextID, history)
    BY <1>0, <1>1, <1>2, <2>1, ReadBacklogStep
  <2> QED BY <1>1, <2>2, <2>3
<1>3. CASE /\ conn[c].backlog = <<>> /\ conn[c].chan # <<>>
           /\ conn' = [conn EXCEPT ![c].chan = Tail(@)] /\ Shown(c, Head(conn[c].chan))
  <2>1. PICK e, k2 : ChannelRead(conn[c], e, k2)
    BY DEF ChannelRead
  <2>2. conn' = [conn EXCEPT ![c] = k2] /\ Shown(c, e)
    BY <1>0, <1>3, <2>1 DEF ChannelRead
  <2>3. ReadOK(conn[c], e, k2, nextID, history)
    BY <1>0, <1>1, <1>3, <2>1, ReadChannelStep
  <2> QED BY <1>1, <2>2, <2>3
<1>4. CASE conn' = [conn EXCEPT ![c] = Off] /\ UNCHANGED clientVars
  BY <1>1, <1>4
<1> QED BY <1>2, <1>3, <1>4 DEF Read

LEMMA ViewsNextSInv == SInv /\ [ViewsNext]_viewsVars => SInv'
<1> SUFFICES ASSUME SInv, [ViewsNext]_viewsVars PROVE SInv'
  OBVIOUS
<1>0. /\ running \in [Handlers -> Seq(StepRecords)] /\ conn \in [Clients -> Conns]
      /\ last \in [Clients -> Nat] /\ known \in [Clients -> BOOLEAN]
      /\ Numbered(nextID, history) /\ nextID \in Nat
      /\ \A c \in Clients : ChannelOK(conn[c], nextID, history)
      /\ \A c \in Clients : known[c] => NoGap(conn[c], last[c], Wants[c], nextID, history)
  BY DEF SInv, StreamTypeOK, Numbered
<1>1. ASSUME UNCHANGED <<hubVars, clientVars>>, running' \in [Handlers -> Seq(StepRecords)]
      PROVE  SInv'
  BY <1>1 DEF hubVars, clientVars, SInv, StreamTypeOK
<1>2. ASSUME NEW h \in Handlers, Begin(h) PROVE SInv'
  <2>1. PICK r \in Routes \cup Rivals : running' = [running EXCEPT ![h] = r.steps]
    BY <1>2 DEF Begin
  <2>2. running' \in [Handlers -> Seq(StepRecords)]
    BY <1>0, <2>1, RoutesTyped
  <2> QED BY <1>1, <1>2, <2>2 DEF Begin
<1>3. ASSUME NEW h \in Handlers, Step(h) PROVE SInv'
  <2>1. /\ running' \in [Handlers -> Seq(StepRecords)] /\ UNCHANGED clientVars
        /\ UNCHANGED hubVars \/ \E t \in Topics : publish(t)
    BY <1>3, StepPublishes
  <2>2. CASE UNCHANGED hubVars
    BY <1>1, <2>1, <2>2
  <2>3. CASE \E t \in Topics : publish(t)
    BY <2>1, <2>3, PublishSInv
  <2> QED BY <2>1, <2>2, <2>3
<1>4. ASSUME NEW c \in Clients, Connect(c) PROVE SInv'
  <2> DEFINE k2 == [conn[c] EXCEPT !.phase = "on"]
  <2>1. conn' = [conn EXCEPT ![c] = k2] /\ UNCHANGED <<running, history, nextID, clientVars>>
    BY <1>0, <1>4 DEF Connect
  <2>2. conn[c] \in Conns /\ ChannelOK(conn[c], nextID, history) /\ conn[c].phase = "off"
    BY <1>0, <1>4 DEF Connect
  <2>3. /\ k2 \in Conns /\ k2.phase = "on" /\ k2.sub = conn[c].sub /\ k2.chan = conn[c].chan
        /\ k2.backlog = conn[c].backlog
    BY <2>2 DEF Conns
  <2> HIDE DEF k2
  <2>4. ChannelOK(k2, nextID, history)
    BY <2>2, <2>3 DEF ChannelOK, Watches, Front
  <2>5. \A l, w : NoGap(conn[c], l, w, nextID, history) => NoGap(k2, l, w, nextID, history)
    BY <2>3 DEF NoGap
  <2> QED BY <1>0, <2>1, <2>3, <2>4, <2>5, OneConn DEF clientVars
<1>5. ASSUME NEW c \in Clients, Subscribe(c) PROVE SInv'
  <2>1. PICK k2 : k2 = Subscribed(c)
    OBVIOUS
  <2>2. conn' = [conn EXCEPT ![c] = k2] /\ UNCHANGED <<running, history, nextID, clientVars>>
    BY <1>5, <2>1 DEF Subscribe
  <2>3. conn[c] \in Conns /\ ChannelOK(conn[c], nextID, history) /\ conn[c].phase = "on"
    BY <1>0, <1>5 DEF Subscribe
  <2>4. conn[c].chan = <<>> /\ conn[c].backlog = <<>>
    BY <2>3 DEF ChannelOK
  <2>5. /\ k2 \in Conns /\ k2.phase = "subscribed" /\ k2.chan = <<>> /\ k2.backlog = <<>>
    BY <2>1, <2>3, <2>4 DEF Conns, Subscribed
  <2>6. ChannelOK(k2, nextID, history)
    BY <2>3, <2>4, <2>5 DEF ChannelOK
  <2>7. \A l, w : NoGap(conn[c], l, w, nextID, history) => NoGap(k2, l, w, nextID, history)
    BY <2>5 DEF NoGap
  <2> QED BY <1>0, <2>2, <2>5, <2>6, <2>7, OneConn DEF clientVars
<1>6. ASSUME NEW c \in Clients, Replay(c) PROVE SInv'
  <2>1. PICK k2 : k2 = [conn[c] EXCEPT !.phase = "live", !.backlog = replaySince(last[c])]
    OBVIOUS
  <2>2. conn' = [conn EXCEPT ![c] = k2] /\ UNCHANGED <<running, history, nextID, clientVars>>
    BY <1>0, <1>6, <2>1 DEF Replay
  <2>3. /\ conn[c] \in Conns /\ ChannelOK(conn[c], nextID, history) /\ conn[c].phase = "subscribed"
        /\ last[c] \in Nat
    BY <1>0, <1>6 DEF Replay
  <2>4. /\ k2 \in Conns /\ ChannelOK(k2, nextID, history)
        /\ \A w : NoGap(conn[c], last[c], w, nextID, history) => NoGap(k2, last[c], w, nextID, history)
    BY <1>0, <2>1, <2>3, ReplayStep
  <2> QED BY <1>0, <2>2, <2>4, OneConn DEF clientVars
<1>7. ASSUME NEW c \in Clients, conn' = [conn EXCEPT ![c] = Off],
             UNCHANGED <<running, history, nextID, clientVars>>
      PROVE  SInv'
  <2>1. known[c] => 1 <= last[c] /\ last[c] <= nextID
    BY <1>0 DEF NoGap
  <2>2. Off \in Conns /\ ChannelOK(Off, nextID, history)
    BY OffOK
  <2>3. known[c] => NoGap(Off, last[c], Wants[c], nextID, history)
    BY <2>1, OffOK
  <2> QED BY <1>0, <1>7, <2>2, <2>3, OneConn DEF clientVars
<1>8. ASSUME NEW c \in Clients, Read(c) PROVE SInv'
  <2>1. UNCHANGED <<running, history, nextID>>
    BY <1>8, ReadCases
  <2>2. CASE conn' = [conn EXCEPT ![c] = Off] /\ UNCHANGED clientVars
    BY <1>7, <2>1, <2>2
  <2>3. CASE \E e, k2 : /\ conn' = [conn EXCEPT ![c] = k2] /\ Shown(c, e)
                        /\ ReadOK(conn[c], e, k2, nextID, history)
    BY <2>1, <2>3, ShownSInv
  <2> QED BY <1>8, <2>2, <2>3, ReadCases
<1>9. ASSUME NEW c \in Clients, Disconnect(c) PROVE SInv'
  BY <1>7, <1>9 DEF Disconnect
<1>10. CASE RestartDaemon
  <2>1. /\ running' = [h \in Handlers |-> <<>>] /\ history' = <<>> /\ nextID' = 0
        /\ conn' = [c \in Clients |-> Off] /\ known' = [c \in Clients |-> FALSE] /\ last' = last
    BY <1>10 DEF RestartDaemon
  <2>2. Numbered(nextID', history')
    BY <2>1, EmptySeq DEF Numbered
  <2>3. running' \in [Handlers -> Seq(StepRecords)]
    BY <2>1, EmptySeq
  <2>4. StreamTypeOK'
    BY <1>0, <2>1, <2>2, <2>3, OffOK DEF StreamTypeOK
  <2>5. \A c \in Clients : ChannelOK(conn'[c], nextID', history') /\ ~ known'[c]
    BY <2>1, OffOK
  <2> QED BY <2>4, <2>5 DEF SInv
<1>11. CASE UNCHANGED viewsVars
  BY <1>0, <1>1, <1>11 DEF viewsVars
<1> QED BY <1>2, <1>3, <1>4, <1>5, <1>6, <1>8, <1>9, <1>10, <1>11 DEF ViewsNext

\* What waits for a client continues what it was shown: publish, subscribe and
\* replaySince keep the runs whole and overlapping.
THEOREM StreamInvariant == ViewsSpec => []SInv
<1>1. ViewsInit => SInv
  BY ViewsInitSInv
<1>2. SInv /\ [ViewsNext]_viewsVars => SInv'
  BY ViewsNextSInv
<1> QED BY <1>1, <1>2, PTL DEF ViewsSpec

-----------------------------------------------------------------------------
(* The refinement *)

Names(h) == [i \in 1..Len(h) |-> h[i].name]

LEMMA NamesFacts ==
    ASSUME NEW h \in Seq(Events)
    PROVE  /\ Names(h) \in Seq(Topics) /\ Len(Names(h)) = Len(h)
           /\ \A i \in 1..Len(h) : Names(h)[i] = h[i].name
<1>1. Len(h) \in Nat /\ \A i \in 1..Len(h) : h[i] \in Events
  BY SeqFacts
<1>2. \A i \in 1..Len(h) : h[i].name \in Topics
  BY <1>1 DEF Events
<1> QED BY <1>1, <1>2 DEF Names

\* The kept names of a history that ends with e.
LEMMA NamesKept ==
    ASSUME NEW h \in Seq(Events), NEW e \in Events, NEW m \in 1..Len(h) + 1
    PROVE  Names(SubSeq(Append(h, e), m, Len(h) + 1))
             = SubSeq(Append(Names(h), e.name), m, Len(h) + 1)
<1> DEFINE s == Append(h, e)
           r == SubSeq(s, m, Len(h) + 1)
           t == Append(Names(h), e.name)
           u == SubSeq(t, m, Len(h) + 1)
<1>0. /\ Len(h) \in Nat /\ m \in Nat /\ 1 <= m /\ m <= Len(h) + 1 /\ e.name \in Topics
      /\ m \in Int /\ Len(h) + 1 \in Int
  BY SeqFacts DEF Events
<1>1. /\ s \in Seq(Events) /\ Len(s) = Len(h) + 1
      /\ \A i \in 1..Len(h) : s[i] = h[i]
      /\ s[Len(h) + 1] = e
  BY AppendProperties
<1>2. /\ t \in Seq(Topics) /\ Len(t) = Len(h) + 1
      /\ \A i \in 1..Len(h) : t[i] = Names(h)[i]
      /\ t[Len(h) + 1] = e.name
  <2>1. Names(h) \in Seq(Topics) /\ Len(Names(h)) = Len(h)
    BY NamesFacts
  <2> QED BY <1>0, <2>1, AppendProperties
<1> HIDE DEF s, t
<1>3. \A i \in 1..Len(h) + 1 : t[i] = s[i].name /\ s[i] \in Events /\ t[i] \in Topics
  <2> SUFFICES ASSUME NEW i \in 1..Len(h) + 1
               PROVE  t[i] = s[i].name /\ s[i] \in Events /\ t[i] \in Topics
    OBVIOUS
  <2>1. s[i] \in Events /\ t[i] \in Topics
    BY <1>1, <1>2, SeqFacts
  <2>2. i \in 1..Len(h) \/ i = Len(h) + 1
    BY <1>0
  <2> QED BY <1>1, <1>2, <2>1, <2>2, NamesFacts
<1>4. /\ r \in Seq(Events) /\ Len(r) = Len(h) + 1 - m + 1
      /\ \A i \in 1..Len(h) + 1 - m + 1 : r[i] = s[m + i - 1]
  <2>1. \A i \in m..Len(h) + 1 : s[i] \in Events
    BY <1>0, <1>3
  <2> QED BY <1>0, <2>1, SubSeqProperties
<1>5. /\ u \in Seq(Topics) /\ Len(u) = Len(h) + 1 - m + 1
      /\ \A i \in 1..Len(h) + 1 - m + 1 : u[i] = t[m + i - 1]
  <2>1. \A i \in m..Len(h) + 1 : t[i] \in Topics
    BY <1>0, <1>3
  <2> QED BY <1>0, <2>1, SubSeqProperties
<1> HIDE DEF r, u
<1>6. Names(r) \in Seq(Topics) /\ Len(Names(r)) = Len(r) /\ \A i \in 1..Len(r) : Names(r)[i] = r[i].name
  BY <1>4, NamesFacts
<1>7. \A i \in 1..Len(Names(r)) : Names(r)[i] = u[i]
  <2> SUFFICES ASSUME NEW i \in 1..Len(Names(r)) PROVE Names(r)[i] = u[i]
    OBVIOUS
  <2>1. i \in 1..Len(h) + 1 - m + 1 /\ m + i - 1 \in 1..Len(h) + 1
    BY <1>0, <1>4, <1>6
  <2>2. r[i] = s[m + i - 1] /\ u[i] = t[m + i - 1]
    BY <1>4, <1>5, <2>1
  <2> QED BY <1>3, <1>6, <2>1, <2>2
<1>8. Names(r) = u
  BY <1>4, <1>5, <1>6, <1>7, SeqEqual
<1> QED BY <1>8 DEF r, u, s, t

\* What a client of the promise sees as its position.
Pos == [c \in Clients |-> IF known[c] THEN last[c] ELSE -1]

LEMMA ViewsInitMaps == ViewsInit => Stream!StreamInit
<1> SUFFICES ASSUME ViewsInit PROVE Stream!StreamInit
  OBVIOUS
<1>1. history = <<>> /\ nextID = 0
  BY DEF ViewsInit
<1>2. Names(history) = <<>>
  <2>1. history \in Seq(Events) /\ Len(history) = 0
    BY <1>1, EmptySeq
  <2>2. Names(history) \in Seq(Topics) /\ Len(Names(history)) = 0
    BY <2>1, NamesFacts
  <2> QED BY <2>2, EmptySeq
<1>3. Pos = [c \in Clients |-> -1]
  BY DEF ViewsInit, Pos
<1> QED BY <1>1, <1>2, <1>3 DEF Stream!StreamInit, Stream!Unknown, Names, Pos

\* A published event is the next one of the promise.
LEMMA PublishMaps ==
    ASSUME SInv, NEW t \in Topics, publish(t), UNCHANGED clientVars
    PROVE  Stream!Publish(t)
<1> DEFINE e == [id |-> nextID + 1, name |-> t]
<1>1. Published(nextID, history, t, e, history') /\ nextID' = nextID + 1
  BY DEF publish, Published
<1>2. e.name = t
  OBVIOUS
<1> HIDE DEF e
<1>3. Numbered(nextID, history) /\ history \in Seq(Events)
  BY DEF SInv, StreamTypeOK, Numbered
<1>4. /\ e \in Events
      /\ \E m \in 1..Len(history) + 1 : history' = SubSeq(Append(history, e), m, Len(history) + 1)
  BY <1>1, <1>3, PublishFacts
<1>5. PICK m \in 1..Len(history) + 1 : history' = SubSeq(Append(history, e), m, Len(history) + 1)
  BY <1>4
<1>6. Names(history') = SubSeq(Append(Names(history), t), m, Len(history) + 1)
  BY <1>2, <1>3, <1>4, <1>5, NamesKept
<1>7. Len(Names(history)) = Len(history)
  BY <1>3, NamesFacts
<1>8. \E k \in 1..Len(Names(history)) + 1 :
          Names(history') = SubSeq(Append(Names(history), t), k, Len(Names(history)) + 1)
  BY <1>5, <1>6, <1>7
<1>9. Pos' = Pos
  BY DEF clientVars, Pos
<1> QED BY <1>1, <1>8, <1>9 DEF Stream!Publish, Names, Pos

\* What is missable in the hub may be missed under the promise.
LEMMA MissableMaps ==
    ASSUME SInv, NEW c \in Clients, NEW j \in Nat, 1 <= j, j <= nextID,
           Missable(Wants[c], j, nextID, history)
    PROVE  Stream!MayMiss(c, j)
<1>1. /\ nextID \in Nat /\ history \in Seq(Events) /\ Len(history) <= nextID
  BY DEF SInv, StreamTypeOK, Numbered
<1>2. Len(history) \in Nat /\ Len(Names(history)) = Len(history)
      /\ \A i \in 1..Len(history) : Names(history)[i] = history[i].name
  BY <1>1, SeqFacts, NamesFacts
<1>3. Stream!Dropped = Gone(nextID, history)
  BY <1>2 DEF Stream!Dropped, Gone, Names
<1>4. CASE j <= Gone(nextID, history)
  BY <1>3, <1>4 DEF Stream!MayMiss
<1>5. CASE j > Gone(nextID, history)
  <2>1. j - Gone(nextID, history) \in 1..Len(history)
    BY <1>1, <1>2, <1>5 DEF Gone
  <2>2. Names(history)[j - Gone(nextID, history)] \notin Wants[c]
    <3>1. history[j - Gone(nextID, history)].name \notin Wants[c]
      BY <1>1, <1>2, <1>5 DEF Missable, Gone
    <3> QED BY <1>2, <2>1, <3>1
  <2> QED BY <1>3, <2>2 DEF Stream!MayMiss, Names
<1> QED BY <1>1, <1>2, <1>4, <1>5 DEF Gone

\* An event that a client is shown is one the promise lets it be shown.
LEMMA ShowMaps ==
    ASSUME SInv, NEW c \in Clients, NEW e, NEW k2, ReadOK(conn[c], e, k2, nextID, history),
           Shown(c, e), UNCHANGED <<history, nextID>>
    PROVE  [Stream!StreamNext]_(Stream!streamVars)
<1>0. /\ last \in [Clients -> Nat] /\ known \in [Clients -> BOOLEAN] /\ nextID \in Nat
      /\ known[c] => NoGap(conn[c], last[c], Wants[c], nextID, history)
  BY DEF SInv, StreamTypeOK, Numbered
<1>1. e \in Events /\ Told(e, nextID, history)
      /\ \A l \in Nat : NoGap(conn[c], l, Wants[c], nextID, history) =>
            \A j \in Nat : l < j /\ j < e.id => Missable(Wants[c], j, nextID, history)
  BY DEF ReadOK
<1>2. e.id \in Nat /\ 1 <= e.id /\ e.id <= nextID
  BY <1>1 DEF Events, Told
<1>3. CASE e.name \notin Wants[c]
  BY <1>3 DEF Shown, clientVars, Stream!streamVars
<1>4. CASE e.name \in Wants[c]
  <2>1. last' = [last EXCEPT ![c] = e.id] /\ known' = [known EXCEPT ![c] = TRUE]
    BY <1>4 DEF Shown
  <2>2. Pos' = [Pos EXCEPT ![c] = e.id]
    BY <1>0, <2>1 DEF Pos
  <2>3. Pos[c] # -1 => \A j \in Pos[c] + 1 .. e.id - 1 : Stream!MayMiss(c, j)
    <3> SUFFICES ASSUME Pos[c] # -1, NEW j \in Pos[c] + 1 .. e.id - 1
                 PROVE  Stream!MayMiss(c, j)
      OBVIOUS
    <3>1. known[c] /\ Pos[c] = last[c] /\ last[c] \in Nat
      BY <1>0 DEF Pos
    <3>2. j \in Nat /\ last[c] < j /\ j < e.id /\ 1 <= j /\ j <= nextID
      BY <1>0, <1>2, <3>1
    <3>3. Missable(Wants[c], j, nextID, history)
      BY <1>0, <1>1, <3>1, <3>2
    <3> QED BY <3>2, <3>3, MissableMaps
  <2>4. Stream!Show(c, e.id)
    BY <2>2, <2>3 DEF Stream!Show, Stream!Unknown, Pos
  <2>5. e.id \in 1..nextID
    BY <1>0, <1>2
  <2> QED BY <2>4, <2>5 DEF Stream!StreamNext
<1> QED BY <1>3, <1>4

\* Every step of the hub is a step of the promise, or changes nothing it speaks of.
LEMMA ViewsNextMaps ==
    SInv /\ [ViewsNext]_viewsVars => [Stream!StreamNext]_(Stream!streamVars)
<1> SUFFICES ASSUME SInv, [ViewsNext]_viewsVars
             PROVE  [Stream!StreamNext]_(Stream!streamVars)
  OBVIOUS
<1>1. CASE UNCHANGED <<history, nextID, last, known>>
  BY <1>1 DEF Stream!streamVars
<1>2. ASSUME NEW h \in Handlers, Begin(h) PROVE [Stream!StreamNext]_(Stream!streamVars)
  BY <1>1, <1>2 DEF Begin, hubVars, clientVars
<1>3. ASSUME NEW h \in Handlers, Step(h) PROVE [Stream!StreamNext]_(Stream!streamVars)
  <2>1. UNCHANGED clientVars /\ (UNCHANGED hubVars \/ \E t \in Topics : publish(t))
    BY <1>3, StepPublishes
  <2>2. CASE UNCHANGED hubVars
    BY <1>1, <2>1, <2>2 DEF hubVars, clientVars
  <2>3. CASE \E t \in Topics : publish(t)
    <3>1. \E t \in Topics : Stream!Publish(t)
      BY <2>1, <2>3, PublishMaps
    <3> QED BY <3>1 DEF Stream!StreamNext
  <2> QED BY <2>1, <2>2, <2>3
<1>4. ASSUME NEW c \in Clients, Connect(c) \/ Subscribe(c) \/ Replay(c) \/ Disconnect(c)
      PROVE  [Stream!StreamNext]_(Stream!streamVars)
  BY <1>1, <1>4 DEF Connect, Subscribe, Replay, Disconnect, clientVars
<1>5. ASSUME NEW c \in Clients, Read(c) PROVE [Stream!StreamNext]_(Stream!streamVars)
  <2>1. UNCHANGED <<running, history, nextID>>
    BY <1>5, ReadCases
  <2>2. CASE UNCHANGED clientVars
    BY <1>1, <2>1, <2>2 DEF clientVars
  <2>3. CASE \E e, k2 : Shown(c, e) /\ ReadOK(conn[c], e, k2, nextID, history)
    BY <2>1, <2>3, ShowMaps
  <2> QED BY <1>5, <2>2, <2>3, ReadCases
<1>6. CASE RestartDaemon
  <2>1. history' = <<>> /\ nextID' = 0 /\ known' = [c \in Clients |-> FALSE]
    BY <1>6 DEF RestartDaemon
  <2>2. Names(history') = <<>>
    <3>1. history' \in Seq(Events) /\ Len(history') = 0
      BY <2>1, EmptySeq
    <3>2. Names(history') \in Seq(Topics) /\ Len(Names(history')) = 0
      BY <3>1, NamesFacts
    <3> QED BY <3>2, EmptySeq
  <2>3. Pos' = [c \in Clients |-> -1]
    BY <2>1 DEF Pos
  <2>4. Stream!Restart
    BY <2>1, <2>2, <2>3 DEF Stream!Restart, Stream!Unknown, Names, Pos
  <2> QED BY <2>4 DEF Stream!StreamNext
<1>7. CASE UNCHANGED viewsVars
  BY <1>1, <1>7 DEF viewsVars, hubVars, clientVars
<1> QED BY <1>2, <1>3, <1>4, <1>5, <1>6, <1>7 DEF ViewsNext

\* The hub with its bounded channels and bounded history keeps the promise of
\* EventStream: what a client has asked for it is shown in order, and passes over
\* only when the daemon no longer keeps it.
THEOREM HubKeepsPromise == ViewsSpec => ImplementsStream
<1>1. ViewsInit => Stream!StreamInit
  BY ViewsInitMaps
<1>2. SInv /\ [ViewsNext]_viewsVars => [Stream!StreamNext]_(Stream!streamVars)
  BY ViewsNextMaps
<1>3. ViewsSpec => []SInv
  BY StreamInvariant
<1> QED BY <1>1, <1>2, <1>3, PTL DEF ViewsSpec, ImplementsStream, Stream!StreamSpec

-----------------------------------------------------------------------------
(* What an operation still has to announce *)

\* Step x announces that view v may have changed.
Announces(x, v) == \E t \in Topics : x.publish = {t} /\ v \in Refetch(t)

Changes(x, v) == \E p \in PartsOf(v) \ {"internal"} : p \in x.change

\* Steps s announce v.
Owes(s, v) == \E i \in 1..Len(s) : Announces(s[i], v)

\* Steps s change v and do not announce it afterwards.
Unsaid(s, v) == \E i \in 1..Len(s) : /\ Changes(s[i], v)
                                     /\ \A j \in 1..Len(s) : i < j => ~ Announces(s[j], v)

\* The events with which operations end; every client asks for them.
Closers == {"audit.changed", "dashboard.changed"}

Due(s) == \E i \in 1..Len(s) : s[i].publish = {"dashboard.changed"}

\* After the last "dashboard.changed" of steps s comes no event but of Closers.
Closing(s) == \A i \in 1..Len(s) :
    \/ s[i].publish \subseteq Closers \cup {"none"}
    \/ \E j \in 1..Len(s) : i < j /\ s[j].publish = {"dashboard.changed"}

LEMMA StepsConcat ==
    ASSUME NEW s \in Seq(StepRecords), NEW t \in Seq(StepRecords)
    PROVE  /\ s \o t \in Seq(StepRecords)
           /\ \A v : /\ Owes(s, v) \/ Owes(t, v) => Owes(s \o t, v)
                     /\ ~ Unsaid(t, v) /\ (Owes(t, v) \/ ~ Unsaid(s, v)) => ~ Unsaid(s \o t, v)
           /\ Due(s) \/ Due(t) => Due(s \o t)
           /\ Closing(t) /\ (Due(t) \/ Closing(s)) => Closing(s \o t)
<1>1. /\ s \o t \in Seq(StepRecords) /\ Len(s) \in Nat /\ Len(t) \in Nat
      /\ Len(s \o t) = Len(s) + Len(t)
      /\ \A i \in 1..Len(s) + Len(t) : (s \o t)[i] = IF i <= Len(s) THEN s[i] ELSE t[i - Len(s)]
  BY ConcatProperties, LenProperties
<1>2. \A i \in 1..Len(s) : i \in 1..Len(s \o t) /\ (s \o t)[i] = s[i]
  BY <1>1
<1>3. \A i \in 1..Len(t) : Len(s) + i \in 1..Len(s \o t) /\ (s \o t)[Len(s) + i] = t[i]
  BY <1>1
<1>4. \A i \in 1..Len(s \o t) : i \in 1..Len(s) \/ \E j \in 1..Len(t) : i = Len(s) + j
  <2>1. \A i \in 1..Len(s) + Len(t) : i <= Len(s) \/ (i - Len(s) \in 1..Len(t) /\ i = Len(s) + (i - Len(s)))
    BY <1>1
  <2> QED BY <1>1, <2>1
<1>5. \A i \in 1..Len(s) : \A j \in 1..Len(t) : i < Len(s) + j
  BY <1>1
<1>6. \A i, j \in 1..Len(t) : Len(s) + i < Len(s) + j <=> i < j
  BY <1>1
<1>7. ASSUME NEW v, Owes(s, v) \/ Owes(t, v) PROVE Owes(s \o t, v)
  <2>1. CASE Owes(s, v)
    BY <1>2, <2>1 DEF Owes
  <2>2. CASE Owes(t, v)
    BY <1>3, <2>2 DEF Owes
  <2> QED BY <1>7, <2>1, <2>2
<1>8. ASSUME NEW v, ~ Unsaid(t, v), Owes(t, v) \/ ~ Unsaid(s, v), Unsaid(s \o t, v) PROVE FALSE
  <2>1. PICK i \in 1..Len(s \o t) : /\ Changes((s \o t)[i], v)
                                    /\ \A j \in 1..Len(s \o t) : i < j => ~ Announces((s \o t)[j], v)
    BY <1>8 DEF Unsaid
  <2>2. CASE i \in 1..Len(s)
    <3>1. ~ Owes(t, v)
      BY <1>3, <1>5, <2>1, <2>2 DEF Owes
    <3>2. Unsaid(s, v)
      BY <1>2, <2>1, <2>2 DEF Unsaid
    <3> QED BY <1>8, <3>1, <3>2
  <2>3. CASE \E j \in 1..Len(t) : i = Len(s) + j
    <3>1. PICK j \in 1..Len(t) : i = Len(s) + j
      BY <2>3
    <3>2. Changes(t[j], v) /\ \A k \in 1..Len(t) : j < k => ~ Announces(t[k], v)
      BY <1>3, <1>6, <2>1, <3>1
    <3> QED BY <1>8, <3>2 DEF Unsaid
  <2> QED BY <1>4, <2>2, <2>3
<1>9. Due(s) \/ Due(t) => Due(s \o t)
  BY <1>2, <1>3 DEF Due
<1>10. ASSUME Closing(t), Due(t) \/ Closing(s), NEW i \in 1..Len(s \o t),
              ~ ((s \o t)[i].publish \subseteq Closers \cup {"none"})
       PROVE  \E j \in 1..Len(s \o t) : i < j /\ (s \o t)[j].publish = {"dashboard.changed"}
  <2>1. CASE i \in 1..Len(s)
    <3>1. CASE Due(t)
      BY <1>3, <1>5, <2>1, <3>1 DEF Due
    <3>2. CASE Closing(s)
      BY <1>2, <1>10, <2>1, <3>2 DEF Closing
    <3> QED BY <1>10, <3>1, <3>2
  <2>2. CASE \E j \in 1..Len(t) : i = Len(s) + j
    <3>1. PICK j \in 1..Len(t) : i = Len(s) + j
      BY <2>2
    <3>2. ~ (t[j].publish \subseteq Closers \cup {"none"})
      BY <1>3, <1>10, <3>1
    <3>3. PICK k \in 1..Len(t) : j < k /\ t[k].publish = {"dashboard.changed"}
      BY <1>10, <3>2 DEF Closing
    <3> QED BY <1>3, <1>6, <3>1, <3>3
  <2> QED BY <1>4, <2>1, <2>2
<1>11. Closing(t) /\ (Due(t) \/ Closing(s)) => Closing(s \o t)
  BY <1>10 DEF Closing
<1> QED BY <1>1, <1>7, <1>8, <1>9, <1>11

LEMMA StepsTail ==
    ASSUME NEW s \in Seq(StepRecords), s # <<>>
    PROVE  /\ \A v : /\ ~ Unsaid(s, v) => ~ Unsaid(Tail(s), v)
                     /\ ~ Unsaid(s, v) /\ Changes(Head(s), v) => Owes(Tail(s), v)
                     /\ Owes(s, v) => Announces(Head(s), v) \/ Owes(Tail(s), v)
           /\ Due(s) => Head(s).publish = {"dashboard.changed"} \/ Due(Tail(s))
           /\ Closing(s) => /\ Closing(Tail(s))
                            /\ Head(s).publish \subseteq Closers \cup {"none"} \/ Due(Tail(s))
<1> DEFINE t == Tail(s)
<1>1. /\ Len(s) \in Nat /\ Len(s) >= 1 /\ Head(s) = s[1]
      /\ t \in Seq(StepRecords) /\ Len(t) = Len(s) - 1 /\ \A i \in 1..Len(t) : t[i] = s[i + 1]
  BY SeqFacts, HeadTailProperties
<1> HIDE DEF t
<1>2. \A i \in 1..Len(t) : i + 1 \in 1..Len(s) /\ s[i + 1] = t[i] /\ 1 < i + 1
  BY <1>1
<1>3. \A i \in 1..Len(s) : i = 1 \/ \E j \in 1..Len(t) : i = j + 1
  <2>1. \A i \in 1..Len(s) : i = 1 \/ (i - 1 \in 1..Len(t) /\ i = (i - 1) + 1)
    BY <1>1
  <2> QED BY <2>1
<1>4. \A i, j \in 1..Len(t) : i + 1 < j + 1 <=> i < j
  BY <1>1
<1>5. 1 \in 1..Len(s)
  BY <1>1
<1>6. \A j \in 1..Len(s) : 1 < j => \E k \in 1..Len(t) : j = k + 1
  <2>1. ~ (1 < 1)
    OBVIOUS
  <2> QED BY <1>3, <2>1
<1>7. ASSUME NEW v, ~ Unsaid(s, v), Unsaid(t, v) PROVE FALSE
  <2>1. PICK i \in 1..Len(t) : Changes(t[i], v) /\ \A j \in 1..Len(t) : i < j => ~ Announces(t[j], v)
    BY <1>7 DEF Unsaid
  <2>2. ASSUME NEW j \in 1..Len(s), i + 1 < j PROVE ~ Announces(s[j], v)
    <3>1. 1 < j
      BY <1>1, <2>2
    <3>2. PICK k \in 1..Len(t) : j = k + 1
      BY <1>6, <3>1
    <3> QED BY <1>2, <1>4, <2>1, <2>2, <3>2
  <2> QED BY <1>2, <1>7, <2>1, <2>2 DEF Unsaid
<1>8. ASSUME NEW v, ~ Unsaid(s, v), Changes(Head(s), v) PROVE Owes(t, v)
  <2>1. PICK j \in 1..Len(s) : 1 < j /\ Announces(s[j], v)
    BY <1>1, <1>5, <1>8 DEF Unsaid
  <2> QED BY <1>2, <1>6, <2>1 DEF Owes
<1>9. ASSUME NEW v, Owes(s, v) PROVE Announces(Head(s), v) \/ Owes(t, v)
  BY <1>1, <1>2, <1>3, <1>9 DEF Owes
<1>10. ASSUME Due(s) PROVE Head(s).publish = {"dashboard.changed"} \/ Due(t)
  <2>1. PICK i \in 1..Len(s) : s[i].publish = {"dashboard.changed"}
    BY <1>10 DEF Due
  <2>2. CASE i = 1
    BY <1>1, <2>1, <2>2
  <2>3. ASSUME NEW j \in 1..Len(t), i = j + 1 PROVE Due(t)
    BY <1>2, <2>1, <2>3 DEF Due
  <2> QED BY <1>3, <2>2, <2>3
<1>11. ASSUME Closing(s) PROVE Closing(t)
  <2>1. ASSUME NEW i \in 1..Len(t), ~ (t[i].publish \subseteq Closers \cup {"none"})
        PROVE  \E k \in 1..Len(t) : i < k /\ t[k].publish = {"dashboard.changed"}
    <3>1. PICK j \in 1..Len(s) : i + 1 < j /\ s[j].publish = {"dashboard.changed"}
      BY <1>2, <1>11, <2>1 DEF Closing
    <3>2. 1 < j
      BY <1>1, <3>1
    <3>3. PICK k \in 1..Len(t) : j = k + 1
      BY <1>6, <3>2
    <3> QED BY <1>2, <1>4, <3>1, <3>3
  <2> QED BY <2>1 DEF Closing
<1>12. ASSUME Closing(s), ~ (Head(s).publish \subseteq Closers \cup {"none"}) PROVE Due(t)
  <2>1. PICK j \in 1..Len(s) : 1 < j /\ s[j].publish = {"dashboard.changed"}
    BY <1>1, <1>5, <1>12 DEF Closing
  <2>2. PICK k \in 1..Len(t) : j = k + 1
    BY <1>6, <2>1
  <2> QED BY <1>2, <2>1, <2>2 DEF Due
<1> QED BY <1>7, <1>8, <1>9, <1>10, <1>11, <1>12 DEF t

\* A single step.
LEMMA OneStep ==
    ASSUME NEW x \in StepRecords
    PROVE  /\ <<x>> \in Seq(StepRecords)
           /\ \A v : /\ Unsaid(<<x>>, v) => Changes(x, v)
                     /\ Announces(x, v) => Owes(<<x>>, v)
           /\ x.publish = {"dashboard.changed"} => Due(<<x>>)
           /\ x.publish \subseteq Closers \cup {"none"} => Closing(<<x>>)
<1>1. <<x>> \in Seq(StepRecords) /\ Len(<<x>>) = 1 /\ <<x>>[1] = x
  OBVIOUS
<1>2. 1..1 = {1}
  OBVIOUS
<1> QED BY <1>1, <1>2 DEF Unsaid, Owes, Due, Closing

LEMMA OperationsAnnounce ==
    \A r \in Routes \cup Rivals : Closing(r.steps) /\ \A v \in Views : ~ Unsaid(r.steps, v)
<1> DEFINE Fine(s) == s \in Seq(StepRecords) /\ Closing(s) /\ \A v \in Views : ~ Unsaid(s, v)
<1>1. ASSUME NEW ps \in SUBSET Parts
      PROVE  /\ Change(ps) \in Seq(StepRecords)
             /\ \A v : Unsaid(Change(ps), v) => \E p \in PartsOf(v) \ {"internal"} : p \in ps
  <2> DEFINE x == [change |-> ps, publish |-> {}]
  <2>1. x \in StepRecords /\ x.change = ps /\ Change(ps) = <<x>>
    BY DEF StepRecords, Change
  <2> QED BY <2>1, OneStep DEF Changes
<1>2. ASSUME NEW t \in Topics
      PROVE  /\ Say(t) \in Seq(StepRecords)
             /\ \A v : ~ Unsaid(Say(t), v) /\ (v \in Refetch(t) => Owes(Say(t), v))
             /\ t = "dashboard.changed" => Due(Say(t)) /\ Closing(Say(t))
  <2> DEFINE x == [change |-> {}, publish |-> {t}]
  <2>1. x \in StepRecords /\ x.change = {} /\ x.publish = {t} /\ Say(t) = <<x>>
    BY DEF StepRecords, Say
  <2> HIDE DEF x
  <2>2. \A v : ~ Changes(x, v) /\ (v \in Refetch(t) => Announces(x, v))
    BY <2>1 DEF Changes, Announces
  <2>3. t = "dashboard.changed" =>
           x.publish = {"dashboard.changed"} /\ x.publish \subseteq Closers \cup {"none"}
    BY <2>1 DEF Closers
  <2> QED BY <2>1, <2>2, <2>3, OneStep
<1>3. Audit \in Seq(StepRecords) /\ Closing(Audit) /\ \A v : ~ Unsaid(Audit, v)
  <2> DEFINE x == [change |-> {}, publish |-> {"audit.changed", "none"}]
  <2>1. x \in StepRecords /\ x.change = {} /\ Audit = <<x>>
    BY DEF StepRecords, Audit, Topics
  <2>2. x.publish \subseteq Closers \cup {"none"} /\ \A v : ~ Changes(x, v)
    BY DEF Closers, Changes
  <2> HIDE DEF x
  <2> QED BY <2>1, <2>2, OneStep
<1>4. <<>> \in Seq(StepRecords) /\ \A v : ~ Unsaid(<<>>, v)
  BY EmptySeq DEF Unsaid
<1>5. Dashboard \in Seq(StepRecords) /\ Due(Dashboard) /\ Closing(Dashboard)
      /\ \A v : ~ Unsaid(Dashboard, v) /\ (v = "dashboard" => Owes(Dashboard, v))
  <2>1. "dashboard.changed" \in Topics /\ Refetch("dashboard.changed") = {"dashboard"}
    BY DEF Topics, Refetch
  <2> QED BY <1>2, <2>1 DEF Dashboard
<1>6. Leases \in Seq(StepRecords)
      /\ \A v : ~ Unsaid(Leases, v) /\ (v \in {"leases", "access"} => Owes(Leases, v))
  <2>1. "leases.changed" \in Topics /\ Refetch("leases.changed") = {"leases"}
        /\ "access.changed" \in Topics /\ Refetch("access.changed") = {"access"}
    BY DEF Topics, Refetch
  <2>2. /\ Say("leases.changed") \in Seq(StepRecords) /\ Say("access.changed") \in Seq(StepRecords)
        /\ \A v : /\ ~ Unsaid(Say("leases.changed"), v) /\ ~ Unsaid(Say("access.changed"), v)
                  /\ v = "leases" => Owes(Say("leases.changed"), v)
                  /\ v = "access" => Owes(Say("access.changed"), v)
    BY <1>2, <2>1
  <2> QED BY <2>2, StepsConcat DEF Leases
<1>7. ASSUME NEW v \in Views, NEW ps \in SUBSET Parts, Unsaid(Change(ps), v)
      PROVE  /\ v = "dashboard" => ps \cap {"vault", "leases", "approvals"} # {}
             /\ v = "access" => ps \cap {"leases", "approvals"} # {}
             /\ v \notin {"dashboard", "access"} => v \in ps
  BY <1>1, <1>7 DEF Views, PartsOf, DashboardParts, AccessParts
<1>8. \A t \in Topics : /\ Say(t) \in Seq(StepRecords)
                        /\ \A v : ~ Unsaid(Say(t), v) /\ (v \in Refetch(t) => Owes(Say(t), v))
  BY <1>2
<1>9. \A ps \in SUBSET Parts : Change(ps) \in Seq(StepRecords)
  BY <1>1
<1>10. \A s, t \in Seq(StepRecords) :
          /\ s \o t \in Seq(StepRecords)
          /\ \A v : ~ Unsaid(t, v) /\ (Owes(t, v) \/ ~ Unsaid(s, v)) => ~ Unsaid(s \o t, v)
          /\ Closing(t) /\ (Due(t) \/ Closing(s)) => Closing(s \o t)
  BY StepsConcat
<1> HIDE DEF StepRecords, Fine
<1>11. /\ SessionParts \in SUBSET Parts /\ {"vault", "internal"} \in SUBSET Parts
       /\ {"vault", "leases"} \in SUBSET Parts /\ {"approvals", "leases"} \in SUBSET Parts
       /\ {"approvals"} \in SUBSET Parts /\ {"policy"} \in SUBSET Parts
       /\ {"config"} \in SUBSET Parts /\ {"profiles"} \in SUBSET Parts
  BY DEF Parts, SessionParts
<1>12. ASSUME NEW v \in Views
       PROVE  /\ Unsaid(Change(SessionParts), v) => v \in {"leases", "access", "dashboard"}
              /\ Unsaid(Change({"vault", "leases"}), v) => v \in {"leases", "access", "dashboard"}
              /\ Unsaid(Change({"vault", "internal"}), v) => v = "dashboard"
              /\ Unsaid(Change({"approvals", "leases"}), v) =>
                    v \in {"approvals", "leases", "access", "dashboard"}
              /\ Unsaid(Change({"approvals"}), v) => v \in {"approvals", "access", "dashboard"}
              /\ Unsaid(Change({"policy"}), v) => v = "policy"
              /\ Unsaid(Change({"config"}), v) => v = "config"
              /\ Unsaid(Change({"profiles"}), v) => v = "profiles"
  BY <1>7, <1>11 DEF Views, SessionParts
<1>13. /\ {"vault.unlocked", "vault.locked", "approvals.changed", "policy.changed", "config.changed",
           "backup.created", "integrations.profiles.changed", "integrations.changed",
           "audit.changed"} \subseteq Topics
       /\ Refetch("approvals.changed") = {"approvals", "access"}
       /\ Refetch("policy.changed") = {"policy"} /\ Refetch("config.changed") = {"config"}
       /\ Refetch("integrations.profiles.changed") = {"profiles"}
  BY DEF Topics, Refetch
<1>14. ASSUME NEW t \in {"vault.unlocked", "vault.locked", "backup.created", "integrations.changed",
                         "audit.changed", "approvals.changed", "policy.changed", "config.changed",
                         "integrations.profiles.changed"}
       PROVE  Say(t) \in Seq(StepRecords) /\ \A v : ~ Unsaid(Say(t), v)
  BY <1>8, <1>13
<1>15. \A v : /\ v \in {"approvals", "access"} => Owes(Say("approvals.changed"), v)
              /\ v = "policy" => Owes(Say("policy.changed"), v)
              /\ v = "config" => Owes(Say("config.changed"), v)
              /\ v = "profiles" => Owes(Say("integrations.profiles.changed"), v)
  BY <1>8, <1>13
\* Operations that end in Dashboard.
<1>16. ASSUME NEW s \in Seq(StepRecords), \A v \in Views : Unsaid(s, v) => v = "dashboard"
       PROVE  Fine(s \o Dashboard)
  BY <1>5, <1>10, <1>16 DEF Fine
<1>17. ASSUME NEW s \in Seq(StepRecords),
              \A v \in Views : Unsaid(s, v) => v \in {"leases", "access", "dashboard"}
       PROVE  Fine(s \o Leases \o Dashboard)
  <2>1. s \o Leases \in Seq(StepRecords) /\ \A v \in Views : Unsaid(s \o Leases, v) => v = "dashboard"
    BY <1>6, <1>10, <1>17
  <2> QED BY <1>16, <2>1
<1>18. Fine(OpenSession(FALSE)) /\ Fine(OpenSession(TRUE))
  <2>1. ASSUME NEW ps \in {{"vault", "leases"}, {"vault", "internal"}}
        PROVE  /\ Change(ps) \o Audit \o Say("vault.unlocked") \in Seq(StepRecords)
               /\ \A v : Unsaid(Change(ps) \o Audit \o Say("vault.unlocked"), v) => Unsaid(Change(ps), v)
    BY <1>3, <1>9, <1>10, <1>11, <1>14, <2>1
  <2>2. Fine(Change({"vault", "leases"}) \o Audit \o Say("vault.unlocked") \o Leases \o Dashboard)
    BY <1>12, <1>17, <2>1
  <2>3. Fine(Change({"vault", "internal"}) \o Audit \o Say("vault.unlocked") \o <<>> \o Dashboard)
    <3> DEFINE s == Change({"vault", "internal"}) \o Audit \o Say("vault.unlocked")
    <3>1. s \in Seq(StepRecords) /\ \A v \in Views : Unsaid(s, v) => v = "dashboard"
      BY <1>12, <2>1
    <3> HIDE DEF s
    <3>2. s \o <<>> \in Seq(StepRecords) /\ \A v \in Views : Unsaid(s \o <<>>, v) => v = "dashboard"
      BY <1>4, <1>10, <3>1
    <3>3. Fine(s \o <<>> \o Dashboard)
      BY <1>16, <3>2
    <3> QED BY <3>3 DEF s
  <2>4. /\ OpenSession(FALSE) =
              Change({"vault", "leases"}) \o Audit \o Say("vault.unlocked") \o Leases \o Dashboard
        /\ OpenSession(TRUE) =
              Change({"vault", "internal"}) \o Audit \o Say("vault.unlocked") \o <<>> \o Dashboard
    BY DEF OpenSession
  <2> QED BY <2>2, <2>3, <2>4
<1>19. ASSUME NEW s \in Seq(StepRecords)
       PROVE  s \o Audit \in Seq(StepRecords) /\ \A v : Unsaid(s \o Audit, v) => Unsaid(s, v)
  BY <1>3, <1>10
<1>20. /\ Fine(RevokeSession) /\ Fine(RevokeAllSessions) /\ Fine(RevokeLease)
       /\ Fine(RevokeAllForConsumer) /\ Fine(LockVault) /\ Fine(RevokeLeases)
  <2> DEFINE s == Change(SessionParts) \o Audit
  <2>1. s \in Seq(StepRecords) /\ \A v : Unsaid(s, v) => Unsaid(Change(SessionParts), v)
    BY <1>9, <1>11, <1>19
  <2>2. Fine(s \o Leases \o Dashboard)
    BY <1>12, <1>17, <2>1
  <2>3. Fine(s \o Audit \o Leases \o Dashboard)
    BY <1>12, <1>17, <1>19, <2>1
  <2>4. Fine(s \o Say("vault.locked") \o Leases \o Dashboard)
    <3>1. /\ s \o Say("vault.locked") \in Seq(StepRecords)
          /\ \A v : Unsaid(s \o Say("vault.locked"), v) => Unsaid(s, v)
      BY <1>10, <1>14, <2>1
    <3> QED BY <1>12, <1>17, <2>1, <3>1
  <2>5. Fine(s \o Change(SessionParts) \o Audit \o Leases \o Dashboard)
    <3>1. /\ s \o Change(SessionParts) \in Seq(StepRecords)
          /\ \A v : Unsaid(s \o Change(SessionParts), v) => Unsaid(s, v) \/ Unsaid(Change(SessionParts), v)
      BY <1>9, <1>10, <1>11, <2>1
    <3>2. /\ s \o Change(SessionParts) \o Audit \in Seq(StepRecords)
          /\ \A v : Unsaid(s \o Change(SessionParts) \o Audit, v) => Unsaid(Change(SessionParts), v)
      BY <1>19, <2>1, <3>1
    <3> QED BY <1>12, <1>17, <3>2
  <2> QED BY <2>2, <2>3, <2>4, <2>5
          DEF RevokeSession, RevokeAllSessions, RevokeLease, RevokeAllForConsumer, LockVault, RevokeLeases
<1>21. Fine(DecideApproval(TRUE)) /\ Fine(DecideApproval(FALSE))
  <2>1. ASSUME NEW ps \in {{"approvals", "leases"}, {"approvals"}}
        PROVE  LET s == Change(ps) \o Audit \o Say("approvals.changed")
               IN  /\ s \in Seq(StepRecords)
                   /\ \A v : Unsaid(s, v) => Unsaid(Change(ps), v) /\ v \notin {"approvals", "access"}
    BY <1>3, <1>9, <1>10, <1>11, <1>14, <1>15, <2>1
  <2>2. Fine(Change({"approvals", "leases"}) \o Audit \o Say("approvals.changed") \o Leases \o Dashboard)
    <3> DEFINE s == Change({"approvals", "leases"}) \o Audit \o Say("approvals.changed")
    <3>1. s \in Seq(StepRecords) /\ \A v \in Views : Unsaid(s, v) => v \in {"leases", "access", "dashboard"}
      BY <1>12, <2>1
    <3> HIDE DEF s
    <3>2. Fine(s \o Leases \o Dashboard)
      BY <1>17, <3>1
    <3> QED BY <3>2 DEF s
  <2>3. Fine(Change({"approvals"}) \o Audit \o Say("approvals.changed") \o <<>> \o Dashboard)
    <3> DEFINE s == Change({"approvals"}) \o Audit \o Say("approvals.changed")
    <3>1. s \in Seq(StepRecords) /\ \A v \in Views : Unsaid(s, v) => v = "dashboard"
      BY <1>12, <2>1
    <3> HIDE DEF s
    <3>2. s \o <<>> \in Seq(StepRecords) /\ \A v \in Views : Unsaid(s \o <<>>, v) => v = "dashboard"
      BY <1>4, <1>10, <3>1
    <3>3. Fine(s \o <<>> \o Dashboard)
      BY <1>16, <3>2
    <3> QED BY <3>3 DEF s
  <2> QED BY <2>2, <2>3 DEF DecideApproval
<1>22. Fine(publishQueuedApproval) /\ Fine(SetPolicy) /\ Fine(SetConfig)
  <2>1. ASSUME NEW ps \in SUBSET Parts, NEW t \in {"approvals.changed", "policy.changed", "config.changed"}
        PROVE  /\ Change(ps) \o Say(t) \in Seq(StepRecords)
               /\ \A v : Unsaid(Change(ps) \o Say(t), v) => Unsaid(Change(ps), v) /\ ~ Owes(Say(t), v)
    BY <1>9, <1>10, <1>14, <2>1
  <2>2. Fine(Change({"approvals"}) \o Say("approvals.changed") \o Dashboard)
    BY <1>11, <1>12, <1>15, <1>16, <2>1
  <2>3. Fine(Change({"policy"}) \o Say("policy.changed") \o Dashboard)
    BY <1>11, <1>12, <1>15, <1>16, <2>1
  <2>4. Fine(Change({"config"}) \o Say("config.changed") \o Dashboard)
    BY <1>11, <1>12, <1>15, <1>16, <2>1
  <2> QED BY <2>2, <2>3, <2>4 DEF publishQueuedApproval, SetPolicy, SetConfig
<1>23. Fine(Backup)
  <2> DEFINE s == Change({"config"}) \o Change({"config"}) \o Say("backup.created")
  <2>1. s \in Seq(StepRecords) /\ \A v : Unsaid(s, v) => Unsaid(Change({"config"}), v)
    BY <1>9, <1>10, <1>11, <1>14
  <2> HIDE DEF s
  <2>2. /\ s \o Say("config.changed") \in Seq(StepRecords)
        /\ \A v : Unsaid(s \o Say("config.changed"), v) => Unsaid(s, v) /\ ~ Owes(Say("config.changed"), v)
    BY <1>10, <1>14, <2>1
  <2>3. Fine(s \o Say("config.changed") \o Dashboard)
    BY <1>12, <1>15, <1>16, <2>1, <2>2
  <2> QED BY <2>3 DEF s, Backup
<1>24. Fine(recordIntegrationProfileMutation)
  <2> DEFINE s == Change({"profiles"}) \o Say("integrations.profiles.changed")
  <2>1. /\ s \in Seq(StepRecords)
        /\ \A v : Unsaid(s, v) => /\ Unsaid(Change({"profiles"}), v)
                                  /\ ~ Owes(Say("integrations.profiles.changed"), v)
    BY <1>9, <1>10, <1>11, <1>14
  <2> HIDE DEF s
  <2>2. /\ s \o Say("integrations.changed") \in Seq(StepRecords)
        /\ \A v : Unsaid(s \o Say("integrations.changed"), v) => Unsaid(s, v)
    BY <1>10, <1>14, <2>1
  <2>3. Fine(s \o Say("integrations.changed") \o Dashboard)
    BY <1>12, <1>15, <1>16, <2>1, <2>2
  <2> QED BY <2>3 DEF s, recordIntegrationProfileMutation
<1>25. Fine(DoctorIntegration) /\ Fine(AuditVerify)
  BY <1>14, <1>16 DEF DoctorIntegration, AuditVerify
<1>26. Fine(OpenSession(TRUE) \o Audit) /\ Fine(Audit \o LockVault)
  BY <1>3, <1>10, <1>18, <1>20 DEF Fine
<1>27. ASSUME NEW s, NEW via, Fine(s) PROVE Fine(Route(s, via).steps)
  BY <1>27 DEF Route
<1> HIDE DEF Fine
<1>28. \A r \in SocketRoutes \cup LeaseRoutes : Fine(r.steps)
  BY <1>18, <1>20, <1>22, <1>27 DEF SocketRoutes, LeaseRoutes
<1>29. \A r \in ApprovalRoutes : Fine(r.steps)
  BY <1>21, <1>27 DEF ApprovalRoutes
<1>30. \A r \in IntegrationRoutes \cup PolicyRoutes \cup ConfigRoutes \cup AuditRoutes \cup BackupRoutes :
          Fine(r.steps)
  BY <1>22, <1>23, <1>24, <1>25, <1>27
     DEF IntegrationRoutes, PolicyRoutes, ConfigRoutes, AuditRoutes, BackupRoutes
<1>31. \A r \in VaultRoutes : Fine(r.steps)
  BY <1>18, <1>20, <1>26, <1>27 DEF VaultRoutes
<1>32. \A r \in Rivals : Fine(r.steps)
  BY <1>22, <1>27 DEF Rivals
<1>33. \A r \in Routes \cup Rivals : Fine(r.steps)
  BY <1>28, <1>29, <1>30, <1>31, <1>32 DEF Routes
<1> QED BY <1>33 DEF Fine

-----------------------------------------------------------------------------
(* News of a view *)

\* The events that wait for a client on connection k.
Waits(k) == {k.backlog[i] : i \in 1..Len(k.backlog)} \cup {k.chan[i] : i \in 1..Len(k.chan)}

\* After l there is an event that announces v: it is kept, or it waits among w, or
\* it is lost, which the client will see from the ids.
NewsAhead(l, w, n, h, v) ==
    \E j \in Nat :
        /\ l < j /\ j <= n
        /\ j > Gone(n, h) => v \in Refetch(h[j - Gone(n, h)].name)
        /\ j <= Gone(n, h) => \A e \in w : e.id = j => v \in Refetch(e.name)

LEMMA NewsWaits ==
    ASSUME NEW l, NEW w, NEW w2, NEW n, NEW h, NEW v, NewsAhead(l, w, n, h, v),
           \A e \in w2 : e \in w \/ ~ (e.id <= Gone(n, h))
    PROVE  NewsAhead(l, w2, n, h, v)
<1>1. PICK j \in Nat :
          /\ l < j /\ j <= n
          /\ j > Gone(n, h) => v \in Refetch(h[j - Gone(n, h)].name)
          /\ j <= Gone(n, h) => \A e \in w : e.id = j => v \in Refetch(e.name)
  BY DEF NewsAhead
<1>2. j <= Gone(n, h) => \A e \in w2 : e.id = j => v \in Refetch(e.name)
  BY <1>1
<1> QED BY <1>1, <1>2 DEF NewsAhead

\* Another event is published.
LEMMA NewsLater ==
    ASSUME NEW l \in Nat, NEW n \in Nat, NEW h, NEW n2, NEW h2, Later(n, h, n2, h2),
           NEW w, \A x \in w : x \in Events /\ Told(x, n, h), NEW e, e.id = n + 1,
           NEW w2 \in SUBSET (w \cup {e}), NEW v, NewsAhead(l, w, n, h, v)
    PROVE  NewsAhead(l, w2, n2, h2, v)
<1>1. PICK j \in Nat :
          /\ l < j /\ j <= n
          /\ j > Gone(n, h) => v \in Refetch(h[j - Gone(n, h)].name)
          /\ j <= Gone(n, h) => \A x \in w : x.id = j => v \in Refetch(x.name)
  BY DEF NewsAhead
<1>2. /\ n2 = n + 1 /\ Gone(n, h) \in Nat /\ Gone(n2, h2) \in Nat /\ Gone(n, h) <= Gone(n2, h2)
      /\ \A i \in Nat : Gone(n2, h2) < i /\ i <= n => h2[i - Gone(n2, h2)].name = h[i - Gone(n, h)].name
  BY DEF Later
<1>3. l < j /\ j <= n2 /\ e.id # j
  BY <1>1, <1>2
<1>4. j > Gone(n2, h2) => v \in Refetch(h2[j - Gone(n2, h2)].name)
  <2>1. j > Gone(n2, h2) => j > Gone(n, h)
    BY <1>2
  <2> QED BY <1>1, <1>2, <2>1
<1>5. ASSUME j <= Gone(n2, h2), NEW x \in w2, x.id = j PROVE v \in Refetch(x.name)
  <2>1. x \in w
    BY <1>3, <1>5
  <2>2. CASE j <= Gone(n, h)
    BY <1>1, <1>5, <2>1, <2>2
  <2>3. CASE j > Gone(n, h)
    <3>1. h[j - Gone(n, h)].name = x.name
      BY <1>5, <2>1, <2>3 DEF Told
    <3> QED BY <1>1, <2>3, <3>1
  <2> QED BY <1>2, <2>2, <2>3
<1> QED BY <1>1, <1>3, <1>4, <1>5 DEF NewsAhead

\* The client is shown the next event, or one it was shown before.
LEMMA NewsShown ==
    ASSUME NEW l \in Nat, NEW n \in Nat, NEW h, Gone(n, h) \in Nat, NEW w, NEW w2 \in SUBSET w,
           NEW e \in w, e \in Events, Told(e, n, h), e.id <= l + 1,
           NEW v, v \notin Refetch(e.name), NewsAhead(l, w, n, h, v)
    PROVE  NewsAhead(e.id, w2, n, h, v)
<1>1. PICK j \in Nat :
          /\ l < j /\ j <= n
          /\ j > Gone(n, h) => v \in Refetch(h[j - Gone(n, h)].name)
          /\ j <= Gone(n, h) => \A x \in w : x.id = j => v \in Refetch(x.name)
  BY DEF NewsAhead
<1>2. e.id \in Nat
  BY DEF Events
<1>3. e.id # j
  <2>1. SUFFICES ASSUME e.id = j PROVE FALSE
    OBVIOUS
  <2>2. CASE j <= Gone(n, h)
    BY <1>1, <2>1, <2>2
  <2>3. CASE j > Gone(n, h)
    <3>1. h[j - Gone(n, h)].name = e.name
      BY <2>1, <2>3 DEF Told
    <3> QED BY <1>1, <2>3, <3>1
  <2> QED BY <2>2, <2>3
<1>4. e.id < j
  BY <1>1, <1>2, <1>3
<1>5. \A x \in w2 : x \in w
  OBVIOUS
<1> QED BY <1>1, <1>4, <1>5 DEF NewsAhead

\* What has just been published is kept.
LEMMA NewsPublished ==
    ASSUME NEW n \in Nat, NEW h, NEW t, NEW e, NEW h2, e = [id |-> n + 1, name |-> t],
           Later(n, h, n + 1, h2), Told(e, n + 1, h2),
           NEW l \in Nat, l <= n, NEW w, NEW v \in Refetch(t)
    PROVE  NewsAhead(l, w, n + 1, h2, v)
<1>1. Gone(n + 1, h2) \in Nat /\ Gone(n + 1, h2) <= n
  BY DEF Later
<1>2. n + 1 \in Nat /\ l < n + 1 /\ n + 1 > Gone(n + 1, h2) /\ ~ (n + 1 <= Gone(n + 1, h2))
  BY <1>1
<1>3. h2[(n + 1) - Gone(n + 1, h2)].name = t
  BY <1>2 DEF Told
<1> QED BY <1>2, <1>3 DEF NewsAhead

-----------------------------------------------------------------------------
(* The copies *)

Owed(v) == \E h \in Handlers : Owes(running[h], v)

\* Every operation will announce what it has changed.
OperationsClose ==
    \A h \in Handlers : Closing(running[h]) /\ \A v \in Views : ~ Unsaid(running[h], v)

\* When no operation is still to say "dashboard.changed", the hub's last event is
\* one that every client asks for.
HistoryCloses ==
    (\A h \in Handlers : ~ Due(running[h])) =>
        nextID = 0 \/ (history # <<>> /\ history[Len(history)].name \in Closers)

\* A part of a view that changed since the client fetched it is announced by an
\* operation under way or by an event that the client has not been shown.
CopiesAccounted ==
    \A c \in Clients : known[c] =>
        \A v \in Views : \A p \in PartsOf(v) \ {"internal"} :
            \/ copy[c][v][p] = part[p]
            \/ Owed(v)
            \/ NewsAhead(last[c], Waits(conn[c]), nextID, history, v)

CopiesInv ==
    /\ SInv /\ DOMAIN copy = Clients
    /\ OperationsClose /\ HistoryCloses /\ CopiesAccounted

LEMMA WaitsFacts ==
    ASSUME NEW n \in Nat, NEW h, NEW k \in Conns, ChannelOK(k, n, h)
    PROVE  \A e \in Waits(k) : e \in Events /\ Told(e, n, h)
<1>1. k.chan \in Seq(Events) /\ k.backlog \in Seq(Events)
  BY DEF Conns
<1>2. /\ \A i \in 1..Len(k.chan) : k.chan[i] \in Events /\ Told(k.chan[i], n, h)
      /\ \A i \in 1..Len(k.backlog) : k.backlog[i] \in Events /\ Told(k.backlog[i], n, h)
  BY <1>1, SeqFacts DEF ChannelOK, Run
<1> QED BY <1>2 DEF Waits

\* A publication adds its event at most.
LEMMA WaitsDelivered ==
    ASSUME NEW k \in Conns, NEW e \in Events, NEW k2, k2 = Delivered(k, e)
    PROVE  Waits(k2) \subseteq Waits(k) \cup {e}
<1>1. k.chan \in Seq(Events)
  BY DEF Conns
<1>2. /\ Len(k.chan) \in Nat /\ Len(Append(k.chan, e)) = Len(k.chan) + 1
      /\ \A i \in 1..Len(k.chan) : Append(k.chan, e)[i] = k.chan[i]
      /\ Append(k.chan, e)[Len(k.chan) + 1] = e
  BY <1>1, AppendProperties, SeqFacts
<1>3. \A i \in 1..Len(k.chan) + 1 : i \in 1..Len(k.chan) \/ i = Len(k.chan) + 1
  BY <1>2
<1>4. k2.backlog = k.backlog /\ (k2.chan = k.chan \/ k2.chan = Append(k.chan, e))
  BY DEF Delivered, Conns
<1>5. CASE k2.chan = k.chan
  BY <1>4, <1>5 DEF Waits
<1>6. CASE k2.chan = Append(k.chan, e)
  <2>1. \A i \in 1..Len(k2.chan) : k2.chan[i] \in Waits(k) \cup {e}
    BY <1>2, <1>3, <1>6 DEF Waits
  <2>2. \A i \in 1..Len(k2.backlog) : k2.backlog[i] \in Waits(k) \cup {e}
    BY <1>4 DEF Waits
  <2> QED BY <2>1, <2>2, ZenonT(30) DEF Waits
<1> QED BY <1>4, <1>5, <1>6

\* A read takes an event that waits.
LEMMA ReadTakes ==
    ASSUME SInv, NEW c \in Clients, Read(c)
    PROVE  \/ conn' = [conn EXCEPT ![c] = Off] /\ UNCHANGED clientVars
           \/ \E e, k2 : /\ conn' = [conn EXCEPT ![c] = k2] /\ Shown(c, e)
                         /\ e \in Waits(conn[c]) /\ Waits(k2) \subseteq Waits(conn[c])
<1>0. conn[c] \in Conns /\ conn \in [Clients -> Conns]
  BY DEF SInv, StreamTypeOK
<1>1. conn[c].chan \in Seq(Events) /\ conn[c].backlog \in Seq(Events)
  BY <1>0 DEF Conns
<1>2. ASSUME NEW s \in Seq(Events), s # <<>>
      PROVE  /\ Head(s) = s[1] /\ 1 \in 1..Len(s) /\ Tail(s) \in Seq(Events)
             /\ {Tail(s)[i] : i \in 1..Len(Tail(s))} \subseteq {s[i] : i \in 1..Len(s)}
  <2>1. /\ Len(s) \in Nat /\ Len(s) >= 1 /\ Head(s) = s[1] /\ Tail(s) \in Seq(Events)
        /\ Len(Tail(s)) = Len(s) - 1 /\ \A i \in 1..Len(Tail(s)) : Tail(s)[i] = s[i + 1]
    BY <1>2, SeqFacts, HeadTailProperties
  <2>2. \A i \in 1..Len(Tail(s)) : i + 1 \in 1..Len(s)
    BY <2>1
  <2> QED BY <2>1, <2>2
<1>3. CASE /\ conn[c].backlog # <<>>
           /\ conn' = [conn EXCEPT ![c].backlog = Tail(@)] /\ Shown(c, Head(conn[c].backlog))
  <2>1. PICK k2 : k2 = [conn[c] EXCEPT !.backlog = Tail(@)]
    OBVIOUS
  <2>2. /\ conn' = [conn EXCEPT ![c] = k2] /\ k2 \in Conns /\ k2.chan = conn[c].chan
        /\ k2.backlog = Tail(conn[c].backlog)
    BY <1>0, <1>1, <1>2, <1>3, <2>1 DEF Conns
  <2>3. Waits(k2) \subseteq Waits(conn[c])
    <3> DEFINE left == Tail(conn[c].backlog)
    <3>1. {left[i] : i \in 1..Len(left)} \subseteq {conn[c].backlog[i] : i \in 1..Len(conn[c].backlog)}
      BY <1>1, <1>2, <1>3
    <3>2. k2.backlog = left
      BY <2>2
    <3> HIDE DEF left
    <3> QED BY <2>2, <3>1, <3>2 DEF Waits
  <2>4. Head(conn[c].backlog) \in Waits(conn[c])
    BY <1>1, <1>2, <1>3 DEF Waits
  <2> QED BY <1>3, <2>2, <2>3, <2>4
<1>4. CASE /\ conn[c].backlog = <<>> /\ conn[c].chan # <<>>
           /\ conn' = [conn EXCEPT ![c].chan = Tail(@)] /\ Shown(c, Head(conn[c].chan))
  <2>1. PICK k2 : k2 = [conn[c] EXCEPT !.chan = Tail(@)]
    OBVIOUS
  <2>2. /\ conn' = [conn EXCEPT ![c] = k2] /\ k2 \in Conns /\ k2.backlog = conn[c].backlog
        /\ k2.chan = Tail(conn[c].chan)
    BY <1>0, <1>1, <1>2, <1>4, <2>1 DEF Conns
  <2>3. Waits(k2) \subseteq Waits(conn[c])
    <3> DEFINE left == Tail(conn[c].chan)
    <3>1. {left[i] : i \in 1..Len(left)} \subseteq {conn[c].chan[i] : i \in 1..Len(conn[c].chan)}
      BY <1>1, <1>2, <1>4
    <3>2. k2.chan = left
      BY <2>2
    <3> HIDE DEF left
    <3> QED BY <2>2, <3>1, <3>2 DEF Waits
  <2>4. Head(conn[c].chan) \in Waits(conn[c])
    BY <1>1, <1>2, <1>4 DEF Waits
  <2> QED BY <1>4, <2>2, <2>3, <2>4
<1> QED BY <1>3, <1>4 DEF Read

\* The parts of the views are parts of the daemon's state.
LEMMA ViewParts == \A v \in Views : PartsOf(v) \ {"internal"} \subseteq Parts
BY DEF Views, PartsOf, DashboardParts, AccessParts, Parts

\* One client's connection changes, and what the client keeps.
LEMMA OneClient ==
    ASSUME CopiesInv, SInv', NEW c \in Clients, NEW k2, conn' = [conn EXCEPT ![c] = k2],
           UNCHANGED <<part, running, history, nextID>>, DOMAIN copy' = Clients,
           \A d \in Clients : d # c => last'[d] = last[d] /\ known'[d] = known[d] /\ copy'[d] = copy[d],
           known'[c] => \A v \in Views : \A p \in PartsOf(v) \ {"internal"} :
               \/ copy'[c][v][p] = part[p]
               \/ Owed(v)
               \/ NewsAhead(last'[c], Waits(k2), nextID, history, v)
    PROVE  CopiesInv'
<1>1. \A d \in Clients : conn'[d] = IF d = c THEN k2 ELSE conn[d]
  BY DEF CopiesInv, SInv, StreamTypeOK
<1>2. part' = part /\ running' = running /\ history' = history /\ nextID' = nextID
  OBVIOUS
<1>3. OperationsClose' /\ HistoryCloses'
  BY <1>2 DEF CopiesInv, OperationsClose, HistoryCloses
<1>4. \A v : Owed(v)' <=> Owed(v)
  BY <1>2 DEF Owed
<1>5. ASSUME NEW d \in Clients, known'[d], NEW v \in Views, NEW p \in PartsOf(v) \ {"internal"}
      PROVE  \/ copy'[d][v][p] = part[p]
             \/ Owed(v)
             \/ NewsAhead(last'[d], Waits(conn'[d]), nextID, history, v)
  <2>1. CASE d = c
    BY <1>1, <1>5, <2>1
  <2>2. CASE d # c
    <3>1. known[d] /\ last'[d] = last[d] /\ copy'[d] = copy[d] /\ conn'[d] = conn[d]
      BY <1>1, <1>5, <2>2
    <3> QED BY <3>1, <1>5 DEF CopiesInv, CopiesAccounted
  <2> QED BY <2>1, <2>2
<1>6. CopiesAccounted'
  BY <1>2, <1>4, <1>5 DEF CopiesAccounted
<1> QED BY <1>3, <1>6 DEF CopiesInv

\* The client is not shown anything: what newly waits for it is still kept.
LEMMA QuietClient ==
    ASSUME CopiesInv, SInv', NEW c \in Clients, NEW k2, conn' = [conn EXCEPT ![c] = k2],
           UNCHANGED <<part, running, history, nextID, clientVars>>,
           \A e \in Waits(k2) : e \in Waits(conn[c]) \/ ~ (e.id <= Gone(nextID, history))
    PROVE  CopiesInv'
<1>1. last' = last /\ known' = known /\ copy' = copy
  BY DEF clientVars
<1>2. ASSUME NEW v, NewsAhead(last[c], Waits(conn[c]), nextID, history, v)
      PROVE  NewsAhead(last[c], Waits(k2), nextID, history, v)
  BY <1>2, NewsWaits
<1>3. ASSUME known[c], NEW v \in Views, NEW p \in PartsOf(v) \ {"internal"}
      PROVE  \/ copy[c][v][p] = part[p]
             \/ Owed(v)
             \/ NewsAhead(last[c], Waits(k2), nextID, history, v)
  BY <1>2, <1>3 DEF CopiesInv, CopiesAccounted
<1>4. DOMAIN copy = Clients
  BY DEF CopiesInv
<1> QED BY <1>1, <1>3, <1>4, OneClient

\* The client is shown an event that waited, and fetches what it names, and
\* everything when it cannot go on from what it was shown before.
LEMMA ShownCopies ==
    ASSUME CopiesInv, SInv', NEW c \in Clients, NEW e, NEW k2, conn' = [conn EXCEPT ![c] = k2],
           Shown(c, e), e \in Waits(conn[c]), Waits(k2) \subseteq Waits(conn[c]),
           UNCHANGED <<part, running, history, nextID>>
    PROVE  CopiesInv'
<1>0. /\ last \in [Clients -> Nat] /\ known \in [Clients -> BOOLEAN] /\ nextID \in Nat
      /\ Gone(nextID, history) \in Nat /\ DOMAIN copy = Clients
  <2>1. history \in Seq(Events) /\ Len(history) <= nextID /\ nextID \in Nat
    BY DEF CopiesInv, SInv, StreamTypeOK, Numbered
  <2> QED BY <2>1, SeqFacts DEF CopiesInv, SInv, StreamTypeOK, Gone
<1>1. e \in Events /\ Told(e, nextID, history) /\ e.id \in Nat
  <2>1. conn[c] \in Conns /\ ChannelOK(conn[c], nextID, history)
    BY DEF CopiesInv, SInv, StreamTypeOK
  <2>2. e \in Events /\ Told(e, nextID, history)
    BY <1>0, <2>1, WaitsFacts
  <2> QED BY <2>2 DEF Events
<1>2. CASE e.name \notin Wants[c]
  BY <1>2, QuietClient DEF Shown
<1>3. CASE e.name \in Wants[c]
  <2> DEFINE new == [v \in Views |->
                        IF ~known[c] \/ e.id > last[c] + 1 \/ v \in Refetch(e.name)
                        THEN Current(v) ELSE copy[c][v]]
  <2>1. /\ last' = [last EXCEPT ![c] = e.id] /\ known' = [known EXCEPT ![c] = TRUE]
        /\ copy' = [copy EXCEPT ![c] = new]
    BY <1>3 DEF Shown
  <2>2. \A v \in Views : new[v] = IF ~known[c] \/ e.id > last[c] + 1 \/ v \in Refetch(e.name)
                                  THEN Current(v) ELSE copy[c][v]
    OBVIOUS
  <2> HIDE DEF new
  <2>3. /\ last'[c] = e.id /\ copy'[c] = new /\ DOMAIN copy' = Clients
        /\ \A d \in Clients : d # c => last'[d] = last[d] /\ known'[d] = known[d] /\ copy'[d] = copy[d]
    BY <1>0, <2>1
  <2>4. ASSUME NEW v \in Views, NEW p \in PartsOf(v) \ {"internal"}
        PROVE  \/ new[v][p] = part[p]
               \/ Owed(v)
               \/ NewsAhead(e.id, Waits(k2), nextID, history, v)
    <3>1. CASE ~known[c] \/ e.id > last[c] + 1 \/ v \in Refetch(e.name)
      <4>1. new[v] = Current(v)
        BY <2>2, <3>1
      <4> QED BY <4>1 DEF Current
    <3>2. CASE known[c] /\ ~ (e.id > last[c] + 1) /\ v \notin Refetch(e.name)
      <4>1. new[v] = copy[c][v]
        BY <2>2, <3>2
      <4>2. \/ copy[c][v][p] = part[p]
            \/ Owed(v)
            \/ NewsAhead(last[c], Waits(conn[c]), nextID, history, v)
        BY <3>2 DEF CopiesInv, CopiesAccounted
      <4>3. last[c] \in Nat /\ e.id <= last[c] + 1
        BY <1>0, <1>1, <3>2
      <4>4. ASSUME NewsAhead(last[c], Waits(conn[c]), nextID, history, v)
            PROVE  NewsAhead(e.id, Waits(k2), nextID, history, v)
        BY <1>0, <1>1, <3>2, <4>3, <4>4, NewsShown
      <4> QED BY <4>1, <4>2, <4>4
    <3> QED BY <3>1, <3>2
  <2> QED BY <2>3, <2>4, OneClient
<1> QED BY <1>2, <1>3

\* What a step of an operation changes and publishes.
LEMMA StepDoes ==
    ASSUME SInv, NEW h \in Handlers, Step(h), NEW x, x = Head(running[h])
    PROVE  /\ running[h] \in Seq(StepRecords) /\ running[h] # <<>> /\ UNCHANGED clientVars
           /\ \A g \in Handlers : running'[g] = IF g = h THEN Tail(running[h]) ELSE running[g]
           /\ \A p \in Parts : p \in x.change \/ part'[p] = part[p]
           /\ \/ UNCHANGED hubVars /\ \A t \in Topics : x.publish # {t}
              \/ \E t \in Topics \cap x.publish : publish(t)
<1>1. running \in [Handlers -> Seq(StepRecords)] /\ running[h] # <<>>
  BY DEF SInv, StreamTypeOK, Step
<1>2. x \in StepRecords
  BY <1>1, HeadTailProperties
<1>3. x.publish \in SUBSET (Topics \cup {"none"})
  BY <1>2 DEF StepRecords
<1>4. /\ running' = [running EXCEPT ![h] = Tail(running[h])] /\ UNCHANGED clientVars
      /\ part' = [p \in Parts |-> IF p \in x.change THEN part[p] + 1 ELSE part[p]]
      /\ \/ x.publish = {} /\ UNCHANGED hubVars
         \/ "none" \in x.publish /\ UNCHANGED hubVars
         \/ \E t \in x.publish \ {"none"} : publish(t)
  BY DEF Step
<1>5. \A t \in Topics : t # "none"
  BY DEF Topics
<1>6. \A p \in Parts : p \in x.change \/ part'[p] = part[p]
  BY <1>4
<1>7. \A g \in Handlers : running'[g] = IF g = h THEN Tail(running[h]) ELSE running[g]
  BY <1>1, <1>4
<1>8. \/ UNCHANGED hubVars /\ \A t \in Topics : x.publish # {t}
      \/ \E t \in Topics \cap x.publish : publish(t)
  BY <1>3, <1>4, <1>5
<1> QED BY <1>1, <1>4, <1>6, <1>7, <1>8

\* What a publication does to the news of the clients that know the daemon.
LEMMA PublishNews ==
    ASSUME SInv, NEW t \in Topics, publish(t), UNCHANGED clientVars
    PROVE  /\ history' # <<>> /\ history'[Len(history')].name = t
           /\ \A c \in Clients : known[c] => \A v :
                /\ NewsAhead(last[c], Waits(conn[c]), nextID, history, v) =>
                      NewsAhead(last'[c], Waits(conn'[c]), nextID', history', v)
                /\ v \in Refetch(t) => NewsAhead(last'[c], Waits(conn'[c]), nextID', history', v)
<1> DEFINE e == [id |-> nextID + 1, name |-> t]
<1>1. /\ Published(nextID, history, t, e, history') /\ nextID' = nextID + 1
      /\ e = [id |-> nextID + 1, name |-> t] /\ \A c \in Clients : conn'[c] = Delivered(conn[c], e)
  BY DEF publish, Published
<1>2. e.id = nextID + 1 /\ e.name = t
  OBVIOUS
<1> HIDE DEF e
<1>3. Numbered(nextID, history) /\ nextID \in Nat
  BY DEF SInv, StreamTypeOK, Numbered
<1>4. /\ Numbered(nextID + 1, history') /\ Later(nextID, history, nextID + 1, history')
      /\ e \in Events /\ Told(e, nextID + 1, history')
  BY <1>1, <1>3, PublishFacts
<1>5. history' # <<>> /\ history'[Len(history')].name = t
  <2>1. Len(history') \in Nat /\ (history' # <<>> <=> Len(history') >= 1)
    BY <1>4, SeqFacts DEF Numbered
  <2>2. Gone(nextID + 1, history') <= nextID /\ Gone(nextID + 1, history') = (nextID + 1) - Len(history')
    BY <1>4 DEF Later, Gone
  <2>3. nextID + 1 > Gone(nextID + 1, history')
    BY <1>3, <2>1, <2>2
  <2>4. history'[(nextID + 1) - Gone(nextID + 1, history')].name = t
    BY <1>2, <1>4, <2>3 DEF Told
  <2>5. (nextID + 1) - Gone(nextID + 1, history') = Len(history') /\ Len(history') >= 1
    BY <1>3, <2>1, <2>2
  <2> QED BY <2>1, <2>4, <2>5
<1>6. ASSUME NEW c \in Clients, known[c], NEW v
      PROVE  /\ NewsAhead(last[c], Waits(conn[c]), nextID, history, v) =>
                    NewsAhead(last[c], Waits(conn'[c]), nextID + 1, history', v)
             /\ v \in Refetch(t) => NewsAhead(last[c], Waits(conn'[c]), nextID + 1, history', v)
  <2>1. /\ conn[c] \in Conns /\ ChannelOK(conn[c], nextID, history) /\ last[c] \in Nat
        /\ last[c] <= nextID
    BY <1>6 DEF SInv, StreamTypeOK, NoGap
  <2>2. \A x \in Waits(conn[c]) : x \in Events /\ Told(x, nextID, history)
    BY <1>3, <2>1, WaitsFacts
  <2>3. Waits(conn'[c]) \in SUBSET (Waits(conn[c]) \cup {e})
    BY <1>1, <1>4, <2>1, WaitsDelivered
  <2>4. ASSUME NewsAhead(last[c], Waits(conn[c]), nextID, history, v)
        PROVE  NewsAhead(last[c], Waits(conn'[c]), nextID + 1, history', v)
    BY <1>2, <1>3, <1>4, <2>1, <2>2, <2>3, <2>4, NewsLater
  <2>5. ASSUME v \in Refetch(t)
        PROVE  NewsAhead(last[c], Waits(conn'[c]), nextID + 1, history', v)
    BY <1>1, <1>3, <1>4, <2>1, <2>5, NewsPublished
  <2> QED BY <2>4, <2>5
<1> QED BY <1>1, <1>5, <1>6 DEF clientVars

\* A step of an operation: what it changes the operation will still announce, and
\* what it announces is ahead of every client.
LEMMA StepCopies ==
    ASSUME CopiesInv, SInv', NEW h \in Handlers, Step(h)
    PROVE  CopiesInv'
<1> DEFINE x == Head(running[h])
           s == running[h]
<1>0. SInv
  BY DEF CopiesInv
<1>1. /\ s \in Seq(StepRecords) /\ s # <<>>
      /\ last' = last /\ known' = known /\ copy' = copy /\ UNCHANGED clientVars
      /\ \A g \in Handlers : running'[g] = IF g = h THEN Tail(s) ELSE running[g]
      /\ \A p \in Parts : p \in x.change \/ part'[p] = part[p]
      /\ \/ UNCHANGED hubVars /\ \A t \in Topics : x.publish # {t}
         \/ \E t \in Topics \cap x.publish : publish(t)
  BY <1>0, StepDoes DEF clientVars
<1>2. /\ \A v : /\ ~ Unsaid(s, v) => ~ Unsaid(Tail(s), v)
                /\ ~ Unsaid(s, v) /\ Changes(x, v) => Owes(Tail(s), v)
                /\ Owes(s, v) => Announces(x, v) \/ Owes(Tail(s), v)
      /\ Due(s) => x.publish = {"dashboard.changed"} \/ Due(Tail(s))
      /\ Closing(s) => Closing(Tail(s)) /\ (x.publish \subseteq Closers \cup {"none"} \/ Due(Tail(s)))
  BY <1>1, StepsTail
<1> HIDE DEF x, s
<1>3. Closing(s) /\ \A v \in Views : ~ Unsaid(s, v)
  BY DEF CopiesInv, OperationsClose, s
<1>4. OperationsClose'
  <2>1. \A g \in Handlers : Closing(running'[g]) /\ \A v \in Views : ~ Unsaid(running'[g], v)
    BY <1>1, <1>2, <1>3 DEF CopiesInv, OperationsClose
  <2> QED BY <2>1 DEF OperationsClose
<1>5. HistoryCloses'
  <2> SUFFICES ASSUME \A g \in Handlers : ~ Due(running'[g])
               PROVE  nextID' = 0 \/ (history' # <<>> /\ history'[Len(history')].name \in Closers)
    BY DEF HistoryCloses
  <2>1. ~ Due(Tail(s)) /\ \A g \in Handlers : g # h => ~ Due(running[g])
    BY <1>1
  <2>2. x.publish \subseteq Closers \cup {"none"}
    BY <1>2, <1>3, <2>1
  <2>3. CASE UNCHANGED hubVars /\ \A t \in Topics : x.publish # {t}
    <3>1. ~ Due(s)
      BY <1>2, <2>1, <2>3 DEF Topics
    <3>2. \A g \in Handlers : ~ Due(running[g])
      BY <2>1, <3>1 DEF s
    <3> QED BY <2>3, <3>2 DEF CopiesInv, HistoryCloses, hubVars
  <2>4. CASE \E t \in Topics \cap x.publish : publish(t)
    <3>1. PICK t \in Topics \cap x.publish : publish(t)
      BY <2>4
    <3>2. history' # <<>> /\ history'[Len(history')].name = t
      BY <1>0, <1>1, <3>1, PublishNews
    <3>3. t \in Closers
      BY <2>2, <3>1 DEF Topics
    <3> QED BY <3>2, <3>3
  <2> QED BY <1>1, <2>3, <2>4
<1>6. \A v : Owed(v) => Announces(x, v) \/ Owed(v)'
  BY <1>1, <1>2 DEF Owed, s
<1>7. ASSUME NEW c \in Clients, known[c], NEW v \in Views, NEW p \in PartsOf(v) \ {"internal"}
      PROVE  \/ copy[c][v][p] = part'[p]
             \/ Owed(v)'
             \/ NewsAhead(last'[c], Waits(conn'[c]), nextID', history', v)
  <2>1. p \in Parts
    BY ViewParts
  <2>2. CASE p \in x.change
    <3>1. Changes(x, v)
      BY <2>2 DEF Changes
    <3>2. Owes(Tail(s), v)
      BY <1>2, <1>3, <3>1
    <3> QED BY <1>1, <3>2 DEF Owed
  <2>3. CASE part'[p] = part[p]
    <3>1. \/ copy[c][v][p] = part[p] \/ Owed(v)
          \/ NewsAhead(last[c], Waits(conn[c]), nextID, history, v)
      BY <1>7 DEF CopiesInv, CopiesAccounted
    <3>2. CASE UNCHANGED hubVars /\ \A t \in Topics : x.publish # {t}
      <4>1. ~ Announces(x, v)
        BY <3>2 DEF Announces
      <4>2. NewsAhead(last[c], Waits(conn[c]), nextID, history, v) =>
              NewsAhead(last'[c], Waits(conn'[c]), nextID', history', v)
        BY <1>1, <3>2 DEF hubVars
      <4> QED BY <1>6, <2>3, <3>1, <4>1, <4>2
    <3>3. CASE \E t \in Topics \cap x.publish : publish(t)
      <4>1. PICK t \in Topics \cap x.publish : publish(t)
        BY <3>3
      <4>2. /\ NewsAhead(last[c], Waits(conn[c]), nextID, history, v) =>
                 NewsAhead(last'[c], Waits(conn'[c]), nextID', history', v)
            /\ v \in Refetch(t) => NewsAhead(last'[c], Waits(conn'[c]), nextID', history', v)
        BY <1>0, <1>1, <1>7, <4>1, PublishNews
      <4>3. Announces(x, v) => v \in Refetch(t)
        BY <4>1 DEF Announces
      <4> QED BY <1>6, <2>3, <3>1, <4>2, <4>3
    <3> QED BY <1>1, <3>2, <3>3
  <2> QED BY <1>1, <2>1, <2>2, <2>3
<1>8. CopiesAccounted'
  BY <1>1, <1>7 DEF CopiesAccounted
<1> QED BY <1>1, <1>4, <1>5, <1>8 DEF CopiesInv

LEMMA BeginCopies ==
    ASSUME CopiesInv, SInv', NEW h \in Handlers, Begin(h)
    PROVE  CopiesInv'
<1>1. PICK r \in Routes \cup Rivals : running' = [running EXCEPT ![h] = r.steps]
  BY DEF Begin
<1>2. /\ running[h] = <<>> /\ UNCHANGED <<part, hubVars, clientVars>>
  BY DEF Begin
<1>3. \A g \in Handlers : running'[g] = IF g = h THEN r.steps ELSE running[g]
  BY <1>1 DEF CopiesInv, SInv, StreamTypeOK
<1>4. /\ part' = part /\ history' = history /\ nextID' = nextID /\ conn' = conn
      /\ last' = last /\ known' = known /\ copy' = copy
  BY <1>2 DEF hubVars, clientVars
<1>5. Closing(r.steps) /\ \A v \in Views : ~ Unsaid(r.steps, v)
  BY OperationsAnnounce
<1>6. ~ Due(running[h]) /\ \A v : ~ Owes(running[h], v)
  BY <1>2, EmptySeq DEF Due, Owes
<1>7. OperationsClose'
  <2>1. \A g \in Handlers : Closing(running'[g]) /\ \A v \in Views : ~ Unsaid(running'[g], v)
    BY <1>3, <1>5 DEF CopiesInv, OperationsClose
  <2> QED BY <2>1 DEF OperationsClose
<1>8. (\A g \in Handlers : ~ Due(running'[g])) => \A g \in Handlers : ~ Due(running[g])
  BY <1>3, <1>6
<1>9. HistoryCloses'
  BY <1>4, <1>8 DEF CopiesInv, HistoryCloses
<1>10. \A v : Owed(v) => Owed(v)'
  BY <1>3, <1>6 DEF Owed
<1>11. CopiesAccounted'
  BY <1>4, <1>10 DEF CopiesInv, CopiesAccounted
<1> QED BY <1>4, <1>7, <1>9, <1>11 DEF CopiesInv

LEMMA ViewsInitCopies == ViewsInit => CopiesInv
<1> SUFFICES ASSUME ViewsInit PROVE CopiesInv
  OBVIOUS
<1>1. SInv
  BY ViewsInitSInv
<1>2. /\ \A h \in Handlers : running[h] = <<>>
      /\ nextID = 0 /\ DOMAIN copy = Clients /\ \A c \in Clients : ~ known[c]
  BY DEF ViewsInit
<1>3. OperationsClose
  BY <1>2, EmptySeq DEF OperationsClose, Closing, Unsaid
<1> QED BY <1>1, <1>2, <1>3 DEF CopiesInv, HistoryCloses, CopiesAccounted

LEMMA ViewsNextCopies == CopiesInv /\ [ViewsNext]_viewsVars => CopiesInv'
<1> SUFFICES ASSUME CopiesInv, [ViewsNext]_viewsVars PROVE CopiesInv'
  OBVIOUS
<1>0. /\ SInv /\ SInv' /\ conn \in [Clients -> Conns] /\ nextID \in Nat
      /\ Numbered(nextID, history) /\ last \in [Clients -> Nat]
  <2>1. SInv
    BY DEF CopiesInv
  <2> QED BY <2>1, ViewsNextSInv DEF SInv, StreamTypeOK, Numbered
<1>1. ASSUME NEW h \in Handlers, Begin(h) PROVE CopiesInv'
  BY <1>0, <1>1, BeginCopies
<1>2. ASSUME NEW h \in Handlers, Step(h) PROVE CopiesInv'
  BY <1>0, <1>2, StepCopies
<1>3. ASSUME NEW c \in Clients, Connect(c) PROVE CopiesInv'
  <2>1. PICK k2 : k2 = [conn[c] EXCEPT !.phase = "on"]
    OBVIOUS
  <2>2. conn' = [conn EXCEPT ![c] = k2] /\ UNCHANGED <<part, running, history, nextID, clientVars>>
    BY <1>0, <1>3, <2>1 DEF Connect
  <2>3. k2.chan = conn[c].chan /\ k2.backlog = conn[c].backlog
    BY <1>0, <2>1 DEF Conns
  <2>4. Waits(k2) = Waits(conn[c])
    BY <2>3 DEF Waits
  <2> QED BY <1>0, <2>2, <2>4, QuietClient
<1>4. ASSUME NEW c \in Clients, Subscribe(c) PROVE CopiesInv'
  <2>1. PICK k2 : k2 = Subscribed(c)
    OBVIOUS
  <2>2. conn' = [conn EXCEPT ![c] = k2] /\ UNCHANGED <<part, running, history, nextID, clientVars>>
    BY <1>4, <2>1 DEF Subscribe
  <2>3. k2.chan = conn[c].chan /\ k2.backlog = conn[c].backlog
    BY <1>0, <2>1 DEF Conns, Subscribed
  <2>4. Waits(k2) = Waits(conn[c])
    BY <2>3 DEF Waits
  <2> QED BY <1>0, <2>2, <2>4, QuietClient
<1>5. ASSUME NEW c \in Clients, Replay(c) PROVE CopiesInv'
  <2>1. PICK k2 : k2 = [conn[c] EXCEPT !.phase = "live", !.backlog = replaySince(last[c])]
    OBVIOUS
  <2>2. conn' = [conn EXCEPT ![c] = k2] /\ UNCHANGED <<part, running, history, nextID, clientVars>>
    BY <1>0, <1>5, <2>1 DEF Replay
  <2>3. k2.chan = conn[c].chan /\ k2.backlog = replaySince(last[c]) /\ last[c] \in Nat
    BY <1>0, <2>1 DEF Conns
  <2>4. \A i \in 1..Len(k2.backlog) : ~ (k2.backlog[i].id <= Gone(nextID, history))
    <3>1. CASE last[c] = 0
      <4>1. k2.backlog = <<>>
        BY <2>3, <3>1 DEF replaySince
      <4> QED BY <4>1, EmptySeq
    <3>2. CASE last[c] # 0
      <4>1. /\ \A i \in 1..Len(k2.backlog) : k2.backlog[i].id > Gone(nextID, history)
            /\ k2.backlog \in Seq(Events)
        BY <1>0, <2>3, <3>2, ReplayFacts
      <4>2. Gone(nextID, history) \in Int
        BY <1>0, SeqFacts DEF Numbered, Gone
      <4>3. \A i \in 1..Len(k2.backlog) : k2.backlog[i].id \in Nat
        <5>1. \A i \in 1..Len(k2.backlog) : k2.backlog[i] \in Events
          BY <4>1, SeqFacts
        <5> QED BY <5>1 DEF Events
      <4> QED BY <4>1, <4>2, <4>3
    <3> QED BY <3>1, <3>2
  <2>5. \A e \in Waits(k2) : e \in Waits(conn[c]) \/ ~ (e.id <= Gone(nextID, history))
    BY <2>3, <2>4 DEF Waits
  <2> QED BY <1>0, <2>2, <2>5, QuietClient
<1>6. ASSUME NEW c \in Clients, conn' = [conn EXCEPT ![c] = Off],
             UNCHANGED <<part, running, history, nextID, clientVars>>
      PROVE  CopiesInv'
  <2>1. Waits(Off) = {}
    BY EmptySeq DEF Waits, Off
  <2> QED BY <1>0, <1>6, <2>1, QuietClient
<1>7. ASSUME NEW c \in Clients, Read(c) PROVE CopiesInv'
  <2>1. UNCHANGED <<part, running, history, nextID>>
    BY <1>7 DEF Read
  <2>2. CASE conn' = [conn EXCEPT ![c] = Off] /\ UNCHANGED clientVars
    BY <1>6, <2>1, <2>2
  <2>3. CASE \E e, k2 : /\ conn' = [conn EXCEPT ![c] = k2] /\ Shown(c, e)
                        /\ e \in Waits(conn[c]) /\ Waits(k2) \subseteq Waits(conn[c])
    BY <1>0, <2>1, <2>3, ShownCopies
  <2> QED BY <1>0, <1>7, <2>2, <2>3, ReadTakes
<1>8. ASSUME NEW c \in Clients, Disconnect(c) PROVE CopiesInv'
  BY <1>6, <1>8 DEF Disconnect
<1>9. CASE RestartDaemon
  <2>1. /\ \A h \in Handlers : running'[h] = <<>>
        /\ nextID' = 0 /\ copy' = copy /\ \A c \in Clients : ~ known'[c]
    BY <1>9 DEF RestartDaemon
  <2>2. OperationsClose'
    BY <2>1, EmptySeq DEF OperationsClose, Closing, Unsaid
  <2> QED BY <1>0, <2>1, <2>2 DEF CopiesInv, HistoryCloses, CopiesAccounted
<1>10. CASE UNCHANGED viewsVars
  <2>1. /\ part' = part /\ running' = running /\ history' = history /\ nextID' = nextID /\ conn' = conn
        /\ last' = last /\ known' = known /\ copy' = copy
    BY <1>10 DEF viewsVars, hubVars, clientVars
  <2>2. \A v : Owed(v)' <=> Owed(v)
    BY <2>1 DEF Owed
  <2>3. CopiesAccounted'
    BY <2>1, <2>2 DEF CopiesInv, CopiesAccounted
  <2> QED BY <1>0, <2>1, <2>3 DEF CopiesInv, OperationsClose, HistoryCloses
<1> QED BY <1>1, <1>2, <1>3, <1>4, <1>5, <1>7, <1>8, <1>9, <1>10 DEF ViewsNext

\* With nothing under way and nothing waiting there is no news ahead: what the
\* client has passed over is kept and of no use to it, or the hub's last event,
\* which it asks for, is still ahead as well.
LEMMA CopiesInvSettled == CopiesInv => SettledCopiesAreCurrent
<1> SUFFICES ASSUME CopiesInv, NEW c \in Clients, Idle, Drained(c), conn[c].sub, known[c],
                    NEW v \in Views, NEW p \in PartsOf(v) \ {"internal"}
             PROVE  copy[c][v][p] = part[p]
  BY DEF SettledCopiesAreCurrent, Fresh
<1>1. \A h \in Handlers : ~ Due(running[h]) /\ ~ Owes(running[h], v)
  BY EmptySeq DEF Idle, Due, Owes
<1>2. ~ Owed(v)
  BY <1>1 DEF Owed
<1>3. /\ Numbered(nextID, history) /\ nextID \in Nat /\ history \in Seq(Events) /\ last[c] \in Nat
      /\ NoGap(conn[c], last[c], Wants[c], nextID, history)
  BY DEF CopiesInv, SInv, StreamTypeOK, Numbered
<1>4. Len(history) \in Nat /\ (history # <<>> <=> Len(history) >= 1) /\ Len(history) <= nextID
      /\ \A i \in 1..Len(history) : history[i] \in Events
  BY <1>3, SeqFacts DEF Numbered
<1>5. Waits(conn[c]) = {}
  BY EmptySeq DEF Waits, Drained
<1>6. \A j \in Nat : last[c] < j /\ j <= nextID => Missable(Wants[c], j, nextID, history)
  BY <1>3 DEF NoGap, Drained, Watches, Front
<1>7. ASSUME NEW t \in Topics, Refetch(t) # {} \/ t \in Closers PROVE t \in Wants[c]
  <2>1. Refetch("dashboard.changed") = {"dashboard"}
    BY DEF Refetch
  <2> QED BY <1>7, <2>1, WantsAssumption DEF Closers
<1>8. ~ NewsAhead(last[c], Waits(conn[c]), nextID, history, v)
  <2> SUFFICES ASSUME NEW j \in Nat, last[c] < j, j <= nextID,
                      j > Gone(nextID, history) =>
                          v \in Refetch(history[j - Gone(nextID, history)].name)
               PROVE  FALSE
    BY DEF NewsAhead
  <2>1. ASSUME NEW i \in Nat, last[c] < i, i <= nextID, i > Gone(nextID, history)
        PROVE  /\ history[i - Gone(nextID, history)].name \in Topics
               /\ history[i - Gone(nextID, history)].name \notin Wants[c]
    <3>1. i - Gone(nextID, history) \in 1..Len(history) /\ ~ (i <= Gone(nextID, history))
      BY <1>3, <1>4, <2>1 DEF Gone
    <3>2. history[i - Gone(nextID, history)] \in Events
      BY <1>4, <3>1
    <3> QED BY <1>6, <2>1, <3>1, <3>2 DEF Missable, Events
  <2>2. CASE j > Gone(nextID, history)
    <3>1. v \in Refetch(history[j - Gone(nextID, history)].name)
      BY <2>2
    <3> QED BY <1>7, <2>1, <2>2, <3>1
  <2>3. CASE ~ (j > Gone(nextID, history))
    <3>1. nextID # 0 /\ last[c] < nextID
      BY <1>3
    <3>2. history # <<>> /\ history[Len(history)].name \in Closers
      BY <1>1, <3>1 DEF CopiesInv, HistoryCloses
    <3>3. nextID > Gone(nextID, history) /\ nextID - Gone(nextID, history) = Len(history)
      BY <1>3, <1>4, <3>2 DEF Gone
    <3> QED BY <1>3, <1>7, <2>1, <3>1, <3>2, <3>3
  <2> QED BY <2>2, <2>3
<1> QED BY <1>2, <1>8 DEF CopiesInv, CopiesAccounted

\* When no operation is under way and a client has read all the daemon sent it,
\* its copies are what the GET handlers would answer: every operation announces
\* each change after it, and an announcement that was dropped shows as a gap in
\* the ids of what follows, for any Buffer and any MaxHistory.
THEOREM SettledCopies == ViewsSpec => []SettledCopiesAreCurrent
<1>1. ViewsInit => CopiesInv
  BY ViewsInitCopies
<1>2. CopiesInv /\ [ViewsNext]_viewsVars => CopiesInv'
  BY ViewsNextCopies
<1>3. CopiesInv => SettledCopiesAreCurrent
  BY CopiesInvSettled
<1> QED BY <1>1, <1>2, <1>3, PTL DEF ViewsSpec

-----------------------------------------------------------------------------
(***************************************************************************)
(* The output of a job: JobOutput.  A client that polls is given each byte *)
(* once and in order and is told of those it cannot get, for any limit,    *)
(* any writes and any moment of the polls, of a command that writes valid  *)
(* UTF-8 only; the receipt of such a command holds the bytes themselves.   *)
(***************************************************************************)

\* Bytes of a command that writes valid UTF-8.
ValidBytes == [at : Nat, ok : {TRUE}]

\* The tail is the last bytes that were written.
TailOf(tail, end) ==
    /\ tail \in Seq(ValidBytes) /\ Len(tail) <= end
    /\ \A i \in 1..Len(tail) : tail[i].at = end - Len(tail) + i

Ascending(s) == \A i, j \in 1..Len(s) : i < j => s[i].at < s[j].at

OutputInv ==
    /\ offset \in Nat /\ nextOffset \in Nat /\ lost \in Nat
    /\ TailOf(output, offset)
    /\ got \in Seq(ValidBytes) /\ Ascending(got)
    /\ jobState # "interrupted" =>
           /\ nextOffset <= offset
           /\ Len(got) + lost = nextOffset
           /\ \A i \in 1..Len(got) : got[i].at <= nextOffset
    /\ jobState = "interrupted" => output = <<>> /\ offset = 0

LEMMA OutputInitInv == OutputInit => OutputInv
<1> SUFFICES ASSUME OutputInit PROVE OutputInv
  OBVIOUS
<1>1. output = <<>> /\ offset = 0 /\ jobState = "running" /\ nextOffset = 0 /\ got = <<>> /\ lost = 0
  BY DEF OutputInit
<1>2. <<>> \in Seq(ValidBytes) /\ Len(<<>>) = 0
  OBVIOUS
<1> QED BY <1>1, <1>2 DEF OutputInv, TailOf, Ascending

\* The last n bytes of a tail are a tail.
LEMMA EndingIsTail ==
    ASSUME NEW s, NEW end \in Nat, TailOf(s, end), NEW n \in Nat, n <= Len(s)
    PROVE  TailOf(Ending(s, n), end) /\ Len(Ending(s, n)) = n
<1> DEFINE m == Len(s) - n + 1
           k == Len(s)
<1>1. s \in Seq(ValidBytes) /\ k \in Nat /\ m \in Int /\ k - m + 1 = n
  BY LenProperties DEF TailOf
<1>2. \A i \in m..k : s[i] \in ValidBytes
  BY <1>1, ElementOfSeq
<1> DEFINE t == SubSeq(s, m, k)
<1> HIDE DEF m, k
<1>3. t \in Seq(ValidBytes) /\ Len(t) = (IF m <= k THEN k - m + 1 ELSE 0)
      /\ \A i \in 1..(k - m + 1) : t[i] = s[m + i - 1]
  BY <1>1, <1>2, SubSeqProperties
<1>4. Len(t) = n /\ \A i \in 1..n : t[i] = s[m + i - 1] /\ m + i - 1 \in 1..k
  BY <1>1, <1>3 DEF m, k
<1>5. \A i \in 1..n : t[i].at = end - n + i
  <2> SUFFICES ASSUME NEW i \in 1..n PROVE t[i].at = end - n + i
    OBVIOUS
  <2>1. t[i].at = end - k + (m + i - 1)
    BY <1>4 DEF TailOf, k
  <2> QED BY <1>1, <2>1
<1>6. Ending(s, n) = t
  BY DEF Ending, t, m, k
<1>7. n <= end
  BY <1>1 DEF TailOf, k
<1> HIDE DEF t
<1> QED BY <1>3, <1>4, <1>5, <1>6, <1>7 DEF TailOf

\* What follows a tail and ends later makes a longer one.
LEMMA TailGrows ==
    ASSUME NEW s, NEW p, NEW end \in Nat, TailOf(s, end), p \in Seq(ValidBytes),
           \A i \in 1..Len(p) : p[i].at = end + i
    PROVE  TailOf(s \o p, end + Len(p))
<1>1. s \in Seq(ValidBytes) /\ Len(s) \in Nat /\ Len(p) \in Nat /\ Len(s) <= end
      /\ \A i \in 1..Len(s) : s[i].at = end - Len(s) + i
  BY LenProperties DEF TailOf
<1>2. s \o p \in Seq(ValidBytes) /\ Len(s \o p) = Len(s) + Len(p)
      /\ \A i \in 1 .. Len(s) + Len(p) : (s \o p)[i] = IF i <= Len(s) THEN s[i] ELSE p[i - Len(s)]
  BY <1>1, ConcatProperties
<1>3. ASSUME NEW i \in 1..(Len(s) + Len(p)) PROVE (s \o p)[i].at = (end + Len(p)) - (Len(s) + Len(p)) + i
  <2>1. CASE i <= Len(s)
    <3>1. (s \o p)[i] = s[i] /\ i \in 1..Len(s)
      BY <1>1, <1>2, <2>1
    <3> QED BY <1>1, <3>1
  <2>2. CASE ~(i <= Len(s))
    <3>1. (s \o p)[i] = p[i - Len(s)] /\ i - Len(s) \in 1..Len(p)
      BY <1>1, <1>2, <2>2
    <3> QED BY <1>1, <3>1
  <2> QED BY <2>1, <2>2
<1> QED BY <1>1, <1>2, <1>3 DEF TailOf

LEMMA WriteOutputInv ==
    ASSUME OutputInv, Validity \subseteq {TRUE}, NEW k \in 1..MaxChunk, WriteOutput(k)
    PROVE  OutputInv'
<1>1. PICK valid \in [1..k -> Validity] :
         output' = Appended(output, [i \in 1..k |-> [at |-> offset + i, ok |-> valid[i]]])
  BY DEF WriteOutput
<1> DEFINE p == [i \in 1..k |-> [at |-> offset + i, ok |-> valid[i]]]
<1>2. k \in Nat /\ offset \in Nat /\ Limit \in Nat
  BY OutputAssumption DEF OutputInv
<1>3. p \in Seq(ValidBytes) /\ Len(p) = k /\ \A i \in 1..k : p[i].at = offset + i
  <2>1. p \in [1..k -> ValidBytes]
    <3> SUFFICES ASSUME NEW i \in 1..k PROVE p[i] \in ValidBytes
      OBVIOUS
    <3>1. valid[i] \in {TRUE}
      OBVIOUS
    <3>2. offset + i \in Nat
      BY <1>2
    <3> HIDE DEF ValidBytes
    <3>3. [at |-> offset + i, ok |-> valid[i]] \in ValidBytes
      BY <3>1, <3>2 DEF ValidBytes
    <3> QED BY <3>3
  <2> QED BY <1>2, <2>1
<1>4. output' = Appended(output, p) /\ offset' = offset + k
      /\ UNCHANGED <<jobState, nextOffset, got, lost>> /\ jobState = "running"
  BY <1>1 DEF WriteOutput
<1> HIDE DEF p
<1>5. TailOf(output, offset) /\ Len(output) \in Nat
  BY LenProperties DEF OutputInv, TailOf
<1>6. TailOf(output', offset')
  <2>1. CASE k >= Limit
    <3>1. TailOf(p, offset + k)
      BY <1>2, <1>3 DEF TailOf
    <3>2. output' = Ending(p, Limit)
      BY <1>3, <1>4, <2>1 DEF Appended
    <3>3. offset + k \in Nat
      BY <1>2
    <3> QED BY <1>2, <1>3, <1>4, <2>1, <3>1, <3>2, <3>3, EndingIsTail
  <2>2. CASE k < Limit
    <3> DEFINE keep == Limit - k
               s == IF Len(output) > keep THEN Ending(output, keep) ELSE output
    <3>1. output' = s \o p /\ keep \in Nat
      BY <1>2, <1>3, <1>4, <2>2 DEF Appended
    <3>2. TailOf(s, offset)
      BY <1>2, <1>5, <3>1, EndingIsTail
    <3> HIDE DEF s
    <3> QED BY <1>2, <1>3, <1>4, <3>1, <3>2, TailGrows
  <2> QED BY <1>2, <2>1, <2>2
<1>7. offset' \in Nat /\ offset <= offset'
  BY <1>2, <1>4
<1>8. jobState' # "interrupted" =>
           /\ nextOffset' <= offset'
           /\ Len(got') + lost' = nextOffset'
           /\ \A i \in 1..Len(got') : got'[i].at <= nextOffset'
  BY <1>2, <1>4, <1>7 DEF OutputInv
<1> QED BY <1>4, <1>6, <1>7, <1>8 DEF OutputInv, Ascending

\* What a poll answers is a tail, and with the bytes that it reports missing it
\* reaches back to where the client was.
LEMMA AnswerIsTail ==
    ASSUME NEW tail, NEW end \in Nat, NEW from \in Nat, TailOf(tail, end)
    PROVE  LET r == OutputSince(tail, end, from) IN
           /\ TailOf(r.out, end) /\ r.omitted \in Nat
           /\ from <= end => from + r.omitted + Len(r.out) = end
<1>1. tail \in Seq(ValidBytes) /\ Len(tail) \in Nat /\ Len(tail) <= end
  BY LenProperties DEF TailOf
<1> DEFINE r == OutputSince(tail, end, from)
<1>2. CASE from >= end
  <2>1. r = [out |-> <<>>, omitted |-> 0]
    BY <1>2 DEF OutputSince
  <2>2. TailOf(<<>>, end) /\ Len(<<>>) = 0
    BY DEF TailOf
  <2> QED BY <1>2, <2>1, <2>2
<1>3. CASE from < end - Len(tail)
  <2>1. r = [out |-> tail, omitted |-> end - Len(tail) - from]
    BY <1>1, <1>3 DEF OutputSince
  <2> QED BY <1>1, <1>3, <2>1
<1>4. CASE from < end /\ ~(from < end - Len(tail))
  <2> DEFINE n == end - from
  <2>1. n \in Nat /\ n <= Len(tail) /\ from - (end - Len(tail)) + 1 = Len(tail) - n + 1
    BY <1>1, <1>4
  <2>2. r = [out |-> SubSeq(tail, from - (end - Len(tail)) + 1, Len(tail)), omitted |-> 0]
    <3>1. ~(from < 0) /\ ~(from >= end) /\ ~(from < end - Len(tail))
      BY <1>1, <1>4
    <3> QED BY <3>1, Zenon DEF OutputSince
  <2>3. r = [out |-> Ending(tail, n), omitted |-> 0]
    BY <2>1, <2>2 DEF Ending
  <2>4. TailOf(Ending(tail, n), end) /\ Len(Ending(tail, n)) = n
    BY <2>1, EndingIsTail
  <2> QED BY <1>1, <1>4, <2>1, <2>3, <2>4
<1> QED BY <1>1, <1>2, <1>3, <1>4

LEMMA PollInv == ASSUME OutputInv, Poll PROVE OutputInv'
<1> DEFINE r == OutputSince(output, offset, nextOffset)
<1>1. got' = got \o r.out /\ lost' = lost + r.omitted /\ nextOffset' = offset
      /\ UNCHANGED <<output, offset, jobState>>
  BY DEF Poll
<1>2. offset \in Nat /\ nextOffset \in Nat /\ lost \in Nat /\ TailOf(output, offset)
      /\ got \in Seq(ValidBytes) /\ Ascending(got) /\ Len(got) \in Nat
  BY LenProperties DEF OutputInv
<1>3. TailOf(r.out, offset) /\ r.omitted \in Nat
      /\ (nextOffset <= offset => nextOffset + r.omitted + Len(r.out) = offset)
  BY <1>2, AnswerIsTail
<1>4. CASE jobState = "interrupted"
  <2>1. output = <<>> /\ offset = 0
    BY <1>4 DEF OutputInv
  <2>2. r.out = <<>> /\ r.omitted = 0
    BY <1>2, <2>1 DEF OutputSince
  <2>3. got' = got
    BY <1>1, <1>2, <2>2, ConcatEmptySeq
  <2>4. 0 \in Nat /\ lost' = lost
    BY <1>1, <1>2, <2>2
  <2> QED BY <1>1, <1>2, <1>4, <2>1, <2>3, <2>4 DEF OutputInv
<1>5. CASE jobState # "interrupted"
  <2> DEFINE out == r.out
             m == r.omitted
  <2>1. nextOffset <= offset /\ Len(got) + lost = nextOffset
        /\ \A i \in 1..Len(got) : got[i].at <= nextOffset
    BY <1>5 DEF OutputInv
  <2>2. out \in Seq(ValidBytes) /\ Len(out) \in Nat /\ m \in Nat
        /\ nextOffset + m + Len(out) = offset
        /\ \A i \in 1..Len(out) : out[i].at = offset - Len(out) + i
    BY <1>3, <2>1, LenProperties DEF TailOf
  <2>3. got' = got \o out /\ lost' = lost + m /\ nextOffset' = offset
    BY <1>1
  <2> HIDE DEF r, out, m
  <2>4. got \o out \in Seq(ValidBytes) /\ Len(got \o out) = Len(got) + Len(out)
        /\ \A i \in 1 .. Len(got) + Len(out) : (got \o out)[i] = IF i <= Len(got) THEN got[i] ELSE out[i - Len(got)]
    BY <1>2, <2>2, ConcatProperties
  <2>5. \A i \in 1..Len(got) : got'[i] = got[i] /\ got'[i].at <= nextOffset /\ got[i].at \in Nat
    <3>1. \A i \in 1..Len(got) : got[i] \in ValidBytes
      BY <1>2, ElementOfSeq
    <3>2. \A i \in 1..Len(got) : got'[i] = got[i]
      BY <1>2, <2>2, <2>3, <2>4
    <3>3. \A i \in 1..Len(got) : got[i].at \in Nat
      BY <3>1 DEF ValidBytes
    <3> QED BY <2>1, <3>2, <3>3
  <2>6. \A i \in (Len(got) + 1)..(Len(got) + Len(out)) :
            got'[i].at = offset - Len(out) + (i - Len(got))
    <3> SUFFICES ASSUME NEW i \in (Len(got) + 1)..(Len(got) + Len(out))
                 PROVE  got'[i].at = offset - Len(out) + (i - Len(got))
      OBVIOUS
    <3>1. i - Len(got) \in 1..Len(out) /\ got'[i] = out[i - Len(got)]
      BY <1>2, <2>2, <2>3, <2>4
    <3> QED BY <2>2, <3>1
  <2>7. Len(got') = Len(got) + Len(out) /\ got' \in Seq(ValidBytes)
    BY <2>3, <2>4
  <2>8. Ascending(got')
    <3> SUFFICES ASSUME NEW i \in 1..(Len(got) + Len(out)), NEW j \in 1..(Len(got) + Len(out)), i < j
                 PROVE  got'[i].at < got'[j].at
      BY <2>7 DEF Ascending
    <3>1. CASE j <= Len(got)
      <4>1. i \in 1..Len(got) /\ j \in 1..Len(got)
        BY <1>2, <2>2, <3>1
      <4> QED BY <1>2, <2>5, <4>1 DEF Ascending
    <3>2. CASE i <= Len(got) /\ ~(j <= Len(got))
      <4>1. i \in 1..Len(got) /\ j \in (Len(got) + 1)..(Len(got) + Len(out))
        BY <1>2, <2>2, <3>2
      <4>2. got'[i].at \in Nat /\ got'[i].at <= nextOffset /\ got'[j].at = offset - Len(out) + (j - Len(got))
        BY <2>5, <2>6, <4>1
      <4> QED BY <1>2, <2>2, <4>1, <4>2
    <3>3. CASE ~(i <= Len(got))
      <4>1. i \in (Len(got) + 1)..(Len(got) + Len(out)) /\ j \in (Len(got) + 1)..(Len(got) + Len(out))
        BY <1>2, <2>2, <3>3
      <4> QED BY <1>2, <2>2, <2>6, <4>1
    <3> QED BY <3>1, <3>2, <3>3
  <2>9. \A i \in 1..Len(got') : got'[i].at <= offset
    <3> SUFFICES ASSUME NEW i \in 1..(Len(got) + Len(out)) PROVE got'[i].at <= offset
      BY <2>7
    <3>1. CASE i <= Len(got)
      <4>1. i \in 1..Len(got)
        BY <1>2, <2>2, <3>1
      <4>2. got'[i].at \in Nat /\ got'[i].at <= nextOffset
        BY <2>5, <4>1
      <4> QED BY <1>2, <2>1, <4>2
    <3>2. CASE ~(i <= Len(got))
      <4>1. i \in (Len(got) + 1)..(Len(got) + Len(out))
        BY <1>2, <2>2, <3>2
      <4> QED BY <1>2, <2>2, <2>6, <4>1
    <3> QED BY <3>1, <3>2
  <2>10. Len(got') + lost' = offset /\ lost' \in Nat
    <3>1. lost + m \in Nat /\ Len(got) + Len(out) + (lost + m) = offset
        <4>1. Len(got) \in Nat /\ lost \in Nat /\ m \in Nat /\ Len(out) \in Nat
        BY <1>2, <2>2
      <4>2. Len(got) + lost = nextOffset
        BY <2>1
      <4>3. nextOffset + m + Len(out) = offset
        BY <2>2
      <4> QED BY <4>1, <4>2, <4>3
    <3> QED BY <2>3, <2>7, <3>1
  <2> QED BY <1>1, <1>2, <1>5, <2>3, <2>7, <2>8, <2>9, <2>10 DEF OutputInv
<1> QED BY <1>4, <1>5

\* The receipt of valid bytes holds them as they are.
LEMMA ValidEncoded == ASSUME NEW s \in Seq(ValidBytes) PROVE Encoded(s) = s
<1>1. Len(s) \in Nat /\ s \in [1..Len(s) -> ValidBytes]
  BY LenProperties
<1>2. ASSUME NEW i \in 1..(Len(s) + 1) PROVE StartsAt(s, i) = i
  <2>1. {j \in 1..(i - 1) : ~s[j].ok} = {}
    <3> SUFFICES ASSUME NEW j \in 1..(i - 1) PROVE s[j].ok
      OBVIOUS
    <3>1. s[j] \in ValidBytes
      BY <1>1
    <3> QED BY <3>1, Zenon DEF ValidBytes
  <2>2. Cardinality({}) = 0
    BY FS_EmptySet
  <2>3. StartsAt(s, i) = i + 2 * 0
    BY <2>1, <2>2 DEF StartsAt
  <2> QED BY <2>3
<1>3. StartsAt(s, Len(s) + 1) - 1 = Len(s)
  <2>1. Len(s) + 1 \in 1..(Len(s) + 1)
    BY <1>1
  <2> QED BY <1>1, <1>2, <2>1
<1> DEFINE Of(n) == CHOOSE i \in 1..Len(s) : StartsAt(s, i) <= n /\ n < StartsAt(s, i + 1)
<1>4. ASSUME NEW n \in 1..Len(s) PROVE [s[Of(n)] EXCEPT !.ok = TRUE] = s[n]
  <2>1. \A i \in 1..Len(s) : StartsAt(s, i) = i /\ StartsAt(s, i + 1) = i + 1
    BY <1>1, <1>2
  <2>2. Of(n) \in 1..Len(s) /\ StartsAt(s, Of(n)) <= n /\ n < StartsAt(s, Of(n) + 1)
    BY <2>1
  <2>3. Of(n) = n
    BY <2>1, <2>2
  <2>4. s[n] \in ValidBytes
    BY <1>1
  <2> QED BY <2>3, <2>4 DEF ValidBytes
<1>5. Encoded(s) = [n \in 1..Len(s) |-> [s[Of(n)] EXCEPT !.ok = TRUE]]
  BY <1>3 DEF Encoded
<1> HIDE DEF Of
<1> QED BY <1>1, <1>4, <1>5

LEMMA SaveReceiptInv == ASSUME OutputInv, SaveReceipt PROVE OutputInv'
<1>1. output' = output
  BY ValidEncoded DEF OutputInv, TailOf, SaveReceipt
<1>2. UNCHANGED <<offset, nextOffset, got, lost>> /\ jobState = "running" /\ jobState' = "saved"
  BY DEF SaveReceipt
<1> QED BY <1>1, <1>2 DEF OutputInv, Ascending

LEMMA InterruptInv == ASSUME OutputInv, Interrupt PROVE OutputInv'
<1>1. output' = <<>> /\ offset' = 0 /\ jobState' = "interrupted" /\ UNCHANGED <<nextOffset, got, lost>>
  BY DEF Interrupt
<1>2. TailOf(<<>>, 0)
  BY DEF TailOf
<1> QED BY <1>1, <1>2 DEF OutputInv, Ascending

LEMMA OutputNextInv ==
    ASSUME Validity \subseteq {TRUE}, OutputInv, [OutputNext]_outputVars PROVE OutputInv'
<1>1. CASE UNCHANGED outputVars
  BY <1>1 DEF OutputInv, outputVars, Ascending
<1> QED BY <1>1, WriteOutputInv, PollInv, SaveReceiptInv, InterruptInv DEF OutputNext

(* The tail is the last bytes written, and what the client was given and   *)
(* told of reaches to where it asks from.                                  *)
THEOREM OutputInvariant ==
    ASSUME Validity \subseteq {TRUE} PROVE OutputSpec => []OutputInv
<1>1. OutputInv /\ [OutputNext]_outputVars => OutputInv'
  BY OutputNextInv
<1> QED BY <1>1, OutputInitInv, PTL DEF OutputSpec

(* Each byte is given once and in order, and each one that is not is      *)
(* counted (jobWriter.Write and jobOutputSince of runtime/jobs.go), for a  *)
(* command that writes valid UTF-8.                                        *)
THEOREM OutputPolledExactly ==
    ASSUME Validity \subseteq {TRUE} PROVE OutputSpec => []PolledExactly
<1>1. OutputInv => PolledExactly
  BY DEF OutputInv, PolledExactly, Ascending
<1> QED BY <1>1, OutputInvariant, PTL
=============================================================================
