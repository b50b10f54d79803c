------------------------- MODULE EventDelivery_proofs -------------------------
(***************************************************************************)
(* Proofs about the sinks that keep a connection, about the event bus,     *)
(* about the reports of losses to the health registry and about the export *)
(* pipeline, for every set of events, subscriptions, publishers, handlers  *)
(* and reporting tasks.                                                    *)
(***************************************************************************)
EXTENDS StreamSinks, EventBus, MCExportPipeline, FiniteSetTheorems, SequenceTheorems, TLAPS

-----------------------------------------------------------------------------
(* The TCP and the syslog sink.  Every line has a place, the number of its *)
(* stream and its number there; the invariant says whose lines there are   *)
(* and which of them may be torn.                                          *)

LineRecord == [e : SinkEvents, whole : BOOLEAN]
Verdicts   == {"new", "lost", "untried", "delivered", "unknown", "aborted"}

Place(i, k) == i \in 1..Len(streams) /\ k \in 1..Len(streams[i])

SinkTypes ==
    /\ sinkKind \in {"tcp", "syslog"} /\ connection \in {"none", "open"}
    /\ sending = NotSending \/ sending \in [at : {"connecting", "writing"}, e : SinkEvents]
    /\ streams \in Seq(Seq(LineRecord)) /\ verdict \in [SinkEvents -> Verdicts]

\* A write has a connection, and a TCP connection is the last stream.
Connected ==
    /\ sending # NotSending => verdict[sending.e] = "new" /\ sending.e \notin Oversized
    /\ sending.at = "writing" => connection = "open"
    /\ sending.at = "connecting" => connection = "none"
    /\ sinkKind = "tcp" /\ connection = "open" => Len(streams) > 0

\* No byte of an event left before its write, and none twice.
WrittenOnce ==
    /\ \A i, k \in Nat : Place(i, k) => verdict[streams[i][k].e] \in {"delivered", "unknown", "aborted"}
    /\ \A i, k, j, m \in Nat :
          Place(i, k) /\ Place(j, m) /\ streams[i][k].e = streams[j][m].e => i = j /\ k = m

DeliveredThere ==
    \A e \in SinkEvents : verdict[e] = "delivered" =>
        \E i, k \in Nat : Place(i, k) /\ streams[i][k] = Line(e, TRUE)

\* After a failed write the stream is not used again.
TornLast ==
    \A i, k \in Nat : Place(i, k) /\ ~streams[i][k].whole /\ verdict[streams[i][k].e] # "aborted" =>
        k = Len(streams[i]) /\ (i < Len(streams) \/ connection = "none" \/ sinkKind = "syslog")

SinkInv == SinkTypes /\ Connected /\ WrittenOnce /\ DeliveredThere /\ TornLast

\* Where the bytes of an event go: a new line behind the last one.
NewLine(i, k, l) ==
    /\ i = Len(streams') /\ k = Len(streams'[i]) /\ Place(i, k)' /\ ~Place(i, k) /\ streams'[i][k] = l
    /\ IF sinkKind = "tcp" THEN i = Len(streams) ELSE i = Len(streams) + 1
    /\ \A j, m \in Nat : Place(j, m) => Place(j, m)' /\ streams'[j][m] = streams[j][m]
    /\ \A j, m \in Nat : Place(j, m)' => Place(j, m) \/ (j = i /\ m = k)
    /\ \A j \in 1..Len(streams) : j # i => j < i /\ Len(streams'[j]) = Len(streams[j])

\* A sequence and what is appended to it.
LEMMA Appended ==
    ASSUME NEW S, NEW q \in Seq(S), NEW x \in S
    PROVE  /\ Append(q, x) \in Seq(S) /\ Len(Append(q, x)) = Len(q) + 1 /\ Len(q) \in Nat
           /\ \A i \in 1..Len(q) : Append(q, x)[i] = q[i]
           /\ Append(q, x)[Len(q) + 1] = x
OBVIOUS

\* What the writes of the two sinks leave.
LEMMA WroteFacts ==
    ASSUME SinkTypes, NEW e \in SinkEvents, NEW amount \in {"half", "all"}, amount = "half" => sinkKind = "tcp",
           Wrote(e, amount), sinkKind = "tcp" => Len(streams) > 0
    PROVE  /\ streams' \in Seq(Seq(LineRecord))
           /\ \E i, k \in Nat : NewLine(i, k, Line(e, amount = "all"))
<1> DEFINE l == Line(e, amount = "all")
<1>1. l \in LineRecord /\ streams \in Seq(Seq(LineRecord)) /\ Len(streams) \in Nat
  BY DEF Line, LineRecord, SinkTypes
<1>n. PICK n \in Nat : n = Len(streams)
  BY <1>1
<1>2. amount = "all" => l = Line(e, TRUE)
  BY DEF Line
<1>3. \A j \in 1..n : streams[j] \in Seq(LineRecord) /\ Len(streams[j]) \in Nat
  BY <1>1, <1>n
<1> HIDE DEF l
<1>4. CASE sinkKind = "syslog"
  <2>1. streams' = Append(streams, <<l>>)
    BY <1>2, <1>4 DEF Wrote
  <2>2. <<l>> \in Seq(LineRecord) /\ Len(<<l>>) = 1 /\ <<l>>[1] = l
    BY <1>1
  <2>3. /\ streams' \in Seq(Seq(LineRecord)) /\ Len(streams') = n + 1
        /\ \A j \in 1..n : streams'[j] = streams[j]
        /\ streams'[n + 1] = <<l>>
    BY <1>1, <1>n, <2>1, <2>2, Appended
  <2>4. \A j \in 1..(n + 1) : j \in 1..n \/ j = n + 1
    BY <1>1
  <2>5. Place(n + 1, 1)' /\ ~Place(n + 1, 1)
    BY <1>n, <2>2, <2>3 DEF Place
  <2>6. \A j, m \in Nat : Place(j, m) => Place(j, m)' /\ streams'[j][m] = streams[j][m]
    BY <1>n, <2>3 DEF Place
  <2>7. \A j, m \in Nat : Place(j, m)' => Place(j, m) \/ (j = n + 1 /\ m = 1)
    <3> SUFFICES ASSUME NEW j \in Nat, NEW m \in Nat, Place(j, m)' PROVE Place(j, m) \/ (j = n + 1 /\ m = 1)
      OBVIOUS
    <3>1. CASE j = n + 1
      <4>1. Len(streams'[j]) = 1
        BY <2>2, <2>3, <3>1
      <4>2. m \in 1..1
        BY <4>1 DEF Place
      <4> QED
        BY <3>1, <4>2
    <3>2. CASE j # n + 1
      BY <1>n, <2>3, <2>4, <3>2 DEF Place
    <3> QED
      BY <3>1, <3>2
  <2>8. \A j \in 1..n : j # n + 1 => j < n + 1 /\ Len(streams'[j]) = Len(streams[j])
    BY <1>1, <2>3
  <2>9. NewLine(n + 1, 1, l)
    BY <1>n, <1>4, <2>2, <2>3, <2>5, <2>6, <2>7, <2>8 DEF NewLine
  <2> QED
    BY <1>1, <2>3, <2>9 DEF l
<1>5. CASE sinkKind = "tcp"
  <2> DEFINE q == streams[n]
  <2>1. n \in 1..n /\ q \in Seq(LineRecord) /\ n > 0
    BY <1>1, <1>n, <1>3, <1>5
  <2>2. streams' = [streams EXCEPT ![n] = Append(q, l)]
    BY <1>n, <1>5 DEF Wrote, l
  <2>p. PICK p \in Nat : p = Len(q)
    BY <2>1
  <2> DEFINE r == Append(q, l)
  <2>3. /\ r \in Seq(LineRecord) /\ Len(r) = Len(q) + 1 /\ Len(q) \in Nat
        /\ \A i \in 1..Len(q) : r[i] = q[i]
        /\ r[Len(q) + 1] = l
    BY <1>1, <2>1, Appended
  <2> HIDE DEF r
  <2>4. /\ streams' \in Seq(Seq(LineRecord)) /\ Len(streams') = n /\ streams'[n] = r
        /\ \A j \in 1..n : j # n => streams'[j] = streams[j]
    BY <1>1, <1>n, <2>1, <2>2, <2>3 DEF r
  <2>5. Place(n, p + 1)' /\ ~Place(n, p + 1)
    BY <1>n, <2>p, <2>1, <2>3, <2>4 DEF Place
  <2>6. \A j, m \in Nat : Place(j, m) => Place(j, m)' /\ streams'[j][m] = streams[j][m]
    <3> SUFFICES ASSUME NEW j \in Nat, NEW m \in Nat, Place(j, m)
                 PROVE  Place(j, m)' /\ streams'[j][m] = streams[j][m]
      OBVIOUS
    <3>1. CASE j = n
      BY <1>n, <2>p, <2>1, <2>3, <2>4, <3>1 DEF Place
    <3>2. CASE j # n
      BY <1>n, <2>4, <3>2 DEF Place
    <3> QED
      BY <3>1, <3>2
  <2>7. \A j, m \in Nat : Place(j, m)' => Place(j, m) \/ (j = n /\ m = p + 1)
    <3> SUFFICES ASSUME NEW j \in Nat, NEW m \in Nat, Place(j, m)'
                 PROVE  Place(j, m) \/ (j = n /\ m = p + 1)
      OBVIOUS
    <3>1. CASE j = n
      BY <1>n, <2>p, <2>1, <2>3, <2>4, <3>1 DEF Place
    <3>2. CASE j # n
      BY <1>n, <2>4, <3>2 DEF Place
    <3> QED
      BY <3>1, <3>2
  <2>8. \A j \in 1..n : j # n => j < n /\ Len(streams'[j]) = Len(streams[j])
    BY <2>4
  <2>9. NewLine(n, p + 1, l)
    BY <1>n, <1>5, <2>p, <2>1, <2>3, <2>4, <2>5, <2>6, <2>7, <2>8 DEF NewLine
  <2> QED
    BY <2>p, <2>4, <2>9 DEF l
<1> QED
  BY <1>4, <1>5 DEF SinkTypes

\* An event that has not been written has no line.
LEMMA NotWritten ==
    ASSUME SinkInv, NEW e \in SinkEvents, verdict[e] \in {"new", "lost", "untried"}, NEW i \in Nat, NEW k \in Nat, Place(i, k)
    PROVE  streams[i][k].e # e /\ streams[i][k].e \in SinkEvents
<1>1. streams[i][k] \in LineRecord
  BY DEF SinkInv, SinkTypes, Place
<1> QED
  BY <1>1 DEF SinkInv, WrittenOnce, LineRecord

\* Nothing is written: the verdict of one unwritten event may change.
LEMMA QuietSend ==
    ASSUME SinkInv, NEW e \in SinkEvents, verdict[e] = "new", NEW v \in Verdicts \ {"delivered"},
           verdict' \in {verdict, [verdict EXCEPT ![e] = v]}, UNCHANGED <<streams, sinkKind>>,
           connection' = connection \/ connection' = "none"
    PROVE  WrittenOnce' /\ DeliveredThere' /\ TornLast'
<1>1. verdict \in [SinkEvents -> Verdicts]
  BY DEF SinkInv, SinkTypes
<1>2. \A i, k \in Nat : Place(i, k)' <=> Place(i, k)
  BY DEF Place
<1>3. \A i, k \in Nat : Place(i, k) => verdict'[streams[i][k].e] = verdict[streams[i][k].e]
  BY <1>1, NotWritten
<1>4. WrittenOnce'
  BY <1>2, <1>3 DEF SinkInv, WrittenOnce
<1>5. \A d \in SinkEvents : verdict'[d] = "delivered" => verdict[d] = "delivered"
  BY <1>1
<1>6. DeliveredThere'
  BY <1>2, <1>5 DEF SinkInv, DeliveredThere
<1>7. TornLast'
  BY <1>2, <1>3 DEF SinkInv, TornLast
<1> QED
  BY <1>4, <1>6, <1>7

\* A line is written: whole and delivered, or torn, and then the connection is
\* closed unless the task was aborted.
LEMMA WrittenLine ==
    ASSUME SinkInv, NEW e \in SinkEvents, verdict[e] = "new", connection = "open", NEW amount \in {"half", "all"},
           NEW i \in Nat, NEW k \in Nat, NewLine(i, k, Line(e, amount = "all")),
           NEW v \in {"delivered", "unknown", "aborted"}, verdict' = [verdict EXCEPT ![e] = v],
           v = "delivered" <=> amount = "all", v = "unknown" => connection' = "none",
           connection' = connection \/ connection' = "none", UNCHANGED sinkKind
    PROVE  WrittenOnce' /\ DeliveredThere' /\ TornLast'
<1>1. verdict \in [SinkEvents -> Verdicts] /\ verdict'[e] = v
      /\ \A d \in SinkEvents \ {e} : verdict'[d] = verdict[d]
  BY DEF SinkInv, SinkTypes, Verdicts
<1>2. \A j, m \in Nat : Place(j, m) => streams[j][m].e # e /\ streams[j][m].e \in SinkEvents
  BY NotWritten
<1>3. /\ streams'[i][k].e = e /\ (amount = "all" => streams'[i][k] = Line(e, TRUE))
      /\ (amount # "all" => ~streams'[i][k].whole)
  <2>1. streams'[i][k] = Line(e, amount = "all")
    BY DEF NewLine
  <2>2. streams'[i][k].e = e /\ streams'[i][k].whole = (amount = "all")
    BY <2>1 DEF Line
  <2>3. amount = "all" => Line(e, amount = "all") = Line(e, TRUE)
    BY DEF Line
  <2> QED
    BY <2>1, <2>2, <2>3, Zenon
<1>4. \A j, m \in Nat : Place(j, m)' =>
        \/ j = i /\ m = k
        \/ Place(j, m) /\ streams'[j][m] = streams[j][m] /\ verdict'[streams[j][m].e] = verdict[streams[j][m].e]
  BY <1>1, <1>2 DEF NewLine
<1>5. WrittenOnce'
  <2>1. \A j, m \in Nat : Place(j, m)' => verdict'[streams'[j][m].e] \in {"delivered", "unknown", "aborted"}
    BY <1>1, <1>3, <1>4 DEF SinkInv, WrittenOnce
  <2>2. \A j, m, a, b \in Nat :
          Place(j, m)' /\ Place(a, b)' /\ streams'[j][m].e = streams'[a][b].e => j = a /\ m = b
    BY <1>2, <1>3, <1>4 DEF SinkInv, WrittenOnce
  <2> QED
    BY <2>1, <2>2 DEF WrittenOnce
<1>6. DeliveredThere'
  <2> SUFFICES ASSUME NEW d \in SinkEvents, verdict'[d] = "delivered"
               PROVE  \E j, m \in Nat : Place(j, m)' /\ streams'[j][m] = Line(d, TRUE)
    BY DEF DeliveredThere, Line
  <2>1. CASE d = e
    BY ZenonT(60), <1>1, <1>3, <2>1 DEF NewLine
  <2>2. CASE d # e
    <3>1. PICK j \in Nat, m \in Nat : Place(j, m) /\ streams[j][m] = Line(d, TRUE)
      BY <1>1, <2>2 DEF SinkInv, DeliveredThere
    <3>2. Place(j, m)' /\ streams'[j][m] = streams[j][m]
      BY <3>1 DEF NewLine
    <3> QED
      BY ZenonT(60), <3>1, <3>2
  <2> QED
    BY <2>1, <2>2
<1>7. TornLast'
  <2> SUFFICES ASSUME NEW j \in Nat, NEW m \in Nat, Place(j, m)', ~streams'[j][m].whole,
                      verdict'[streams'[j][m].e] # "aborted"
               PROVE  m = Len(streams'[j]) /\ (j < Len(streams') \/ connection' = "none" \/ sinkKind' = "syslog")
    BY DEF TornLast
  <2>1. CASE j = i /\ m = k
    <3>1. streams'[i][k].whole = (amount = "all")
      <4>1. streams'[i][k] = Line(e, amount = "all")
        BY DEF NewLine
      <4> QED
        BY <4>1 DEF Line
    <3>2. amount # "all"
      BY <2>1, <3>1, Zenon
    <3> QED
      BY <1>1, <1>3, <2>1, <3>2 DEF NewLine
  <2>2. CASE ~(j = i /\ m = k)
    <3>1. /\ Place(j, m) /\ streams'[j][m] = streams[j][m] /\ verdict[streams[j][m].e] # "aborted"
          /\ j \in 1..Len(streams)
      BY <1>4, <2>2 DEF Place
    <3>2. m = Len(streams[j]) /\ (j < Len(streams) \/ connection = "none" \/ sinkKind = "syslog")
      BY <3>1 DEF SinkInv, TornLast
    <3>3. Len(streams) \in Nat
      BY DEF SinkInv, SinkTypes
    <3>4. j # i /\ j < i
      BY <3>1, <3>2, <3>3 DEF NewLine
    <3> QED
      BY <3>1, <3>2, <3>4 DEF NewLine
  <2> QED
    BY <2>1, <2>2
<1> QED
  BY <1>5, <1>6, <1>7

\* The types and the connection after each step.
LEMMA SinkStep == SinkInv /\ [SinksNext]_streamVars => SinkInv'
<1> SUFFICES ASSUME SinkInv, [SinksNext]_streamVars PROVE SinkInv'
  OBVIOUS
<1> USE DEF Ends
<1>1. /\ verdict \in [SinkEvents -> Verdicts] /\ streams \in Seq(Seq(LineRecord))
      /\ SinkTypes /\ Connected /\ NotSending.at = "idle"
  BY DEF SinkInv, SinkTypes, NotSending
<1>2. ASSUME sending # NotSending
      PROVE  sending \in [at : {"connecting", "writing"}, e : SinkEvents] /\ sending.e \in SinkEvents /\ verdict[sending.e] = "new"
  BY <1>1, <1>2 DEF SinkTypes, Connected
<1>3. ASSUME NEW e \in SinkEvents, send(e) PROVE SinkInv'
  <2>1. WrittenOnce' /\ DeliveredThere' /\ TornLast'
    <3>1. verdict[e] = "new" /\ verdict' \in {verdict, [verdict EXCEPT ![e] = "lost"]}
      BY <1>3 DEF send
    <3>2. "lost" \in Verdicts \ {"delivered"}
      BY DEF Verdicts
    <3> QED
      BY <1>3, <3>1, <3>2, QuietSend DEF send
  <2>2. CASE e \in Oversized
    BY <1>1, <1>3, <2>1, <2>2 DEF send, SinkInv, SinkTypes, Connected, Verdicts
  <2>3. CASE e \notin Oversized
    BY <1>1, <1>3, <2>1, <2>3 DEF send, SinkInv, SinkTypes, Connected
  <2> QED
    BY <2>2, <2>3
<1>4. CASE connects
  <2>1. /\ sending # NotSending /\ sending.at = "connecting" /\ connection' = "open" /\ connection = "none"
        /\ sending' = [sending EXCEPT !.at = "writing"] /\ UNCHANGED <<sinkKind, verdict>>
    BY <1>1, <1>4 DEF connects, Connected
  <2>2. sending' \in [at : {"connecting", "writing"}, e : SinkEvents] /\ sending'.e = sending.e /\ sending'.at = "writing"
    BY <1>2, <2>1
  <2>3. /\ streams' \in Seq(Seq(LineRecord)) /\ Len(streams') >= Len(streams)
        /\ sinkKind = "tcp" => Len(streams') = Len(streams) + 1 /\ streams'[Len(streams) + 1] = <<>>
        /\ sinkKind # "tcp" => streams' = streams
        /\ \A i \in 1..Len(streams) : streams'[i] = streams[i]
    <3>1. <<>> \in Seq(LineRecord)
      OBVIOUS
    <3>2. CASE sinkKind = "tcp"
      BY <1>1, <1>4, <3>1, <3>2, Appended DEF connects
    <3>3. CASE sinkKind # "tcp"
      BY <1>1, <1>4, <3>3 DEF connects
    <3> QED
      BY <3>2, <3>3
  <2>4. Len(streams) \in Nat
    BY <1>1
  <2>5. \A i, k \in Nat : Place(i, k)' <=> Place(i, k)
    <3> SUFFICES ASSUME NEW i \in Nat, NEW k \in Nat PROVE Place(i, k)' <=> Place(i, k)
      OBVIOUS
    <3>1. CASE i = Len(streams) + 1
      BY <2>3, <2>4, <3>1 DEF Place
    <3>2. CASE i # Len(streams) + 1
      BY SMTT(30), <2>3, <2>4, <3>2 DEF Place
    <3> QED
      BY <3>1, <3>2
  <2>6. \A i, k \in Nat : Place(i, k) => streams'[i] = streams[i]
    BY <2>3 DEF Place
  <2>7. WrittenOnce' /\ DeliveredThere'
    <3>1. WrittenOnce'
      BY SMTT(30), <2>1, <2>5, <2>6 DEF SinkInv, WrittenOnce
    <3>2. ASSUME NEW e \in SinkEvents, verdict'[e] = "delivered"
          PROVE  \E i, k \in Nat : Place(i, k)' /\ streams'[i][k] = Line(e, TRUE)
      <4>1. PICK i \in Nat, k \in Nat : Place(i, k) /\ streams[i][k] = Line(e, TRUE)
        BY <2>1, <3>2 DEF SinkInv, DeliveredThere
      <4> QED
        BY <2>5, <2>6, <4>1
    <3> QED
      BY <3>1, <3>2 DEF DeliveredThere, Line
  <2>8. TornLast'
    <3> SUFFICES ASSUME NEW i \in Nat, NEW k \in Nat, Place(i, k)', ~streams'[i][k].whole,
                        verdict'[streams'[i][k].e] # "aborted"
                 PROVE  k = Len(streams'[i]) /\ (i < Len(streams') \/ connection' = "none" \/ sinkKind' = "syslog")
      BY DEF TornLast
    <3>1. Place(i, k) /\ streams'[i] = streams[i]
      BY <2>5, <2>6
    <3>2. k = Len(streams[i]) /\ i \in 1..Len(streams)
      BY <2>1, <3>1 DEF SinkInv, TornLast, Place
    <3> QED
      BY <1>1, <2>1, <2>3, <2>4, <3>1, <3>2 DEF SinkTypes
  <2>9. SinkTypes' /\ Connected'
    <3>1. verdict'[sending'.e] = "new" /\ sending'.e \notin Oversized
      BY <1>1, <1>2, <2>1, <2>2 DEF Connected
    <3>2. sinkKind' = "tcp" => Len(streams') > 0
      BY <2>1, <2>3, <2>4
    <3> QED
      BY <1>1, <2>1, <2>2, <2>3, <3>1, <3>2 DEF SinkTypes, Connected
  <2> QED
    BY <2>7, <2>8, <2>9 DEF SinkInv
<1>5. ASSUME sending' = NotSending, verdict' \in [SinkEvents -> Verdicts], streams' \in Seq(Seq(LineRecord)),
             connection' \in {"none", connection}, UNCHANGED sinkKind, Len(streams') >= Len(streams),
             WrittenOnce', DeliveredThere', TornLast'
      PROVE  SinkInv'
  <2>1. Len(streams) \in Nat /\ Len(streams') \in Nat
    BY <1>1, <1>5
  <2> QED
    BY <1>1, <1>5, <2>1 DEF SinkInv, SinkTypes, Connected
<1>6. ASSUME sending # NotSending, UNCHANGED <<streams, sinkKind>>, connection' \in {"none", connection},
             NEW v \in {"lost", "untried", "unknown", "aborted"}, Ends(v)
      PROVE  SinkInv'
  <2>1. verdict' \in [SinkEvents -> Verdicts] /\ v \in Verdicts \ {"delivered"}
    BY <1>1, <1>2, <1>6 DEF Verdicts
  <2>2. WrittenOnce' /\ DeliveredThere' /\ TornLast'
    BY <1>2, <1>6, <2>1, QuietSend
  <2>3. Len(streams) \in Nat
    BY <1>1
  <2> QED
    BY <1>1, <1>5, <1>6, <2>1, <2>2, <2>3
<1>7. CASE connect_fails
  <2>1. sending # NotSending
    BY <1>1, <1>7 DEF connect_fails
  <2> QED
    BY <1>6, <1>7, <2>1 DEF connect_fails
<1>8. ASSUME sending.at = "writing", NEW amount \in {"half", "all"}, amount = "half" => sinkKind = "tcp",
             Wrote(sending.e, amount), NEW v \in {"delivered", "unknown", "aborted"}, Ends(v),
             v = "delivered" <=> amount = "all", v = "unknown" => connection' = "none",
             connection' \in {"none", connection}, UNCHANGED sinkKind
      PROVE  SinkInv'
  <2>1. sending # NotSending /\ connection = "open" /\ (sinkKind = "tcp" => Len(streams) > 0)
    BY <1>1, <1>8 DEF Connected
  <2>2. sending.e \in SinkEvents /\ verdict[sending.e] = "new"
    BY <1>2, <2>1
  <2>3. /\ streams' \in Seq(Seq(LineRecord))
        /\ \E i, k \in Nat : NewLine(i, k, Line(sending.e, amount = "all"))
    BY <1>1, <1>8, <2>1, <2>2, WroteFacts
  <2>4. PICK i \in Nat, k \in Nat : NewLine(i, k, Line(sending.e, amount = "all"))
    BY <2>3
  <2>5. WrittenOnce' /\ DeliveredThere' /\ TornLast'
    BY <1>8, <2>1, <2>2, <2>4, WrittenLine
  <2>6. Len(streams') >= Len(streams)
    <3>1. Len(streams) \in Nat
      BY <1>1
    <3> QED
      BY <2>4, <3>1 DEF NewLine
  <2>7. verdict' \in [SinkEvents -> Verdicts]
    BY <1>1, <1>8, <2>2 DEF Verdicts
  <2> QED
    BY <1>5, <1>8, <2>3, <2>5, <2>6, <2>7
<1>9. CASE writes
  BY <1>8, <1>9 DEF writes
<1>10. ASSUME sending.at = "writing", NEW amount \in Partly, Wrote(sending.e, amount), UNCHANGED sinkKind,
              NEW v \in {"lost", "unknown", "aborted"}, Ends(v), v = "unknown" => connection' = "none",
              connection' \in {"none", connection}, v = "lost" => sinkKind # "tcp"
       PROVE  SinkInv'
  <2>1. sending # NotSending
    BY <1>1, <1>10
  <2>2. CASE amount = "nothing"
    BY <1>6, <1>10, <2>1, <2>2 DEF Wrote
  <2>3. CASE amount # "nothing"
    <3>1. amount = "half" /\ sinkKind = "tcp"
      BY <1>10, <2>3 DEF Partly
    <3> QED
      BY <1>8, <1>10, <3>1
  <2> QED
    BY <2>2, <2>3
<1>11. CASE write_fails
  <2>1. PICK amount \in Partly : Wrote(sending.e, amount)
    BY <1>11 DEF write_fails
  <2>2. CASE sinkKind = "tcp"
    BY <1>10, <1>11, <2>1, <2>2 DEF write_fails
  <2>3. CASE sinkKind # "tcp"
    BY <1>10, <1>11, <2>1, <2>3 DEF write_fails
  <2> QED
    BY <2>2, <2>3
<1>12. CASE flush_fails
  <2>1. /\ UNCHANGED <<sending, streams, verdict, sinkKind>> /\ sending = NotSending /\ connection' = "none"
    BY <1>12 DEF flush_fails
  <2>2. Len(streams) \in Nat
    BY <1>1
  <2>3. WrittenOnce' /\ DeliveredThere' /\ TornLast'
    BY ZenonT(60), <2>1 DEF SinkInv, WrittenOnce, DeliveredThere, TornLast, Place
  <2> QED
    BY <1>1, <1>5, <2>1, <2>2, <2>3
<1>13. CASE Aborted
  <2>1. CASE sending.at = "writing"
    <3>1. PICK amount \in Partly : Wrote(sending.e, amount)
      BY <1>13, <2>1 DEF Aborted
    <3> QED
      BY <1>10, <1>13, <2>1, <3>1 DEF Aborted
  <2>2. CASE sending.at # "writing"
    BY <1>6, <1>13, <2>2 DEF Aborted
  <2> QED
    BY <2>1, <2>2
<1>14. CASE UNCHANGED streamVars
  BY ZenonT(60), <1>14 DEF streamVars, SinkInv, SinkTypes, Connected, WrittenOnce, DeliveredThere, TornLast, Place
<1> QED
  BY <1>3, <1>4, <1>7, <1>9, <1>11, <1>12, <1>13, <1>14 DEF SinksNext

LEMMA SinkInitInv == SinksInit => SinkInv
<1> SUFFICES ASSUME SinksInit PROVE SinkInv
  OBVIOUS
<1>1. \A i, k \in Nat : ~Place(i, k)
  BY DEF SinksInit, Place
<1>2. SinkTypes /\ Connected
  BY DEF SinksInit, SinkTypes, Connected, Verdicts, NotSending
<1>3. \A e \in SinkEvents : verdict[e] = "new"
  BY DEF SinksInit
<1> QED
  BY <1>1, <1>2, <1>3 DEF SinkInv, WrittenOnce, DeliveredThere, TornLast

\* What the TCP and syslog sinks say of an event is true of the stream: lost, no
\* byte of it left; delivered, its line is there whole and once, and no failed
\* write stands torn before another line (TcpSink::send, SyslogUdpSink::send).
THEOREM LinesAreTruthful == SinksSpec => []LinesTruthful
<1>1. SinkInv => LinesTruthful
  <2> SUFFICES ASSUME SinkInv PROVE LinesTruthful
    OBVIOUS
  <2>1. /\ DOMAIN streams = 1..Len(streams) /\ Len(streams) \in Nat
        /\ \A i \in DOMAIN streams : DOMAIN streams[i] = 1..Len(streams[i]) /\ Len(streams[i]) \in Nat
    BY DEF SinkInv, SinkTypes
  <2>2. \A i \in DOMAIN streams : \A k \in DOMAIN streams[i] : i \in Nat /\ k \in Nat /\ Place(i, k)
    BY <2>1 DEF Place
  <2>3. \A i, k \in Nat : Place(i, k) => i \in DOMAIN streams /\ k \in DOMAIN streams[i]
    BY <2>1 DEF Place
  <2>4. LostNeverLeft
    BY <2>2, NotWritten DEF LostNeverLeft, Lines
  <2>5. ASSUME NEW e \in SinkEvents, verdict[e] = "delivered"
        PROVE  \E i \in DOMAIN streams : \E k \in DOMAIN streams[i] :
                 /\ streams[i][k] = Line(e, TRUE)
                 /\ \A j \in DOMAIN streams : \A m \in DOMAIN streams[j] : <<j, m>> # <<i, k>> => streams[j][m].e # e
    <3>1. PICK i \in Nat, k \in Nat : Place(i, k) /\ streams[i][k] = Line(e, TRUE)
      BY <2>5 DEF SinkInv, DeliveredThere
    <3>2. streams[i][k].e = e
      BY <3>1 DEF Line
    <3>3. \A j \in DOMAIN streams : \A m \in DOMAIN streams[j] : <<j, m>> # <<i, k>> => streams[j][m].e # e
      BY ZenonT(60), <2>2, <3>1, <3>2 DEF SinkInv, WrittenOnce
    <3> QED
      BY <2>3, <3>1, <3>3
  <2>6. ASSUME NEW i \in DOMAIN streams, NEW k \in DOMAIN streams[i], k < Len(streams[i]), ~streams[i][k].whole
        PROVE  verdict[streams[i][k].e] = "aborted"
    <3>1. i \in Nat /\ k \in Nat /\ Place(i, k) /\ Len(streams[i]) \in Nat
      BY <2>1, <2>2
    <3> QED
      BY <2>6, <3>1 DEF SinkInv, TornLast
  <2>7. DeliveredWhole
    BY <2>5, <2>6 DEF DeliveredWhole
  <2> QED
    BY <2>4, <2>7 DEF LinesTruthful
<1> QED
  BY <1>1, SinkInitInv, SinkStep, PTL DEF SinksSpec

\* The TCP sink gives the fanout what the buffering sink gives it: an event is
\* refused before anything of it is written, or it is taken, unknown or aborted
\* once, and that is final (TcpSink::send implements trait EventSink).
THEOREM TcpImplementsContract == SinksSpec => TcpContract
<1> DEFINE status == [e \in SinkEvents |-> IF sinkKind = "tcp" THEN SendStatus(e) ELSE "new"]
<1>1. SinksInit => TcpSends!Init
  BY DEF SinksInit, TcpSends!Init, SendStatus, NotSending
<1>2. SinkInv /\ [SinksNext]_streamVars => [TcpSends!Next]_status
  <2> SUFFICES ASSUME SinkInv, [SinksNext]_streamVars PROVE TcpSends!Next \/ status' = status
    OBVIOUS
  <2>1. SinkTypes /\ Connected /\ verdict \in [SinkEvents -> Verdicts]
    BY DEF SinkInv, SinkTypes
  <2>2. SinkTypes' /\ verdict' \in [SinkEvents -> Verdicts]
    BY SinkStep DEF SinkInv, SinkTypes
  <2>3. sinkKind' = sinkKind
    BY DEF SinksNext, send, connects, connect_fails, writes, write_fails, flush_fails, Aborted, streamVars
  <2>4. CASE sinkKind # "tcp"
    BY <2>3, <2>4
  <2>5. CASE sinkKind = "tcp"
    <3>1. \A e \in SinkEvents : SendStatus(e) \in TcpSends!Status /\ SendStatus(e)' \in TcpSends!Status
      BY <2>1, <2>2 DEF SendStatus, TcpSends!Status, Verdicts
    <3>2. status' \in [SinkEvents -> TcpSends!Status]
      BY <2>3, <2>5, <3>1
    <3>3. ASSUME NEW e \in SinkEvents, SendStatus(e)' # SendStatus(e)
          PROVE  <<SendStatus(e), SendStatus(e)'>> \in TcpSends!Moves
      <4> USE DEF TcpSends!Moves, NotSending, Ends
      <4>1. ASSUME NEW d \in SinkEvents, send(d) PROVE <<SendStatus(e), SendStatus(e)'>> \in TcpSends!Moves
        BY <2>1, <2>2, <3>3, <4>1 DEF send, SendStatus, Verdicts
      <4>2. CASE connects
        BY <2>1, <2>2, <3>3, <4>2 DEF connects, SendStatus, Connected, SinkTypes, Verdicts
      <4>3. CASE connect_fails
        BY <2>1, <2>2, <3>3, <4>3 DEF connect_fails, SendStatus, Connected, SinkTypes, Verdicts
      <4>4. CASE writes \/ write_fails
        BY <2>1, <2>2, <2>5, <3>3, <4>4 DEF writes, write_fails, SendStatus, Connected, SinkTypes, Verdicts
      <4>5. CASE flush_fails \/ UNCHANGED streamVars
        BY <2>1, <2>2, <3>3, <4>5 DEF flush_fails, streamVars, SendStatus, Verdicts
      <4>6. CASE Aborted
        BY <2>1, <2>2, <3>3, <4>6 DEF Aborted, SendStatus, Connected, SinkTypes, Verdicts
      <4> QED
        BY <4>1, <4>2, <4>3, <4>4, <4>5, <4>6 DEF SinksNext
    <3>4. \A e \in SinkEvents : status'[e] # status[e] => <<status[e], status'[e]>> \in TcpSends!Moves
      BY <2>3, <2>5, <3>3
    <3> QED
      BY <3>2, <3>4 DEF TcpSends!Next
  <2> QED
    BY <2>4, <2>5
<1> QED
  BY <1>1, <1>2, SinkInitInv, SinkStep, PTL DEF SinksSpec, TcpContract, TcpSends!Spec

-----------------------------------------------------------------------------
(* The event bus.  Flying are the numbers of the events some publisher is  *)
(* still sending; the counters know of the others.  Deliveries and misses  *)
(* are sets of pairs, so that counting one more event is a disjoint union. *)

Phases == {"new", "adding", "live", "leaving", "closing", "gone"}
PublisherRecord == [at : {"idle", "sending", "processed"}, n : Nat, block : BOOLEAN, todo : SUBSET Subscriptions,
                    delivered : Nat, dropped : Nat, lost : SUBSET Subscriptions]
BusStatsRecord == [emitted : Nat, processed : Nat, withDrops : Nat, completed : Nat, dropped : Nat,
                   subscriber_count : Nat, handler_count : Nat]

BusTypes ==
    /\ subscription \in [Subscriptions -> Phases]
    /\ subscribers = {s \in Subscriptions : subscription[s] \in {"adding", "live"}}
    /\ IsFiniteSet(subscribers) /\ IsFiniteSet(handlers)
    /\ got \in [Subscriptions -> Seq(Nat)]
    /\ handlerCalls \in [count : Nat, clear : Nat]
    /\ publisher \in [Publishers -> PublisherRecord]
    /\ owed \in Seq([to : SUBSET Subscriptions, must : SUBSET Subscriptions])
    /\ busStats \in BusStatsRecord

Sending(p) == publisher[p].at = "sending"
Flying     == {publisher[p].n : p \in {q \in Publishers : Sending(q)}}
Counted    == (1..Len(owed)) \ Flying

\* Who was sent which of the events, and who missed which.
Went(N)   == {x \in Subscriptions \X N : x[2] \in Sent(x[1])}
Short(N)  == {x \in N \X Subscriptions : x[2] \in owed[x[1]].to /\ x[1] \notin Sent(x[2])}
Passed(p) == {x \in Short({publisher[p].n}) : x[2] \notin publisher[p].todo}

\* Every event has one publisher, which has sent it to nobody in its todo.
Snapshots ==
    /\ \A p \in Publishers : ~Sending(p) => publisher[p].n = 0
    /\ \A p \in Publishers : Sending(p) =>
          /\ publisher[p].n \in 1..Len(owed)
          /\ publisher[p].todo \subseteq owed[publisher[p].n].to
          /\ \A s \in publisher[p].todo : publisher[p].n \notin Sent(s)
          /\ \A s \in publisher[p].lost : subscription[s] = "gone"
          /\ ~publisher[p].block => owed[publisher[p].n].must = {}
    /\ \A p, q \in Publishers : Sending(p) /\ Sending(q) /\ publisher[p].n = publisher[q].n => p = q
    /\ \A s \in Subscriptions : \A n \in Sent(s) : n \in 1..Len(owed) /\ s \in owed[n].to

\* Whom a blocking publish owes the event: who has it, left, or is still to come.
Owing ==
    \A n \in 1..Len(owed) : \A s \in owed[n].must :
        \/ n \in Sent(s) \/ subscription[s] = "gone"
        \/ \E p \in Publishers : Sending(p) /\ publisher[p].n = n /\ s \in publisher[p].todo

ChannelTally == \A s \in Subscriptions : IsFiniteSet(Sent(s)) /\ Cardinality(Sent(s)) = Len(got[s])

PublisherTally ==
    \A p \in Publishers : Sending(p) =>
        /\ IsFiniteSet(Went({publisher[p].n})) /\ publisher[p].delivered = Cardinality(Went({publisher[p].n}))
        /\ IsFiniteSet(Passed(p)) /\ publisher[p].dropped = Cardinality(Passed(p))

BusTally ==
    /\ busStats.emitted = Cardinality(Counted)
    /\ IsFiniteSet(Went(Counted)) /\ busStats.completed = Cardinality(Went(Counted))
    /\ IsFiniteSet(Short(Counted)) /\ busStats.dropped = Cardinality(Short(Counted))
    /\ busStats.withDrops = Cardinality({n \in Counted : Missed(n) # {}})

\* The two gauges, wrong at most while a call that counts is under way.
Gauges ==
    /\ (\A s \in Subscriptions : subscription[s] \notin {"adding", "leaving"}) =>
          busStats.subscriber_count = Cardinality(subscribers)
    /\ handlerCalls.count = 0 /\ handlerCalls.clear = 0 => busStats.handler_count <= Cardinality(handlers)

BusInv == BusTypes /\ Snapshots /\ Owing /\ ChannelTally /\ PublisherTally /\ BusTally /\ Gauges

\* The snapshots are sets of subscriptions.
LEMMA OwedTypes ==
    ASSUME BusTypes
    PROVE  \A n \in 1..Len(owed) : owed[n].to \subseteq Subscriptions /\ owed[n].must \subseteq Subscriptions
<1> DEFINE R == [to : SUBSET Subscriptions, must : SUBSET Subscriptions]
<1>1. owed \in Seq(R)
  BY DEF BusTypes
<1>2. \A n \in 1..Len(owed) : owed[n] \in R
  <2> HIDE DEF R
  <2> QED
    BY <1>1
<1> QED
  BY <1>2

\* The counters and publishers after a step that neither sends nor counts.
LEMMA TalliesFrame ==
    ASSUME BusTypes, Snapshots, Owing, ChannelTally, PublisherTally, BusTally,
           publisher' \in [Publishers -> PublisherRecord], UNCHANGED <<got, owed>>,
           \A p \in Publishers : /\ publisher'[p].at = publisher[p].at /\ publisher'[p].n = publisher[p].n
                                 /\ publisher'[p].block = publisher[p].block /\ publisher'[p].todo = publisher[p].todo
                                 /\ publisher'[p].delivered = publisher[p].delivered
                                 /\ publisher'[p].dropped = publisher[p].dropped
                                 /\ publisher'[p].lost \subseteq publisher[p].lost,
           \A s \in Subscriptions : subscription[s] = "gone" => subscription'[s] = "gone",
           busStats'.emitted = busStats.emitted, busStats'.completed = busStats.completed,
           busStats'.dropped = busStats.dropped, busStats'.withDrops = busStats.withDrops
    PROVE  Snapshots' /\ Owing' /\ ChannelTally' /\ PublisherTally' /\ BusTally'
<1>1. \A s \in Subscriptions : Sent(s)' = Sent(s)
  BY DEF Sent
<1>2. \A p \in Publishers : Sending(p)' <=> Sending(p)
  BY DEF Sending
<1>3. Flying' = Flying /\ Counted' = Counted
  BY <1>2 DEF Flying, Counted
<1>4. \A n \in 1..Len(owed) : Missed(n)' = Missed(n)
  <2>1. \A n \in 1..Len(owed) : owed[n].to \subseteq Subscriptions
    BY OwedTypes
  <2> QED
    BY <1>1, <2>1 DEF Missed
<1>5. \A N : Went(N)' = Went(N) /\ Short(N)' = Short(N)
  BY <1>1 DEF Went, Short
<1>6. \A p \in Publishers : Passed(p)' = Passed(p)
  BY <1>5 DEF Passed
<1>7. Snapshots'
  <2>1. \A p \in Publishers : publisher[p] \in PublisherRecord
    BY DEF BusTypes
  <2> QED
    BY <1>1, <1>2, <2>1 DEF Snapshots, PublisherRecord
<1>8. Owing'
  <2>1. \A n \in 1..Len(owed) : owed[n].must \subseteq Subscriptions
    BY OwedTypes
  <2> QED
    BY <1>1, <1>2, <2>1 DEF Owing
<1>9. ChannelTally'
  BY <1>1 DEF ChannelTally
<1>10. PublisherTally'
  BY <1>2, <1>5, <1>6 DEF PublisherTally
<1>11. BusTally'
  <2>1. {n \in Counted' : Missed(n)' # {}} = {n \in Counted : Missed(n) # {}}
    BY <1>3, <1>4 DEF Counted
  <2> QED
    BY <1>3, <1>5, <2>1 DEF BusTally
<1> QED
  BY <1>7, <1>8, <1>9, <1>10, <1>11

\* Subscriptions that come and go, handlers, receives and the bus's own queue.
LEMMA BusQuietStep ==
    ASSUME BusInv,
           \/ \E s \in Subscriptions : \/ subscribe(s) \/ subscribe_counts(s) \/ drop(s) \/ drop_counts(s)
                                       \/ drop_closes(s) \/ Receive(s)
           \/ sender \/ HandlerNext \/ \E p \in Publishers : publish_forgets(p)
           \/ record_processed_event \/ UNCHANGED busVars
    PROVE  BusInv'
<1> USE DEF BusInv
<1>1. ASSUME NEW s \in Subscriptions, subscribe(s) \/ subscribe_counts(s) \/ drop(s) \/ drop_counts(s) \/ drop_closes(s)
      PROVE  BusTypes' /\ Gauges'
  <2> USE DEF SubscriptionMoves, CountSubscribers, BusTypes, BusStatsRecord, Phases
  <2>1. IsFiniteSet(subscribers') /\ Cardinality(subscribers) \in Nat
    <3>1. subscribers' \in {subscribers, subscribers \cup {s}, subscribers \ {s}}
      BY <1>1 DEF subscribe, subscribe_counts, drop, drop_counts, drop_closes
    <3>2. IsFiniteSet(subscribers)
      BY DEF BusTypes, BusStatsRecord
    <3>3. IsFiniteSet(subscribers \cup {s})
      BY ONLY <3>2, FS_AddElement
    <3>4. IsFiniteSet(subscribers \ {s})
      BY ONLY <3>2, FS_RemoveElement
    <3>5. Cardinality(subscribers) \in Nat
      BY ONLY <3>2, FS_CardinalityType
    <3> QED
      BY ONLY <3>1, <3>2, <3>3, <3>4, <3>5
  <2>2. subscription' \in [Subscriptions -> Phases]
    BY ZenonT(60), <1>1 DEF subscribe, subscribe_counts, drop, drop_counts, drop_closes
  <2>3. subscribers' = {t \in Subscriptions : subscription'[t] \in {"adding", "live"}}
    BY ZenonT(60), <1>1 DEF subscribe, subscribe_counts, drop, drop_counts, drop_closes
  <2>4. BusTypes'
    BY ZenonT(60), <1>1, <2>1, <2>2, <2>3 DEF subscribe, subscribe_counts, drop, drop_counts, drop_closes
  <2>5. (\A t \in Subscriptions : subscription'[t] \notin {"adding", "leaving"}) =>
          busStats'.subscriber_count = Cardinality(subscribers')
    BY ZenonT(60), <1>1, <2>1 DEF subscribe, subscribe_counts, drop, drop_counts, drop_closes, Gauges
  <2>6. handlerCalls' = handlerCalls /\ handlers' = handlers /\ busStats'.handler_count = busStats.handler_count
    BY <1>1 DEF subscribe, subscribe_counts, drop, drop_counts, drop_closes
  <2> QED
    BY <2>4, <2>5, <2>6 DEF Gauges
<1>2. ASSUME NEW s \in Subscriptions, subscribe(s) \/ subscribe_counts(s) \/ drop(s) \/ drop_counts(s) \/ drop_closes(s)
      PROVE  BusInv'
  <2>1. \A t \in Subscriptions : subscription[t] = "gone" => subscription'[t] = "gone"
    BY <1>2 DEF subscribe, subscribe_counts, drop, drop_counts, drop_closes, SubscriptionMoves, BusTypes, BusStatsRecord
  <2>2. /\ UNCHANGED <<publisher, got, owed>>
        /\ busStats'.emitted = busStats.emitted /\ busStats'.completed = busStats.completed
        /\ busStats'.dropped = busStats.dropped /\ busStats'.withDrops = busStats.withDrops
    BY <1>2 DEF subscribe, subscribe_counts, drop, drop_counts, drop_closes, CountSubscribers, BusTypes, BusStatsRecord
  <2>3. publisher \in [Publishers -> PublisherRecord]
    BY DEF BusTypes, BusStatsRecord
  <2> QED
    BY <1>1, <1>2, <2>1, <2>2, <2>3, TalliesFrame
<1>3. ASSUME sender \/ UNCHANGED busVars \/ \E s \in Subscriptions : Receive(s)
      PROVE  BusInv'
  <2>1. UNCHANGED <<subscribers, handlers, subscription, got, handlerCalls, publisher, busStats, owed>>
    BY <1>3 DEF sender, busVars, Receive
  <2>2. BusTypes' /\ Gauges'
    BY <2>1 DEF BusTypes, BusStatsRecord, Gauges
  <2>3. publisher \in [Publishers -> PublisherRecord]
    BY DEF BusTypes, BusStatsRecord
  <2> QED
    BY <2>1, <2>2, <2>3, TalliesFrame
<1>4. ASSUME HandlerNext PROVE BusInv'
  <2> USE DEF HandlersBecome, HandlersCounted, register_handler, unregister_handler, clear_handlers,
              register_handler_counts, clear_handlers_counts
  <2>1. UNCHANGED <<subscribers, subscription, got, publisher, owed>>
    BY <1>4 DEF HandlerNext
  <2>2. IsFiniteSet(handlers') /\ Cardinality(handlers) \in Nat /\ Cardinality(handlers') \in Nat
    <3>1. IsFiniteSet(handlers')
      BY SMTT(30), <1>4, FS_AddElement, FS_RemoveElement, FS_EmptySet DEF HandlerNext, BusTypes, BusStatsRecord
    <3> QED
      BY <3>1, FS_CardinalityType DEF BusTypes, BusStatsRecord
  <2>3. \/ /\ busStats' = busStats /\ handlerCalls' \in [count : Nat, clear : Nat]
           /\ handlerCalls'.count > 0 \/ handlerCalls'.clear > 0
        \/ /\ \E n \in {0, Cardinality(handlers)} : busStats' = [busStats EXCEPT !.handler_count = n]
           /\ handlerCalls' \in [count : Nat, clear : Nat] /\ handlers' = handlers
    <3>1. handlerCalls \in [count : Nat, clear : Nat] /\ busStats = busStats
      BY DEF BusTypes, BusStatsRecord
    <3>2. ASSUME NEW S, NEW c \in {"count", "clear"}, HandlersBecome(S, c)
          PROVE  /\ busStats' = busStats /\ handlerCalls' \in [count : Nat, clear : Nat]
                 /\ handlerCalls'.count > 0 \/ handlerCalls'.clear > 0
      BY <3>1, <3>2
    <3>3. ASSUME NEW n, NEW c \in {"count", "clear"}, HandlersCounted(c, n)
          PROVE  /\ busStats' = [busStats EXCEPT !.handler_count = n]
                 /\ handlerCalls' \in [count : Nat, clear : Nat] /\ handlers' = handlers
      BY <3>1, <3>3
    <3> HIDE DEF HandlersBecome, HandlersCounted
    <3> QED
      BY <1>4, <3>2, <3>3 DEF HandlerNext
  <2>4. BusTypes'
    <3>1. handlerCalls' \in [count : Nat, clear : Nat]
      BY <2>3
    <3>2. busStats' \in BusStatsRecord
      <4>1. busStats \in BusStatsRecord
        BY DEF BusTypes, BusStatsRecord
      <4>2. \A n \in Nat : [busStats EXCEPT !.handler_count = n] \in BusStatsRecord
        BY ONLY <4>1 DEF BusStatsRecord
      <4> QED
        BY <2>2, <2>3, <4>1, <4>2
    <3> QED
      BY <2>1, <2>2, <3>1, <3>2 DEF BusTypes, BusStatsRecord
  <2>5. Gauges'
    BY SMTT(30), <2>1, <2>2, <2>3 DEF Gauges, BusTypes, BusStatsRecord
  <2>6. /\ busStats'.emitted = busStats.emitted /\ busStats'.completed = busStats.completed
        /\ busStats'.dropped = busStats.dropped /\ busStats'.withDrops = busStats.withDrops
    BY <2>3 DEF BusTypes, BusStatsRecord
  <2>7. publisher \in [Publishers -> PublisherRecord]
    BY DEF BusTypes, BusStatsRecord
  <2> QED
    BY <2>1, <2>4, <2>5, <2>6, <2>7, TalliesFrame
<1>5. ASSUME NEW p \in Publishers, publish_forgets(p) PROVE BusInv'
  <2> USE <1>5 DEF publish_forgets
  <2>1. subscribers' = subscribers
    BY DEF Snapshots, BusTypes, BusStatsRecord, Sending
  <2>2. Cardinality(subscribers) \in Nat
    BY FS_CardinalityType DEF BusTypes, BusStatsRecord
  <2>3. publisher[p] \in PublisherRecord /\ publisher' = [publisher EXCEPT ![p] = [publisher[p] EXCEPT !.lost = {}]]
    BY DEF BusTypes, BusStatsRecord
  <2>4. publisher' \in [Publishers -> PublisherRecord]
    <3>1. [publisher[p] EXCEPT !.lost = {}] \in PublisherRecord
      BY <2>3 DEF PublisherRecord
    <3> QED
      BY <2>3, <3>1 DEF BusTypes, BusStatsRecord
  <2>5. BusTypes'
    BY <2>1, <2>2, <2>4 DEF BusTypes, BusStatsRecord
  <2>6. Gauges'
    BY <2>1 DEF Gauges, BusTypes, BusStatsRecord
  <2>7. /\ busStats'.emitted = busStats.emitted /\ busStats'.completed = busStats.completed
        /\ busStats'.dropped = busStats.dropped /\ busStats'.withDrops = busStats.withDrops
    BY DEF BusTypes, BusStatsRecord
  <2>8. \A q \in Publishers : /\ publisher'[q].at = publisher[q].at /\ publisher'[q].n = publisher[q].n
                              /\ publisher'[q].block = publisher[q].block /\ publisher'[q].todo = publisher[q].todo
                              /\ publisher'[q].delivered = publisher[q].delivered
                              /\ publisher'[q].dropped = publisher[q].dropped
                              /\ publisher'[q].lost \subseteq publisher[q].lost
    BY SMTT(30), <2>3 DEF BusTypes, BusStatsRecord, PublisherRecord
  <2> QED
    BY <2>4, <2>5, <2>6, <2>7, <2>8, TalliesFrame
<1>6. ASSUME record_processed_event PROVE BusInv'
  <2> USE <1>6 DEF record_processed_event
  <2>1. publisher[Processor] \in PublisherRecord /\ IdlePublisher \in PublisherRecord /\ ~Sending(Processor)
    BY DEF BusTypes, BusStatsRecord, PublisherRecord, IdlePublisher, Sending
  <2>2. publisher' \in [Publishers -> PublisherRecord]
    BY <2>1 DEF BusTypes, BusStatsRecord
  <2>3. BusTypes' /\ Gauges'
    <3>1. busStats' \in BusStatsRecord
      <4>1. busStats \in BusStatsRecord
        BY DEF BusTypes, BusStatsRecord
      <4>2. \A n \in Nat : [busStats EXCEPT !.processed = n] \in BusStatsRecord
        BY ONLY <4>1 DEF BusStatsRecord
      <4>3. busStats.processed + 1 \in Nat
        BY <4>1 DEF BusStatsRecord
      <4> QED
        BY <4>2, <4>3
    <3>2. busStats'.subscriber_count = busStats.subscriber_count /\ busStats'.handler_count = busStats.handler_count
      BY DEF BusTypes, BusStatsRecord
    <3> QED
      BY <2>2, <3>1, <3>2 DEF BusTypes, BusStatsRecord, Gauges
  <2>4. \A q \in Publishers : q # Processor => publisher'[q] = publisher[q]
    BY DEF BusTypes, BusStatsRecord
  <2>5. ~Sending(Processor)' /\ publisher'[Processor].n = 0 /\ publisher[Processor].n = 0
    BY <2>1 DEF Sending, BusTypes, BusStatsRecord, IdlePublisher, Snapshots
  <2>6. \A q \in Publishers : Sending(q)' <=> Sending(q)
    BY <2>1, <2>4, <2>5 DEF Sending
  <2>7. \A s \in Subscriptions : Sent(s)' = Sent(s)
    BY DEF Sent
  <2>8. Flying' = Flying /\ Counted' = Counted
    BY <2>4, <2>5, <2>6 DEF Flying, Counted
  <2>9. \A N : Went(N)' = Went(N) /\ Short(N)' = Short(N)
    BY <2>7 DEF Went, Short
  <2>10. \A n \in 1..Len(owed) : Missed(n)' = Missed(n)
    <3>1. \A n \in 1..Len(owed) : owed[n].to \subseteq Subscriptions
      BY OwedTypes
    <3> QED
      BY <2>7, <3>1 DEF Missed
  <2>11. \A q \in Publishers : Sending(q) => q # Processor /\ Passed(q)' = Passed(q)
    BY <2>1, <2>4, <2>9 DEF Passed
  <2>12. Snapshots' /\ Owing'
    <3>1. Snapshots'
      <4>1. \A q \in Publishers : Sending(q) => publisher'[q] = publisher[q] /\ publisher[q] \in PublisherRecord
        BY <2>1, <2>4 DEF BusTypes, BusStatsRecord
      <4>2. \A q \in Publishers : ~Sending(q) => publisher'[q].n = 0
        BY <2>4, <2>5 DEF Snapshots
      <4> QED
        BY <2>6, <2>7, <4>1, <4>2 DEF Snapshots, PublisherRecord
    <3>2. \A n \in 1..Len(owed) : owed[n].must \subseteq Subscriptions
      BY OwedTypes
    <3> QED
      BY <2>4, <2>6, <2>7, <2>1, <3>1, <3>2 DEF Owing
  <2>13. ChannelTally' /\ PublisherTally'
    BY <2>4, <2>6, <2>7, <2>9, <2>11 DEF ChannelTally, PublisherTally
  <2>14. BusTally'
    <3>1. {n \in Counted' : Missed(n)' # {}} = {n \in Counted : Missed(n) # {}}
      BY <2>8, <2>10 DEF Counted
    <3> QED
      BY <2>8, <2>9, <3>1 DEF BusTally, BusTypes, BusStatsRecord
  <2> QED
    BY <2>3, <2>12, <2>13, <2>14
<1> QED
  BY <1>2, <1>3, <1>4, <1>5, <1>6

\* publish: a new event, so far with its publisher alone.
LEMMA PublishStep ==
    ASSUME BusInv, NEW p \in Publishers, NEW block \in BOOLEAN, publish(p, block)
    PROVE  BusInv'
<1>0. PICK n \in Nat : n = Len(owed) + 1
  BY DEF BusInv, BusTypes
<1> DEFINE o == [to |-> subscribers, must |-> {s \in subscribers : block /\ subscription[s] = "live"}]
           w == [IdlePublisher EXCEPT !.at = "sending", !.n = n, !.block = block, !.todo = subscribers]
<1>1. BusTypes /\ Snapshots /\ Owing /\ ChannelTally /\ PublisherTally /\ BusTally /\ Gauges
  BY DEF BusInv
<1>2. /\ owed' = Append(owed, o) /\ publisher' = [publisher EXCEPT ![p] = w] /\ publisher[p].at = "idle"
      /\ UNCHANGED <<subscribers, handlers, subscription, got, taken, handlerCalls, busStats>>
  BY <1>0 DEF publish
<1>3. subscribers \subseteq Subscriptions /\ o \in [to : SUBSET Subscriptions, must : SUBSET Subscriptions]
  BY <1>1 DEF BusTypes
<1>4. /\ Len(owed) \in Nat /\ n \in Nat /\ Len(owed') = n /\ owed'[n] = o
      /\ owed' \in Seq([to : SUBSET Subscriptions, must : SUBSET Subscriptions])
      /\ \A i \in 1..Len(owed) : owed'[i] = owed[i]
  BY <1>0, <1>1, <1>2, <1>3, Appended DEF BusTypes
<1>5. /\ w \in PublisherRecord /\ w.at = "sending" /\ w.n = n /\ w.todo = subscribers /\ w.lost = {}
      /\ w.delivered = 0 /\ w.dropped = 0 /\ (~w.block => o.must = {})
  BY <1>3, <1>4 DEF PublisherRecord, IdlePublisher
<1>6. publisher' \in [Publishers -> PublisherRecord] /\ publisher'[p] = w
  BY <1>1, <1>2, <1>5 DEF BusTypes
<1>7. \A q \in Publishers : q # p => publisher'[q] = publisher[q]
  BY <1>1, <1>2 DEF BusTypes
<1>8. o.to = subscribers /\ o.must \subseteq subscribers
  OBVIOUS
<1> HIDE DEF o, w
<1>9. BusTypes'
  BY <1>1, <1>2, <1>4, <1>6 DEF BusTypes
<1>10. \A s \in Subscriptions : Sent(s)' = Sent(s) /\ n \notin Sent(s)
  <2>1. \A s \in Subscriptions : Sent(s)' = Sent(s)
    BY <1>2 DEF Sent
  <2>2. \A s \in Subscriptions : n \notin Sent(s)
    BY <1>1, <1>4, <1>0 DEF Snapshots
  <2> QED
    BY <2>1, <2>2
<1>11. /\ ~Sending(p) /\ Sending(p)'
       /\ \A q \in Publishers : q # p => (Sending(q)' <=> Sending(q))
  BY <1>2, <1>5, <1>6, <1>7 DEF Sending
<1>12. Flying' = Flying \cup {n}
  <2>1. ASSUME NEW x PROVE x \in Flying' <=> x \in Flying \cup {n}
    <3>1. x \in Flying' <=> \E q \in Publishers : Sending(q)' /\ x = publisher'[q].n
      BY DEF Flying
    <3>2. x \in Flying <=> \E q \in Publishers : Sending(q) /\ x = publisher[q].n
      BY DEF Flying
    <3> QED
      BY <1>5, <1>6, <1>7, <1>11, <3>1, <3>2
  <2> QED
    BY <2>1
<1>13. Counted' = Counted /\ Counted \subseteq 1..Len(owed) /\ n \notin Counted /\ n \notin 1..Len(owed)
  BY <1>4, <1>12, <1>0 DEF Counted
<1>14. \A N : N \subseteq 1..Len(owed) => Went(N)' = Went(N) /\ Short(N)' = Short(N)
  <2>1. \A N : Went(N)' = Went(N)
    BY <1>10 DEF Went
  <2>2. ASSUME NEW N, N \subseteq 1..Len(owed) PROVE Short(N)' = Short(N)
    BY <1>4, <1>10, <2>2 DEF Short
  <2> QED
    BY <2>1, <2>2
<1>15. \A i \in 1..Len(owed) : Missed(i)' = Missed(i)
  BY <1>1, <1>4, <1>10, OwedTypes DEF Missed
<1>16. Snapshots'
  <2>1. \A q \in Publishers : ~Sending(q)' => publisher'[q].n = 0
    BY <1>1, <1>7, <1>11 DEF Snapshots
  <2>2. ASSUME NEW q \in Publishers, Sending(q)'
        PROVE  /\ publisher'[q].n \in 1..Len(owed')
               /\ publisher'[q].todo \subseteq owed'[publisher'[q].n].to
               /\ \A s \in publisher'[q].todo : publisher'[q].n \notin Sent(s)'
               /\ \A s \in publisher'[q].lost : subscription'[s] = "gone"
               /\ ~publisher'[q].block => owed'[publisher'[q].n].must = {}
    <3>1. CASE q = p
      <4>1. n \in 1..Len(owed') /\ publisher'[q] = w /\ owed'[n] = o /\ w.n = n
        BY <1>0, <1>4, <1>5, <1>6, <3>1
      <4>2. \A s \in subscribers : n \notin Sent(s)'
        BY <1>3, <1>10
      <4> QED
        BY <1>5, <1>8, <4>1, <4>2
    <3>2. CASE q # p
      <4>1. publisher[q] \in PublisherRecord /\ publisher[q].todo \subseteq Subscriptions
        BY <1>1 DEF BusTypes, PublisherRecord
      <4>2. publisher[q].n \in 1..Len(owed) /\ publisher[q].n \in 1..Len(owed')
        BY <1>1, <1>4, <1>11, <2>2, <3>2, <1>0 DEF Snapshots
      <4> QED
        BY <1>1, <1>2, <1>4, <1>7, <1>10, <1>11, <2>2, <3>2, <4>1, <4>2 DEF Snapshots
    <3> QED
      BY <3>1, <3>2
  <2>3. \A q, r \in Publishers : Sending(q)' /\ Sending(r)' /\ publisher'[q].n = publisher'[r].n => q = r
    <3>1. \A q \in Publishers : q # p /\ Sending(q)' => publisher'[q].n # n
      BY <1>1, <1>7, <1>11, <1>13 DEF Snapshots
    <3> QED
      BY <1>1, <1>5, <1>6, <1>7, <1>11, <3>1 DEF Snapshots
  <2>4. \A s \in Subscriptions : \A i \in Sent(s)' : i \in 1..Len(owed') /\ s \in owed'[i].to
    <3>1. \A s \in Subscriptions : \A i \in Sent(s) : i \in 1..Len(owed) /\ s \in owed[i].to
      BY <1>1 DEF Snapshots
    <3> QED
      BY <1>4, <1>10, <3>1, <1>0
  <2> QED
    BY <2>1, <2>2, <2>3, <2>4 DEF Snapshots
<1>17. Owing'
  <2>1. ASSUME NEW i \in 1..Len(owed), NEW s \in owed[i].must
        PROVE  \/ i \in Sent(s)' \/ subscription'[s] = "gone"
               \/ \E q \in Publishers : Sending(q)' /\ publisher'[q].n = i /\ s \in publisher'[q].todo
    <3>1. s \in Subscriptions
      BY <1>1, OwedTypes
    <3>2. \/ i \in Sent(s) \/ subscription[s] = "gone"
          \/ \E q \in Publishers : Sending(q) /\ publisher[q].n = i /\ s \in publisher[q].todo
      BY <1>1 DEF Owing
    <3> QED
      BY <1>2, <1>7, <1>10, <1>11, <3>1, <3>2
  <2>2. \A s \in o.must : Sending(p)' /\ publisher'[p].n = n /\ s \in publisher'[p].todo
    BY <1>5, <1>6, <1>8, <1>11
  <2>3. \A i \in 1..Len(owed') : i = n \/ (i \in 1..Len(owed) /\ owed'[i] = owed[i])
    BY <1>4, <1>0
  <2> QED
    BY <1>4, <2>1, <2>2, <2>3 DEF Owing
<1>18. ChannelTally'
  BY <1>1, <1>2, <1>10 DEF ChannelTally
<1>19. PublisherTally'
  <2>1. Went({n})' = {} /\ Passed(p)' = {}
    <3>1. Went({n})' = {}
      BY <1>10 DEF Went
    <3>2. Short({n})' \subseteq {x \in {n} \X Subscriptions : x[2] \in subscribers}
      BY <1>4, <1>8 DEF Short
    <3> QED
      BY <1>5, <1>6, <3>1, <3>2 DEF Passed
  <2>2. ASSUME NEW q \in Publishers, Sending(q)', q # p
        PROVE  Went({publisher[q].n})' = Went({publisher[q].n}) /\ Passed(q)' = Passed(q) /\ Sending(q)
    <3>1. Sending(q) /\ {publisher[q].n} \subseteq 1..Len(owed)
      BY <1>1, <1>11, <2>2 DEF Snapshots
    <3>2. \A N : Went(N)' = Went(N)
      BY <1>10 DEF Went
    <3>3. \A x : x \in Short({publisher[q].n})' <=> x \in Short({publisher[q].n})
      BY <1>4, <1>7, <1>10, <2>2, <3>1 DEF Short
    <3> QED
      BY <1>7, <2>2, <3>1, <3>2, <3>3 DEF Passed, Went
  <2> QED
    BY ZenonT(60), <1>1, <1>5, <1>6, <1>7, <1>11, <2>1, <2>2, FS_EmptySet DEF PublisherTally
<1>20. BusTally'
  <2>1. {i \in Counted' : Missed(i)' # {}} = {i \in Counted : Missed(i) # {}}
    BY <1>13, <1>15
  <2>2. Went(Counted)' = Went(Counted) /\ Short(Counted)' = Short(Counted)
    BY <1>4, <1>10, <1>13 DEF Went, Short
  <2> QED
    BY <1>1, <1>2, <1>13, <2>1, <2>2 DEF BusTally
<1>21. Gauges'
  BY <1>1, <1>2 DEF Gauges
<1> QED
  BY <1>9, <1>16, <1>17, <1>18, <1>19, <1>20, <1>21 DEF BusInv

\* publish, sending to one subscriber of the snapshot.
LEMMA SendStep ==
    ASSUME BusInv, NEW p \in Publishers, publish_sends(p)
    PROVE  BusInv'
<1>1. BusTypes /\ Snapshots /\ Owing /\ ChannelTally /\ PublisherTally /\ BusTally /\ Gauges
  BY DEF BusInv
<1>2. PICK n : n = publisher[p].n
  OBVIOUS
<1>3. PICK s \in publisher[p].todo : LET outcome == send_to_subscriber(s, publisher[p].block) IN
         /\ outcome # "waits"
         /\ publisher' = [publisher EXCEPT ![p] =
              [publisher[p] EXCEPT
                        !.todo = @ \ {s},
                        !.delivered = @ + (IF outcome = "Ok" THEN 1 ELSE 0),
                        !.dropped = @ + Dropped(outcome),
                        !.lost = @ \cup (IF outcome = "Disconnected" THEN {s} ELSE {})]]
         /\ got' = IF outcome = "Ok" THEN [got EXCEPT ![s] = Append(@, publisher[p].n)] ELSE got
  BY DEF publish_sends
<1> DEFINE ok == send_to_subscriber(s, publisher[p].block) = "Ok"
<1>4. /\ Sending(p) /\ UNCHANGED <<subscribers, handlers, subscription, handlerCalls, busStats, owed>>
  BY DEF publish_sends, Sending
<1>5. /\ publisher[p] \in PublisherRecord /\ s \in Subscriptions /\ n \in Nat /\ n \in 1..Len(owed)
      /\ s \in owed[n].to /\ n \notin Sent(s)
  <2>1. publisher[p] \in PublisherRecord
    BY <1>1 DEF BusTypes
  <2> QED
    BY <1>1, <1>2, <1>4, <2>1 DEF Snapshots, PublisherRecord
<1>6. /\ ~ok => subscription[s] = "gone" \/ ~publisher[p].block
      /\ send_to_subscriber(s, publisher[p].block) = "Disconnected" => subscription[s] = "gone"
  BY <1>3 DEF send_to_subscriber
<1>7. /\ publisher' \in [Publishers -> PublisherRecord]
      /\ \A q \in Publishers : q # p => publisher'[q] = publisher[q]
      /\ publisher'[p].at = "sending" /\ publisher'[p].n = n /\ publisher'[p].block = publisher[p].block
      /\ publisher'[p].todo = publisher[p].todo \ {s}
      /\ publisher'[p].delivered = IF ok THEN publisher[p].delivered + 1 ELSE publisher[p].delivered
      /\ publisher'[p].dropped = IF ok THEN publisher[p].dropped ELSE publisher[p].dropped + 1
      /\ \A t \in publisher'[p].lost : t \in publisher[p].lost \/ (subscription[s] = "gone" /\ t = s)
  <2> DEFINE out == send_to_subscriber(s, publisher[p].block)
             w == [publisher[p] EXCEPT !.todo = @ \ {s},
                        !.delivered = @ + (IF out = "Ok" THEN 1 ELSE 0),
                        !.dropped = @ + Dropped(out),
                        !.lost = @ \cup (IF out = "Disconnected" THEN {s} ELSE {})]
  <2>1. publisher' = [publisher EXCEPT ![p] = w]
    BY <1>3
  <2>2. Dropped(out) = IF ok THEN 0 ELSE 1
    BY DEF Dropped
  <2> HIDE DEF out
  <2>3. w \in PublisherRecord
    <3>1. publisher[p].delivered + (IF out = "Ok" THEN 1 ELSE 0) \in Nat /\ publisher[p].dropped + Dropped(out) \in Nat
      BY <1>5, <2>2 DEF PublisherRecord
    <3>2. publisher[p].lost \cup (IF out = "Disconnected" THEN {s} ELSE {}) \in SUBSET Subscriptions
      BY <1>5 DEF PublisherRecord
    <3> QED
      BY <1>5, <3>1, <3>2 DEF PublisherRecord
  <2>4. publisher' \in [Publishers -> PublisherRecord] /\ publisher'[p] = w
        /\ \A q \in Publishers : q # p => publisher'[q] = publisher[q]
    BY <1>1, <2>1, <2>3 DEF BusTypes
  <2>5. /\ w.at = publisher[p].at /\ w.n = publisher[p].n /\ w.block = publisher[p].block
        /\ w.todo = publisher[p].todo \ {s} /\ w.delivered = publisher[p].delivered + (IF out = "Ok" THEN 1 ELSE 0)
        /\ w.dropped = publisher[p].dropped + Dropped(out)
        /\ w.lost = publisher[p].lost \cup (IF out = "Disconnected" THEN {s} ELSE {})
    BY <1>5 DEF PublisherRecord
  <2> HIDE DEF w
  <2>6. out = "Disconnected" => subscription[s] = "gone"
    BY <1>6 DEF out
  <2>7. ok <=> out = "Ok"
    BY DEF out
  <2>8. publisher[p].delivered \in Nat /\ publisher[p].dropped \in Nat
    BY <1>5 DEF PublisherRecord
  <2>9. /\ w.delivered = IF ok THEN publisher[p].delivered + 1 ELSE publisher[p].delivered
        /\ w.dropped = IF ok THEN publisher[p].dropped ELSE publisher[p].dropped + 1
    BY <2>2, <2>5, <2>7, <2>8
  <2>10. \A t \in w.lost : t \in publisher[p].lost \/ (subscription[s] = "gone" /\ t = s)
    <3>1. CASE out = "Disconnected"
      BY <2>5, <2>6, <3>1
    <3>2. CASE out # "Disconnected"
      BY <2>5, <3>2
    <3> QED
      BY <3>1, <3>2
  <2> HIDE DEF ok
  <2> QED
    BY <1>2, <1>4, <2>4, <2>5, <2>9, <2>10 DEF Sending
<1>8. /\ got' \in [Subscriptions -> Seq(Nat)]
      /\ \A t \in Subscriptions : t # s \/ ~ok => Sent(t)' = Sent(t)
      /\ ok => Sent(s)' = Sent(s) \cup {n} /\ Len(got'[s]) = Len(got[s]) + 1
      /\ \A t \in Subscriptions : t # s \/ ~ok => Len(got'[t]) = Len(got[t])
  <2>1. got \in [Subscriptions -> Seq(Nat)]
    BY <1>1 DEF BusTypes
  <2>2. CASE ~ok
    BY <1>3, <2>1, <2>2 DEF Sent
  <2>3. CASE ok
    <3>1. got' = [got EXCEPT ![s] = Append(got[s], n)]
      BY <1>2, <1>3, <2>3
    <3>2. got[s] \in Seq(Nat)
      BY <1>5, <2>1
    <3>3. /\ Append(got[s], n) \in Seq(Nat) /\ Len(Append(got[s], n)) = Len(got[s]) + 1 /\ Len(got[s]) \in Nat
          /\ \A i \in 1..Len(got[s]) : Append(got[s], n)[i] = got[s][i]
          /\ Append(got[s], n)[Len(got[s]) + 1] = n
      BY <1>5, <3>2, Appended
    <3>4. \A t \in Subscriptions : t # s => got'[t] = got[t]
      BY <2>1, <3>1
    <3>5. got'[s] = Append(got[s], n)
      BY <1>5, <2>1, <3>1
    <3>6. Sent(s)' = Sent(s) \cup {n}
      <4>1. DOMAIN got'[s] = 1..(Len(got[s]) + 1) /\ DOMAIN got[s] = 1..Len(got[s])
        BY <3>2, <3>3, <3>5
      <4>2. 1..(Len(got[s]) + 1) = (1..Len(got[s])) \cup {Len(got[s]) + 1}
        BY <3>3
      <4> QED
        BY <3>3, <3>5, <4>1, <4>2 DEF Sent
    <3>7. \A t \in Subscriptions : t # s => Sent(t)' = Sent(t)
      BY <3>4 DEF Sent
    <3> QED
      BY <1>5, <2>1, <2>3, <3>1, <3>3, <3>4, <3>5, <3>6, <3>7
  <2> QED
    BY <2>2, <2>3
<1> HIDE DEF ok
<1>9. BusTypes'
  BY <1>1, <1>4, <1>7, <1>8 DEF BusTypes
<1>10. /\ Sending(p)' /\ \A q \in Publishers : Sending(q)' <=> Sending(q)
       /\ \A q \in Publishers : publisher'[q].n = publisher[q].n
       /\ Flying' = Flying /\ Counted' = Counted /\ n \notin Counted
  <2>1. /\ Sending(p)' /\ \A q \in Publishers : Sending(q)' <=> Sending(q)
        /\ \A q \in Publishers : publisher'[q].n = publisher[q].n
    BY <1>2, <1>4, <1>7 DEF Sending
  <2>2. Flying' = Flying /\ n \in Flying
    BY <1>2, <1>4, <2>1 DEF Flying
  <2> QED
    BY <1>4, <2>1, <2>2 DEF Counted
<1>11. \A q \in Publishers : q # p /\ Sending(q) => publisher[q].n # n
  BY <1>1, <1>2, <1>4 DEF Snapshots
<1>12. \A m : \A t \in Subscriptions : /\ m # n => (m \in Sent(t)' <=> m \in Sent(t))
                                       /\ m \in Sent(t) => m \in Sent(t)'
                                       /\ m \in Sent(t)' => m \in Sent(t) \/ (m = n /\ t = s)
  <2>1. ASSUME NEW t \in Subscriptions PROVE Sent(t)' = Sent(t) \/ (t = s /\ Sent(t)' = Sent(t) \cup {n})
    BY <1>8
  <2> SUFFICES ASSUME NEW m, NEW t \in Subscriptions
               PROVE  /\ m # n => (m \in Sent(t)' <=> m \in Sent(t))
                      /\ m \in Sent(t) => m \in Sent(t)'
                      /\ m \in Sent(t)' => m \in Sent(t) \/ (m = n /\ t = s)
    OBVIOUS
  <2>2. CASE Sent(t)' = Sent(t)
    BY <2>2
  <2>3. CASE t = s /\ Sent(t)' = Sent(t) \cup {n}
    BY <2>3
  <2> QED
    BY <2>1, <2>2, <2>3
<1>13. \A N : n \notin N => Went(N)' = Went(N) /\ Short(N)' = Short(N)
  <2>1. ASSUME NEW N, n \notin N PROVE Went(N)' = Went(N)
    BY <1>12, <2>1 DEF Went
  <2>2. ASSUME NEW N, n \notin N PROVE Short(N)' = Short(N)
    BY <1>4, <1>12, <2>2 DEF Short
  <2> QED
    BY <2>1, <2>2
<1>14. \A m \in 1..Len(owed) : m # n => Missed(m)' = Missed(m)
  BY <1>1, <1>4, <1>12, OwedTypes DEF Missed
<1>15. Snapshots'
  <2>1. \A q \in Publishers : ~Sending(q)' => publisher'[q].n = 0
    BY <1>1, <1>10 DEF Snapshots
  <2>2. ASSUME NEW q \in Publishers, Sending(q)'
        PROVE  /\ publisher'[q].n \in 1..Len(owed')
               /\ publisher'[q].todo \subseteq owed'[publisher'[q].n].to
               /\ \A t \in publisher'[q].todo : publisher'[q].n \notin Sent(t)'
               /\ \A t \in publisher'[q].lost : subscription'[t] = "gone"
               /\ ~publisher'[q].block => owed'[publisher'[q].n].must = {}
    <3>1. /\ publisher[q].n \in 1..Len(owed)
          /\ publisher[q].todo \subseteq owed[publisher[q].n].to
          /\ \A t \in publisher[q].todo : publisher[q].n \notin Sent(t)
          /\ \A t \in publisher[q].lost : subscription[t] = "gone"
          /\ ~publisher[q].block => owed[publisher[q].n].must = {}
      BY <1>1, <1>10, <2>2 DEF Snapshots
    <3>2. publisher[q].todo \subseteq Subscriptions
      BY <1>1 DEF BusTypes, PublisherRecord
    <3>3. CASE q = p
      BY <1>2, <1>4, <1>7, <1>12, <3>1, <3>2, <3>3
    <3>4. CASE q # p
      BY <1>4, <1>7, <1>10, <1>11, <1>12, <2>2, <3>1, <3>2, <3>4
    <3> QED
      BY <3>3, <3>4
  <2>3. \A q, r \in Publishers : Sending(q)' /\ Sending(r)' /\ publisher'[q].n = publisher'[r].n => q = r
    BY <1>1, <1>10 DEF Snapshots
  <2>4. \A t \in Subscriptions : \A m \in Sent(t)' : m \in 1..Len(owed') /\ t \in owed'[m].to
    BY <1>1, <1>4, <1>5, <1>12 DEF Snapshots
  <2> QED
    BY <2>1, <2>2, <2>3, <2>4 DEF Snapshots
<1>16. Owing'
  <2> SUFFICES ASSUME NEW m \in 1..Len(owed), NEW t \in owed[m].must
               PROVE  \/ m \in Sent(t)' \/ subscription'[t] = "gone"
                      \/ \E q \in Publishers : Sending(q)' /\ publisher'[q].n = m /\ t \in publisher'[q].todo
    BY <1>4 DEF Owing
  <2>1. t \in Subscriptions
    BY <1>1, OwedTypes
  <2>2. \/ m \in Sent(t) \/ subscription[t] = "gone"
        \/ \E q \in Publishers : Sending(q) /\ publisher[q].n = m /\ t \in publisher[q].todo
    BY <1>1 DEF Owing
  <2>3. ASSUME NEW q \in Publishers, Sending(q), publisher[q].n = m, t \in publisher[q].todo
        PROVE  \/ m \in Sent(t)' \/ subscription'[t] = "gone"
               \/ Sending(q)' /\ publisher'[q].n = m /\ t \in publisher'[q].todo
    <3>1. CASE q = p /\ t = s
      <4>1. publisher[p].block
        BY <1>1, <1>2, <1>4, <2>3, <3>1 DEF Snapshots
      <4>2. ok \/ subscription[s] = "gone"
        BY <1>6, <4>1 DEF ok
      <4> QED
        BY <1>2, <1>4, <1>8, <2>3, <3>1, <4>2
    <3>2. CASE ~(q = p /\ t = s)
      BY <1>7, <1>10, <2>3, <3>2
    <3> QED
      BY <3>1, <3>2
  <2> QED
    BY <1>4, <1>12, <2>1, <2>2, <2>3
<1>17. ChannelTally'
  <2>1. IsFiniteSet(Sent(s)) /\ Cardinality(Sent(s)) = Len(got[s])
    BY <1>1, <1>5 DEF ChannelTally
  <2>2. IsFiniteSet(Sent(s) \cup {n}) /\ Cardinality(Sent(s) \cup {n}) = Cardinality(Sent(s)) + 1
    BY <1>5, <2>1, FS_AddElement
  <2> QED
    BY <1>1, <1>8, <2>1, <2>2 DEF ChannelTally
<1>18. PublisherTally'
  <2>1. ASSUME NEW q \in Publishers, Sending(q), q # p
        PROVE  Went({publisher[q].n})' = Went({publisher[q].n}) /\ Passed(q)' = Passed(q)
    <3>1. PICK m : m = publisher[q].n
      OBVIOUS
    <3>2. Went({m})' = Went({m}) /\ Short({m})' = Short({m})
      BY <1>11, <1>13, <2>1, <3>1
    <3>3. publisher'[q] = publisher[q]
      BY <1>7, <2>1
    <3> QED
      BY <3>1, <3>2, <3>3 DEF Passed
  <2>2. IsFiniteSet(Went({n})) /\ publisher[p].delivered = Cardinality(Went({n}))
    BY <1>1, <1>2, <1>4 DEF PublisherTally
  <2>3. IsFiniteSet(Passed(p)) /\ publisher[p].dropped = Cardinality(Passed(p))
    BY <1>1, <1>2, <1>4 DEF PublisherTally
  <2>4. IsFiniteSet(Went({n})') /\ publisher'[p].delivered = Cardinality(Went({n})')
    <3>1. CASE ok
      <4>1. Went({n})' = Went({n}) \cup {<<s, n>>}
        BY <1>5, <1>8, <3>1 DEF Went
      <4>2. <<s, n>> \notin Went({n})
        BY <1>5 DEF Went
      <4>3. IsFiniteSet(Went({n}) \cup {<<s, n>>}) /\ Cardinality(Went({n}) \cup {<<s, n>>}) = Cardinality(Went({n})) + 1
        BY <2>2, <4>2, FS_AddElement
      <4> QED
        BY <1>7, <2>2, <3>1, <4>1, <4>3
    <3>2. CASE ~ok
      <4>1. Went({n})' = Went({n})
        BY <1>8, <3>2 DEF Went
      <4> QED
        BY <1>7, <2>2, <3>2, <4>1
    <3> QED
      BY <3>1, <3>2
  <2>5. IsFiniteSet(Passed(p)') /\ publisher'[p].dropped = Cardinality(Passed(p)')
    <3>0. /\ Passed(p)' = {x \in Short({n})' : x[2] \notin publisher[p].todo \ {s}}
          /\ Passed(p) = {x \in Short({n}) : x[2] \notin publisher[p].todo}
      BY <1>2, <1>7 DEF Passed
    <3>1. CASE ok
      <4>1. \A x : x \in Short({n})' <=> x \in Short({n}) /\ x # <<n, s>>
        <5>1. ASSUME NEW x PROVE x \in Short({n})' <=> x \in {n} \X Subscriptions /\ x[2] \in owed[x[1]].to /\ x[1] \notin Sent(x[2])'
          BY <1>4 DEF Short
        <5>2. ASSUME NEW x \in {n} \X Subscriptions PROVE x[1] \notin Sent(x[2])' <=> x[1] \notin Sent(x[2]) /\ x # <<n, s>>
          <6>1. x = <<n, x[2]>> /\ x[1] = n /\ x[2] \in Subscriptions
            OBVIOUS
          <6> QED
            BY <1>8, <1>12, <3>1, <6>1
        <5> QED
          BY <5>1, <5>2 DEF Short
      <4>2. Passed(p)' = Passed(p)
        <5>1. \A x \in Short({n}) : x = <<n, x[2]>>
          BY DEF Short
        <5>2. s \in publisher[p].todo
          BY <1>3
        <5>3. \A x \in Short({n}) : x # <<n, s>> <=> x[2] # s
          BY <5>1
        <5>4. \A x : x \in Passed(p)' <=> x \in Passed(p)
          BY <3>0, <4>1, <5>2, <5>3
        <5> QED
          BY <5>4
      <4> QED
        BY <1>7, <2>3, <3>1, <4>2
    <3>2. CASE ~ok
      <4>1. Short({n})' = Short({n})
        BY <1>4, <1>8, <3>2 DEF Short
      <4>2. <<n, s>> \in Short({n}) /\ <<n, s>> \notin Passed(p)
        BY <1>3, <1>5, <3>0 DEF Short
      <4>3. Passed(p)' = Passed(p) \cup {<<n, s>>}
        <5>1. \A x \in Short({n}) : x = <<n, x[2]>>
          BY DEF Short
        <5>2. \A x \in Short({n}) : x = <<n, s>> <=> x[2] = s
          BY <5>1
        <5>3. \A x : x \in Passed(p)' <=> x \in Passed(p) \cup {<<n, s>>}
          BY <3>0, <4>1, <4>2, <5>2
        <5> QED
          BY <5>3
      <4>4. IsFiniteSet(Passed(p) \cup {<<n, s>>}) /\ Cardinality(Passed(p) \cup {<<n, s>>}) = Cardinality(Passed(p)) + 1
        BY <2>3, <4>2, FS_AddElement
      <4> QED
        BY <1>7, <2>3, <3>2, <4>3, <4>4
    <3> QED
      BY <3>1, <3>2
  <2>6. ASSUME NEW q \in Publishers, Sending(q)'
        PROVE  /\ IsFiniteSet(Went({publisher[q].n})') /\ publisher'[q].delivered = Cardinality(Went({publisher[q].n})')
               /\ IsFiniteSet(Passed(q)') /\ publisher'[q].dropped = Cardinality(Passed(q)')
    <3>1. CASE q = p
      <4>1. publisher'[p].n = n
        BY <1>7
      <4> QED
        BY <2>4, <2>5, <3>1, <4>1
    <3>2. CASE q # p
      <4>1. publisher'[q] = publisher[q] /\ Sending(q)
        BY <1>7, <1>10, <2>6, <3>2
      <4> QED
        BY <1>1, <2>1, <3>2, <4>1 DEF PublisherTally
    <3> QED
      BY <3>1, <3>2
  <2> QED
    BY <2>6 DEF PublisherTally
<1>19. BusTally'
  <2>1. {m \in Counted' : Missed(m)' # {}} = {m \in Counted : Missed(m) # {}}
    BY <1>10, <1>14 DEF Counted
  <2>2. PICK N : N = Counted
    OBVIOUS
  <2>3. Went(N)' = Went(N) /\ Short(N)' = Short(N) /\ Counted' = N
    BY <1>10, <1>13, <2>2
  <2>4. Went(Counted)' = Went(Counted) /\ Short(Counted)' = Short(Counted)
    BY <2>2, <2>3
  <2> QED
    BY <1>1, <1>4, <1>10, <2>1, <2>4 DEF BusTally
<1>20. Gauges'
  BY <1>1, <1>4 DEF Gauges
<1> QED
  BY <1>9, <1>15, <1>16, <1>17, <1>18, <1>19, <1>20 DEF BusInv

\* The size of a union of two sets that have nothing in common.
LEMMA DisjointCount ==
    ASSUME NEW S, NEW T, IsFiniteSet(S), IsFiniteSet(T), S \cap T = {}
    PROVE  IsFiniteSet(S \cup T) /\ Cardinality(S \cup T) = Cardinality(S) + Cardinality(T)
<1>1. Cardinality(S) \in Nat /\ Cardinality(T) \in Nat
  BY FS_CardinalityType
<1>2. Cardinality(S \cap T) = 0
  BY FS_EmptySet
<1>3. /\ IsFiniteSet(S \cup T)
      /\ Cardinality(S \cup T) = Cardinality(S) + Cardinality(T) - Cardinality(S \cap T)
  BY FS_Union
<1> QED
  BY <1>1, <1>2, <1>3

\* An interval of naturals, its size and its subsets.
LEMMA OneTo ==
    ASSUME NEW k \in Nat
    PROVE  /\ IsFiniteSet(1..k) /\ Cardinality(1..k) = k
           /\ \A S : S \subseteq 1..k => IsFiniteSet(S)
<1>1. 1 \in Int /\ k \in Int
  OBVIOUS
<1>2. IsFiniteSet(1..k) /\ Cardinality(1..k) = IF 1 > k THEN 0 ELSE k - 1 + 1
  BY <1>1, FS_Interval
<1>3. Cardinality(1..k) = k
  BY <1>2
<1>4. ASSUME NEW S, S \subseteq 1..k PROVE IsFiniteSet(S)
  BY <1>2, <1>4, FS_Subset
<1> QED
  BY <1>2, <1>3, <1>4

\* publish, adding what became of the event to the counters.
LEMMA CountStep ==
    ASSUME BusInv, NEW p \in Publishers, publish_counts(p)
    PROVE  BusInv'
<1>1. BusTypes /\ Snapshots /\ Owing /\ ChannelTally /\ PublisherTally /\ BusTally /\ Gauges
  BY DEF BusInv
<1>2. PICK n : n = publisher[p].n
  OBVIOUS
<1>3. PICK C : C = Counted
  OBVIOUS
<1>4. /\ Sending(p) /\ publisher[p].todo = {}
      /\ UNCHANGED <<subscribers, handlers, subscription, got, handlerCalls, owed>>
  BY DEF publish_counts, Sending
<1>5. publisher[p] \in PublisherRecord /\ n \in 1..Len(owed) /\ Len(owed) \in Nat
  BY <1>1, <1>2, <1>4 DEF BusTypes, Snapshots
<1>6. /\ publisher' \in [Publishers -> PublisherRecord] /\ ~Sending(p)' /\ publisher'[p].n = 0
      /\ \A q \in Publishers : q # p => publisher'[q] = publisher[q]
  <2> DEFINE w == IF p = Processor THEN [IdlePublisher EXCEPT !.at = "processed"] ELSE IdlePublisher
  <2>1. publisher' = [publisher EXCEPT ![p] = w]
    BY DEF publish_counts
  <2>2. w \in PublisherRecord /\ w.at # "sending" /\ w.n = 0
    BY DEF PublisherRecord, IdlePublisher
  <2> HIDE DEF w
  <2> QED
    BY <1>1, <2>1, <2>2 DEF BusTypes, Sending
<1>7. \A q \in Publishers : q # p => (Sending(q)' <=> Sending(q))
  BY <1>6 DEF Sending
<1>8. /\ busStats' \in BusStatsRecord /\ busStats \in BusStatsRecord
      /\ busStats'.emitted = busStats.emitted + 1
      /\ busStats'.completed = busStats.completed + publisher[p].delivered
      /\ busStats'.dropped = busStats.dropped + publisher[p].dropped
      /\ busStats'.withDrops = IF publisher[p].dropped > 0 THEN busStats.withDrops + 1 ELSE busStats.withDrops
      /\ busStats'.subscriber_count = busStats.subscriber_count /\ busStats'.handler_count = busStats.handler_count
  <2> DEFINE d == IF publisher[p].dropped > 0 THEN 1 ELSE 0
  <2>1. busStats \in BusStatsRecord /\ publisher[p].delivered \in Nat /\ publisher[p].dropped \in Nat /\ d \in Nat
    BY <1>1, <1>5 DEF BusTypes, PublisherRecord
  <2>2. busStats' = [busStats EXCEPT !.emitted = @ + 1, !.completed = @ + publisher[p].delivered,
                                     !.dropped = @ + publisher[p].dropped, !.withDrops = @ + d]
    BY DEF publish_counts
  <2>3. busStats'.withDrops = busStats.withDrops + d
    BY <2>1, <2>2 DEF BusStatsRecord
  <2>4. busStats.withDrops \in Nat
    BY <2>1 DEF BusStatsRecord
  <2>5. busStats'.withDrops = IF publisher[p].dropped > 0 THEN busStats.withDrops + 1 ELSE busStats.withDrops
    BY <2>3, <2>4
  <2>6. busStats.withDrops + d \in Nat
    BY <2>1, <2>4
  <2> HIDE DEF d
  <2>7. busStats' \in BusStatsRecord
    <3>1. /\ busStats.emitted + 1 \in Nat /\ busStats.completed + publisher[p].delivered \in Nat
          /\ busStats.dropped + publisher[p].dropped \in Nat
      BY <2>1 DEF BusStatsRecord
    <3>2. \A i, j, k, l \in Nat : [busStats EXCEPT !.emitted = i, !.completed = j, !.dropped = k, !.withDrops = l]
                                  \in BusStatsRecord
      BY ONLY <2>1 DEF BusStatsRecord
    <3> QED
      BY <2>2, <2>6, <3>1, <3>2
  <2> QED
    BY <2>1, <2>2, <2>5, <2>7 DEF BusStatsRecord
<1>9. BusTypes'
  BY <1>1, <1>4, <1>6, <1>8 DEF BusTypes
<1>10. \A s \in Subscriptions : Sent(s)' = Sent(s)
  BY <1>4 DEF Sent
<1>11. Counted' = C \cup {n} /\ n \notin C /\ C \subseteq 1..Len(owed)
  <2>1. \A x : x \in Flying' <=> \E q \in Publishers : Sending(q)' /\ x = publisher'[q].n
    BY DEF Flying
  <2>2. \A x : x \in Flying <=> \E q \in Publishers : Sending(q) /\ x = publisher[q].n
    BY DEF Flying
  <2>3. \A q \in Publishers : Sending(q) /\ q # p => publisher[q].n # n
    BY <1>1, <1>2, <1>4 DEF Snapshots
  <2>4. \A x : x \in Flying' <=> x \in Flying /\ x # n
    BY <1>2, <1>4, <1>6, <1>7, <2>1, <2>2, <2>3
  <2>5. n \in Flying
    BY <1>2, <1>4, <2>2
  <2> QED
    BY <1>3, <1>4, <1>5, <2>4, <2>5 DEF Counted
<1>12. \A N : Went(N)' = Went(N) /\ Short(N)' = Short(N)
  BY <1>4, <1>10 DEF Went, Short
<1>13. \A m \in 1..Len(owed) : Missed(m)' = Missed(m)
  BY <1>1, <1>4, <1>10, OwedTypes DEF Missed
<1>14. Snapshots'
  <2>1. \A q \in Publishers : ~Sending(q)' => publisher'[q].n = 0
    BY <1>1, <1>6, <1>7 DEF Snapshots
  <2>2. \A q \in Publishers : Sending(q)' => Sending(q) /\ publisher'[q] = publisher[q]
    BY <1>6, <1>7
  <2>3. \A q \in Publishers : publisher[q].todo \subseteq Subscriptions
    BY <1>1 DEF BusTypes, PublisherRecord
  <2> QED
    BY <1>1, <1>4, <1>10, <2>1, <2>2, <2>3 DEF Snapshots
<1>15. Owing'
  <2> SUFFICES ASSUME NEW m \in 1..Len(owed), NEW t \in owed[m].must
               PROVE  \/ m \in Sent(t)' \/ subscription'[t] = "gone"
                      \/ \E q \in Publishers : Sending(q)' /\ publisher'[q].n = m /\ t \in publisher'[q].todo
    BY <1>4 DEF Owing
  <2>1. t \in Subscriptions
    BY <1>1, OwedTypes
  <2>2. \/ m \in Sent(t) \/ subscription[t] = "gone"
        \/ \E q \in Publishers : Sending(q) /\ publisher[q].n = m /\ t \in publisher[q].todo
    BY <1>1 DEF Owing
  <2> QED
    BY <1>4, <1>6, <1>7, <1>10, <2>1, <2>2
<1>16. ChannelTally'
  BY <1>1, <1>4, <1>10 DEF ChannelTally
<1>17. PublisherTally'
  <2>1. ASSUME NEW q \in Publishers, Sending(q)'
        PROVE  /\ Sending(q) /\ publisher'[q] = publisher[q] /\ Passed(q)' = Passed(q)
               /\ Went({publisher[q].n})' = Went({publisher[q].n})
    <3>1. Sending(q) /\ publisher'[q] = publisher[q]
      BY <1>6, <1>7, <2>1
    <3>2. PICK m : m = publisher[q].n
      OBVIOUS
    <3>3. Went({m})' = Went({m}) /\ Short({m})' = Short({m})
      BY <1>12
    <3> QED
      BY <3>1, <3>2, <3>3 DEF Passed
  <2> QED
    BY <1>1, <2>1 DEF PublisherTally
<1>18. BusTally'
  <2>1. busStats'.emitted = Cardinality(C \cup {n})
    <3>1. IsFiniteSet(C)
      BY <1>5, <1>11, OneTo
    <3>2. Cardinality(C \cup {n}) = Cardinality(C) + 1
      BY <1>11, <3>1, FS_AddElement
    <3>3. busStats.emitted = Cardinality(C)
      BY <1>1, <1>3 DEF BusTally
    <3> QED
      BY <1>8, <3>2, <3>3
  <2>2. IsFiniteSet(Went(C \cup {n})) /\ busStats'.completed = Cardinality(Went(C \cup {n}))
    <3>1. Went(C \cup {n}) = Went(C) \cup Went({n}) /\ Went(C) \cap Went({n}) = {}
      <4>1. Went(C \cup {n}) = Went(C) \cup Went({n})
        BY DEF Went
      <4>2. \A x \in Went(C) : x[2] \in C
        BY DEF Went
      <4>3. \A x \in Went({n}) : x[2] = n
        BY DEF Went
      <4> QED
        BY <1>11, <4>1, <4>2, <4>3
    <3>2. IsFiniteSet(Went(C)) /\ IsFiniteSet(Went({n}))
      BY <1>1, <1>2, <1>3, <1>4 DEF BusTally, PublisherTally
    <3>3. busStats.completed = Cardinality(Went(C)) /\ publisher[p].delivered = Cardinality(Went({n}))
      BY <1>1, <1>2, <1>3, <1>4 DEF BusTally, PublisherTally
    <3> QED
      BY SMTT(30), <1>8, <3>1, <3>2, <3>3, DisjointCount
  <2>3. Passed(p) = Short({n})
    BY <1>2, <1>4 DEF Passed
  <2>4. IsFiniteSet(Short({n})) /\ publisher[p].dropped = Cardinality(Short({n}))
    BY <1>1, <1>4, <2>3 DEF PublisherTally
  <2>5. IsFiniteSet(Short(C \cup {n})) /\ busStats'.dropped = Cardinality(Short(C \cup {n}))
    <3>1. Short(C \cup {n}) = Short(C) \cup Short({n}) /\ Short(C) \cap Short({n}) = {}
      <4>1. Short(C \cup {n}) = Short(C) \cup Short({n})
        BY DEF Short
      <4>2. \A x \in Short(C) : x[1] \in C
        BY DEF Short
      <4>3. \A x \in Short({n}) : x[1] = n
        BY DEF Short
      <4> QED
        BY <1>11, <4>1, <4>2, <4>3
    <3>2. IsFiniteSet(Short(C)) /\ busStats.dropped = Cardinality(Short(C))
      BY <1>1, <1>3 DEF BusTally
    <3>3. /\ IsFiniteSet(Short(C) \cup Short({n}))
          /\ Cardinality(Short(C) \cup Short({n})) = Cardinality(Short(C)) + Cardinality(Short({n}))
      BY <2>4, <3>1, <3>2, DisjointCount
    <3> QED
      BY <1>8, <2>4, <3>1, <3>2, <3>3
  <2>6. busStats'.withDrops = Cardinality({m \in C \cup {n} : Missed(m) # {}})
    <3> DEFINE D == {m \in C : Missed(m) # {}}
    <3>1. publisher[p].dropped > 0 <=> Missed(n) # {}
      <4>1. Short({n}) = {} <=> Missed(n) = {}
        <5>1. \A s : s \in Missed(n) => <<n, s>> \in Short({n})
          BY <1>1, <1>5, OwedTypes DEF Missed, Short
        <5>2. \A x \in Short({n}) : x[2] \in Missed(n)
          BY DEF Missed, Short
        <5> QED
          BY <5>1, <5>2
      <4>2. publisher[p].dropped \in Nat /\ (publisher[p].dropped = 0 <=> Short({n}) = {})
        BY <2>4, FS_EmptySet, FS_CardinalityType
      <4> QED
        BY <4>1, <4>2
    <3>2. busStats.withDrops = Cardinality(D)
      BY <1>1, <1>3 DEF BusTally
    <3>3. IsFiniteSet(D) /\ n \notin D
      <4>1. D \subseteq 1..Len(owed) /\ n \notin D
        BY <1>11
      <4> QED
        BY <1>5, <4>1, OneTo
    <3>4. CASE Missed(n) # {}
      <4>1. {m \in C \cup {n} : Missed(m) # {}} = D \cup {n}
        BY <3>4
      <4> HIDE DEF D
      <4> QED
        BY ZenonT(60), <1>8, <3>1, <3>2, <3>3, <3>4, <4>1, FS_AddElement
    <3>5. CASE Missed(n) = {}
      <4>1. {m \in C \cup {n} : Missed(m) # {}} = D
        BY <3>5
      <4> HIDE DEF D
      <4> QED
        BY <1>8, <3>1, <3>2, <3>5, <4>1
    <3> QED
      BY <3>4, <3>5
  <2>7. {m \in Counted' : Missed(m)' # {}} = {m \in C \cup {n} : Missed(m) # {}}
    BY <1>5, <1>11, <1>13
  <2>8. PICK K : K = C \cup {n}
    OBVIOUS
  <2>9. Counted' = K /\ Went(K)' = Went(K) /\ Short(K)' = Short(K)
    BY <1>11, <1>12, <2>8
  <2>10. Went(Counted)' = Went(C \cup {n}) /\ Short(Counted)' = Short(C \cup {n})
    BY <2>8, <2>9
  <2> QED
    BY <1>11, <2>1, <2>2, <2>5, <2>6, <2>7, <2>10 DEF BusTally
<1>19. Gauges'
  BY <1>1, <1>4, <1>8 DEF Gauges
<1> QED
  BY <1>9, <1>14, <1>15, <1>16, <1>17, <1>18, <1>19 DEF BusInv

LEMMA BusInitInv == BusInit => BusInv
<1> SUFFICES ASSUME BusInit PROVE BusInv
  OBVIOUS
<1> USE BusAssumption DEF BusInit
<1>1. BusTypes
  <2>1. IdlePublisher \in PublisherRecord
    BY DEF IdlePublisher, PublisherRecord
  <2>2. Cardinality(Subscribed) \in Nat /\ IsFiniteSet({})
    BY FS_CardinalityType, FS_EmptySet
  <2>3. busStats \in BusStatsRecord
    BY <2>2 DEF BusStatsRecord
  <2>4. got \in [Subscriptions -> Seq(Nat)]
    <3>1. <<>> \in Seq(Nat)
      OBVIOUS
    <3> QED
      BY <3>1
  <2>5. subscription \in [Subscriptions -> Phases] /\ subscribers = {s \in Subscriptions : subscription[s] \in {"adding", "live"}}
    BY DEF Phases
  <2>6. IsFiniteSet(subscribers) /\ IsFiniteSet(handlers) /\ handlerCalls \in [count : Nat, clear : Nat]
    BY <2>2
  <2>7. owed \in Seq([to : SUBSET Subscriptions, must : SUBSET Subscriptions])
    OBVIOUS
  <2> QED
    BY <2>1, <2>3, <2>4, <2>5, <2>6, <2>7 DEF BusTypes
<1>2. \A p \in Publishers : ~Sending(p) /\ publisher[p].n = 0
  BY DEF Sending, IdlePublisher
<1>3. \A s \in Subscriptions : Sent(s) = {} /\ Len(got[s]) = 0
  BY DEF Sent
<1>4. Snapshots /\ Owing
  BY <1>2, <1>3 DEF Snapshots, Owing
<1>5. ChannelTally /\ PublisherTally
  BY <1>2, <1>3, FS_EmptySet DEF ChannelTally, PublisherTally
<1>6. Counted = {} /\ Went(Counted) = {} /\ Short(Counted) = {} /\ {m \in Counted : Missed(m) # {}} = {}
  <2>1. Counted = {}
    BY DEF Counted
  <2> QED
    BY <2>1 DEF Went, Short
<1>7. BusTally
  BY <1>6, FS_EmptySet DEF BusTally
<1>8. Gauges
  BY FS_EmptySet DEF Gauges
<1> QED
  BY <1>1, <1>4, <1>5, <1>7, <1>8 DEF BusInv

\* What the event bus counts is what happened to every event, whoever
\* subscribes and leaves while it is published (EventBus::publish, subscribe,
\* Drop for EventSubscription, clear_handlers).
THEOREM BusIsTruthful == BusSpec => []BusTruthful
<1>1. BusInv /\ [BusNext]_busVars => BusInv'
  BY BusQuietStep, PublishStep, SendStep, CountStep DEF BusNext, PublishNext
<1>2. BusInv => BusTruthful
  <2> SUFFICES ASSUME BusInv PROVE BusTruthful
    OBVIOUS
  <2>1. BusTypes /\ Snapshots /\ Owing /\ ChannelTally /\ BusTally /\ Gauges
    BY DEF BusInv
  <2>2. DOMAIN owed = 1..Len(owed) /\ Len(owed) \in Nat
    BY <2>1 DEF BusTypes
  <2>3. BusAccounted
    <3> SUFFICES ASSUME Silent
                 PROVE  /\ busStats.emitted = Len(owed)
                        /\ \A s \in Subscriptions : Cardinality(Sent(s)) = Len(got[s])
                        /\ busStats.completed = Cardinality(UNION {{s} \X Sent(s) : s \in Subscriptions})
                        /\ busStats.dropped = Cardinality(UNION {{n} \X Missed(n) : n \in DOMAIN owed})
                        /\ busStats.withDrops = Cardinality({n \in DOMAIN owed : Missed(n) # {}})
      BY DEF BusAccounted
    <3>1. Counted = 1..Len(owed)
      BY DEF Silent, Counted, Flying, Sending
    <3>2. busStats.emitted = Len(owed)
      BY <2>1, <2>2, <3>1, OneTo DEF BusTally
    <3>3. Went(Counted) = UNION {{s} \X Sent(s) : s \in Subscriptions}
      <4>1. \A s \in Subscriptions : Sent(s) \subseteq 1..Len(owed)
        BY <2>1 DEF Snapshots
      <4> QED
        BY <3>1, <4>1 DEF Went
    <3>4. Short(Counted) = UNION {{n} \X Missed(n) : n \in DOMAIN owed}
      BY <2>1, <2>2, <3>1, OwedTypes DEF Short, Missed
    <3> QED
      BY <2>1, <2>2, <3>1, <3>2, <3>3, <3>4 DEF BusTally, ChannelTally
  <2>4. BlockingReaches
    BY <2>1, <2>2 DEF Owing, BlockingReaches
  <2>5. CountsExact
    <3>1. (\A s \in Subscriptions : subscription[s] \notin {"adding", "leaving"}) =>
             subscribers = {s \in Subscriptions : subscription[s] = "live"}
      BY <2>1 DEF BusTypes
    <3> QED
      BY <2>1, <3>1 DEF Gauges, CountsExact
  <2> QED
    BY <2>3, <2>4, <2>5 DEF BusTruthful
<1> QED
  BY <1>1, <1>2, BusInitInv, PTL DEF BusSpec

-----------------------------------------------------------------------------
(* The reports to the health registry.  A task reports in steps; the       *)
(* invariant follows who is still going to latch a loss that was counted,  *)
(* and who may still call set_nbi_pipeline_disabled.                       *)

Elems(s) == {s[i] : i \in 1..Len(s)}

\* What a latch says is shown.
LatchShown(h) == /\ h.export_latched => h.export = Degraded
                 /\ h.nbi_latched => h.nbi = Degraded

\* The registry is there before its user looks back: a seed follows the write
\* of the handle, and is followed by what is decided from it.
Ordered(s) ==
    /\ \A i \in 1..Len(s) : s[i] = "publish" => i < Len(s) /\ s[i + 1] = "update"
    /\ \A i \in 1..Len(s) : s[i] = "seed" => i < Len(s) /\ s[i + 1] = "decide"
    /\ \A i \in 1..Len(s) : s[i] = "write" => \E j \in 1..Len(s) : j > i /\ s[j] = "seed"

\* A reporter that is still going to latch the loss.
WillLatch(r) ==
    \/ "export_loss" \in Elems(todo[r])
    \/ "seed" \in Elems(todo[r])
    \/ ReportAt(r, "decide") /\ snap[r].export_dropped > 0

LossComing ==
    attached /\ counters.export_dropped > 0 /\ ~health.export_latched
        => \E r \in Reporters : WillLatch(r)

\* A local loss needs a local target, and a target that is there stays.
LocalOnly ==
    /\ health.nbi_latched => localTarget
    /\ \A r \in Reporters : /\ "nbi_loss" \in Elems(todo[r]) => localTarget
                            /\ "nbi_disabled" \in Elems(todo[r]) => ~localTarget

ReportInv ==
    /\ HealthTypeOK
    /\ \A r \in Reporters : Ordered(todo[r])
    /\ LatchShown(health)
    /\ LossComing
    /\ LocalOnly

\* What is left of a script after its first step.
LEMMA TailOrdered ==
    ASSUME NEW s \in Seq(Steps), Ordered(s), s # <<>>
    PROVE  /\ Tail(s) \in Seq(Steps) /\ Ordered(Tail(s)) /\ Elems(s) = {Head(s)} \cup Elems(Tail(s))
           /\ Head(s) = "publish" => Tail(s) # <<>> /\ Head(Tail(s)) = "update"
           /\ Head(s) = "seed" => Tail(s) # <<>> /\ Head(Tail(s)) = "decide"
           /\ Head(s) = "write" => "seed" \in Elems(Tail(s))
<1> DEFINE t == Tail(s)
<1>1. t \in Seq(Steps) /\ Len(t) = Len(s) - 1 /\ Len(s) \in Nat /\ Len(s) > 0 /\ Head(s) = s[1]
  OBVIOUS
<1>2. \A i \in 1..Len(t) : t[i] = s[i + 1]
  BY <1>1
<1>3. \A j \in 1..Len(s) : j > 1 => j - 1 \in 1..Len(t) /\ t[j - 1] = s[j]
  BY <1>1, <1>2
<1> HIDE DEF t
<1>4. Ordered(t)
  <2>1. ASSUME NEW i \in 1..Len(t) PROVE /\ t[i] = "publish" => i < Len(t) /\ t[i + 1] = "update"
                                         /\ t[i] = "seed" => i < Len(t) /\ t[i + 1] = "decide"
    <3>1. i + 1 \in 1..Len(s) /\ t[i] = s[i + 1]
      BY <1>1, <1>2, <2>1
    <3>2. i + 1 < Len(s) => i < Len(t) /\ t[i + 1] = s[i + 1 + 1]
      BY <1>1, <1>2, <2>1
    <3> QED
      BY <3>1, <3>2 DEF Ordered
  <2>2. ASSUME NEW i \in 1..Len(t), t[i] = "write" PROVE \E j \in 1..Len(t) : j > i /\ t[j] = "seed"
    <3>1. i + 1 \in 1..Len(s) /\ s[i + 1] = "write"
      BY <1>1, <1>2, <2>2
    <3>2. PICK j \in 1..Len(s) : j > i + 1 /\ s[j] = "seed"
      BY <3>1 DEF Ordered
    <3>3. j - 1 \in 1..Len(t) /\ j - 1 > i /\ t[j - 1] = "seed"
      BY <1>1, <1>3, <3>2
    <3> QED
      BY <3>3
  <2> QED
    BY <2>1, <2>2 DEF Ordered
<1>5. Elems(s) = {Head(s)} \cup Elems(t)
  <2>1. ASSUME NEW x \in Elems(s) PROVE x \in {Head(s)} \cup Elems(t)
    <3>1. PICK i \in 1..Len(s) : x = s[i]
      BY <2>1 DEF Elems
    <3>2. CASE i = 1
      BY <1>1, <3>1, <3>2
    <3>3. CASE i > 1
      BY <1>3, <3>1, <3>3 DEF Elems
    <3> QED
      BY <3>2, <3>3
  <2>2. ASSUME NEW x \in Elems(t) PROVE x \in Elems(s)
    <3>1. PICK i \in 1..Len(t) : x = t[i]
      BY <2>2 DEF Elems
    <3>2. i + 1 \in 1..Len(s) /\ x = s[i + 1]
      BY <1>1, <1>2, <3>1
    <3> QED
      BY <3>2 DEF Elems
  <2>3. Head(s) \in Elems(s)
    BY <1>1 DEF Elems
  <2> QED
    BY <2>1, <2>2, <2>3
<1>6. \A x : Len(s) > 1 /\ s[2] = x => t # <<>> /\ Head(t) = x
  <2> SUFFICES ASSUME Len(s) > 1 PROVE t # <<>> /\ Head(t) = s[2]
    OBVIOUS
  <2>1. Len(t) > 0 /\ t[1] = s[2]
    BY <1>1, <1>2
  <2> QED
    BY <1>1, <2>1
<1>7. /\ Head(s) = "publish" => t # <<>> /\ Head(t) = "update"
      /\ Head(s) = "seed" => t # <<>> /\ Head(t) = "decide"
  BY <1>1, <1>6 DEF Ordered
<1>8. Head(s) = "write" => "seed" \in Elems(t)
  <2> SUFFICES ASSUME Head(s) = "write" PROVE "seed" \in Elems(t)
    OBVIOUS
  <2>1. PICK j \in 1..Len(s) : j > 1 /\ s[j] = "seed"
    BY <1>1 DEF Ordered
  <2> QED
    BY <1>3, <2>1 DEF Elems
<1> QED
  BY <1>1, <1>4, <1>5, <1>7, <1>8 DEF t

\* The scripts a report begins with.
LEMMA Scripts ==
    /\ <<>> \in Seq(Steps) /\ Ordered(<<>>) /\ Elems(<<>>) = {}
    /\ \A x \in Steps \ {"publish", "seed", "write"} :
         /\ <<x>> \in Seq(Steps) /\ Ordered(<<x>>) /\ Elems(<<x>>) = {x}
         /\ Shared(x) \in Seq(Steps) /\ Ordered(Shared(x)) /\ Elems(Shared(x)) = {"check", "snapshot", "update", x}
         /\ Published(x) \in Seq(Steps) /\ Ordered(Published(x))
         /\ Elems(Published(x)) = {"publish", "update", "check", x}
<1>1. <<>> \in Seq(Steps) /\ Ordered(<<>>) /\ Elems(<<>>) = {}
  BY DEF Ordered, Elems
<1>2. ASSUME NEW x \in Steps \ {"publish", "seed", "write"}
      PROVE  <<x>> \in Seq(Steps) /\ Ordered(<<x>>) /\ Elems(<<x>>) = {x}
  BY DEF Ordered, Elems
<1>3. ASSUME NEW x \in Steps \ {"publish", "seed", "write"}
      PROVE  /\ Shared(x) \in Seq(Steps) /\ Ordered(Shared(x))
             /\ Elems(Shared(x)) = {"check", "snapshot", "update", x}
  <2>1. Shared(x) \in Seq(Steps) /\ Len(Shared(x)) = 4
    BY DEF Shared, Steps
  <2>2. Shared(x)[1] = "check" /\ Shared(x)[2] = "snapshot" /\ Shared(x)[3] = "update" /\ Shared(x)[4] = x
    BY DEF Shared
  <2>3. 1..4 = {1, 2, 3, 4}
    OBVIOUS
  <2> HIDE DEF Shared
  <2> QED
    BY <2>1, <2>2, <2>3 DEF Ordered, Elems
<1>4. ASSUME NEW x \in Steps \ {"publish", "seed", "write"}
      PROVE  /\ Published(x) \in Seq(Steps) /\ Ordered(Published(x))
             /\ Elems(Published(x)) = {"publish", "update", "check", x}
  <2>1. Published(x) \in Seq(Steps) /\ Len(Published(x)) = 4
    BY DEF Published, Steps
  <2>2. Published(x)[1] = "publish" /\ Published(x)[2] = "update" /\ Published(x)[3] = "check" /\ Published(x)[4] = x
    BY DEF Published
  <2>3. 1..4 = {1, 2, 3, 4}
    OBVIOUS
  <2> QED
    BY <2>1, <2>2, <2>3 DEF Ordered, Elems
<1> QED
  BY <1>1, <1>2, <1>3, <1>4

\* The script of attach_runtime_health, of a persisted record and of attach_database.
LEMMA LongScripts ==
    /\ LET s == <<"write", "sync_local", "attach_fanout", "seed", "decide", "publish", "update">>
       IN  s \in Seq(Steps) /\ Ordered(s) /\ Elems(s) = {"write", "sync_local", "attach_fanout", "seed", "decide",
                                                       "publish", "update"}
    /\ LET s == <<"check", "nbi_running", "snapshot", "update">>
       IN  s \in Seq(Steps) /\ Ordered(s) /\ Elems(s) = {"check", "nbi_running", "snapshot", "update"}
    /\ LET s == <<"check", "sync_local">>
       IN  s \in Seq(Steps) /\ Ordered(s) /\ Elems(s) = {"check", "sync_local"}
<1>1. 1..7 = {1, 2, 3, 4, 5, 6, 7} /\ 1..4 = {1, 2, 3, 4} /\ 1..2 = {1, 2}
  OBVIOUS
<1>2. LET s == <<"write", "sync_local", "attach_fanout", "seed", "decide", "publish", "update">>
      IN  s \in Seq(Steps) /\ Ordered(s) /\ Elems(s) = {"write", "sync_local", "attach_fanout", "seed", "decide",
                                                       "publish", "update"}
  <2> DEFINE s == <<"write", "sync_local", "attach_fanout", "seed", "decide", "publish", "update">>
  <2>1. s \in Seq(Steps) /\ Len(s) = 7
    BY DEF Steps
  <2>2. s[1] = "write" /\ s[2] = "sync_local" /\ s[3] = "attach_fanout" /\ s[4] = "seed" /\ s[5] = "decide"
        /\ s[6] = "publish" /\ s[7] = "update"
    OBVIOUS
  <2> HIDE DEF s
  <2>3. Ordered(s)
    BY <1>1, <2>1, <2>2 DEF Ordered
  <2>4. Elems(s) = {"write", "sync_local", "attach_fanout", "seed", "decide", "publish", "update"}
    BY <1>1, <2>1, <2>2 DEF Elems
  <2> QED
    BY <2>1, <2>3, <2>4 DEF s
<1>3. LET s == <<"check", "nbi_running", "snapshot", "update">>
      IN  s \in Seq(Steps) /\ Ordered(s) /\ Elems(s) = {"check", "nbi_running", "snapshot", "update"}
  BY <1>1 DEF Ordered, Elems, Steps
<1>4. LET s == <<"check", "sync_local">> IN s \in Seq(Steps) /\ Ordered(s) /\ Elems(s) = {"check", "sync_local"}
  BY <1>1 DEF Ordered, Elems, Steps
<1> QED
  BY <1>2, <1>3, <1>4

\* What a setter of the registry does to the latches.
Latches(g, export, nbi) ==
    /\ g \in RuntimeHealthState /\ LatchShown(g)
    /\ g.export_latched = export /\ g.nbi_latched = nbi

\* The setters of the distributed export (set_distributed_export_loss,
\* set_distributed_export_degraded, set_distributed_export_running).
LEMMA ExportSetters ==
    ASSUME NEW h \in RuntimeHealthState, LatchShown(h)
    PROVE  /\ Latches(set_distributed_export_loss(h), TRUE, h.nbi_latched)
           /\ Latches(set_distributed_export_degraded(h), h.export_latched, h.nbi_latched)
           /\ Latches(set_distributed_export_running(h), h.export_latched, h.nbi_latched)
<1> USE DEF Disabled, Starting, Running, Degraded
<1>1. ASSUME NEW x \in {Running, Degraded}, ~h.export_latched
      PROVE  Latches([h EXCEPT !.export = x], h.export_latched, h.nbi_latched)
  <2> DEFINE g == [h EXCEPT !.export = x]
  <2>1. g \in RuntimeHealthState
    BY DEF RuntimeHealthState
  <2>2. g.export_latched = h.export_latched /\ g.nbi_latched = h.nbi_latched /\ g.nbi = h.nbi
    BY DEF RuntimeHealthState
  <2> HIDE DEF g
  <2> QED
    BY <1>1, <2>1, <2>2 DEF Latches, LatchShown, g
<1>2. Latches(h, h.export_latched, h.nbi_latched)
  BY DEF Latches
<1>3. Latches(set_distributed_export_degraded(h), h.export_latched, h.nbi_latched)
  BY <1>1, <1>2 DEF set_distributed_export_degraded
<1>4. Latches(set_distributed_export_running(h), h.export_latched, h.nbi_latched)
  BY <1>1, <1>2 DEF set_distributed_export_running, SetExportUnlessSticky
<1>5. Latches(set_distributed_export_loss(h), TRUE, h.nbi_latched)
  <2> DEFINE yes == TRUE
             g == [h EXCEPT !.export_latched = yes, !.export = Degraded]
  <2>1. yes \in BOOLEAN
    BY Zenon
  <2> HIDE DEF yes
  <2>2. g \in RuntimeHealthState
    BY <2>1 DEF RuntimeHealthState
  <2>3. g.export_latched = yes /\ g.nbi_latched = h.nbi_latched /\ g.nbi = h.nbi /\ g.export = Degraded
    BY DEF RuntimeHealthState
  <2>4. g = set_distributed_export_loss(h)
    BY DEF set_distributed_export_loss, yes
  <2> HIDE DEF g
  <2> QED
    BY <2>2, <2>3, <2>4 DEF Latches, LatchShown, yes
<1> QED
  BY <1>3, <1>4, <1>5

\* The setters of the local pipeline (set_nbi_pipeline_loss,
\* set_nbi_pipeline_degraded, set_nbi_pipeline_running, set_nbi_pipeline_disabled).
LEMMA LocalSetters ==
    ASSUME NEW h \in RuntimeHealthState, LatchShown(h)
    PROVE  /\ Latches(set_nbi_pipeline_loss(h), h.export_latched, TRUE)
           /\ Latches(set_nbi_pipeline_degraded(h), h.export_latched, h.nbi_latched)
           /\ Latches(set_nbi_pipeline_running(h), h.export_latched, h.nbi_latched)
           /\ Latches(set_nbi_pipeline_disabled(h), h.export_latched, FALSE)
<1> USE DEF Disabled, Starting, Running, Degraded
<1>1. ASSUME NEW x \in {Running, Degraded}, ~h.nbi_latched
      PROVE  Latches([h EXCEPT !.nbi = x], h.export_latched, h.nbi_latched)
  <2> DEFINE g == [h EXCEPT !.nbi = x]
  <2>1. g \in RuntimeHealthState
    BY DEF RuntimeHealthState
  <2>2. g.export_latched = h.export_latched /\ g.nbi_latched = h.nbi_latched /\ g.export = h.export
    BY DEF RuntimeHealthState
  <2> HIDE DEF g
  <2> QED
    BY <1>1, <2>1, <2>2 DEF Latches, LatchShown, g
<1>2. Latches(h, h.export_latched, h.nbi_latched)
  BY DEF Latches
<1>3. Latches(set_nbi_pipeline_degraded(h), h.export_latched, h.nbi_latched)
  BY <1>1, <1>2 DEF set_nbi_pipeline_degraded
<1>4. Latches(set_nbi_pipeline_running(h), h.export_latched, h.nbi_latched)
  BY <1>1, <1>2 DEF set_nbi_pipeline_running
<1>5. ASSUME NEW b \in BOOLEAN, NEW x \in {Disabled, Degraded}, b => x = Degraded
      PROVE  Latches([h EXCEPT !.nbi_latched = b, !.nbi = x], h.export_latched, b)
  <2> DEFINE g == [h EXCEPT !.nbi_latched = b, !.nbi = x]
  <2>2. g \in RuntimeHealthState
    BY DEF RuntimeHealthState
  <2>3. g.export_latched = h.export_latched /\ g.nbi_latched = b /\ g.nbi = x /\ g.export = h.export
    BY DEF RuntimeHealthState
  <2> HIDE DEF g
  <2> QED
    BY <1>5, <2>2, <2>3 DEF Latches, LatchShown, g
<1>6. set_nbi_pipeline_disabled(h) = [h EXCEPT !.nbi_latched = FALSE, !.nbi = Disabled]
  BY DEF set_nbi_pipeline_disabled, RuntimeHealthState
<1>7. Latches([h EXCEPT !.nbi_latched = FALSE, !.nbi = Disabled], h.export_latched, FALSE)
      /\ Latches([h EXCEPT !.nbi_latched = TRUE, !.nbi = Degraded], h.export_latched, TRUE)
  BY <1>5, Zenon
<1> QED
  BY <1>3, <1>4, <1>6, <1>7 DEF set_nbi_pipeline_loss

\* A snapshot changes no latch (update_nbi_collector).
LEMMA SnapshotKeeps ==
    ASSUME NEW h \in RuntimeHealthState, LatchShown(h), NEW c \in CollectorSnapshot
    PROVE  Latches(update_nbi_collector(h, c), h.export_latched, h.nbi_latched)
<1> DEFINE g == [h EXCEPT !.collector = c]
<1>1. g \in RuntimeHealthState
  BY DEF RuntimeHealthState
<1>2. g.export_latched = h.export_latched /\ g.nbi_latched = h.nbi_latched /\ g.nbi = h.nbi /\ g.export = h.export
  BY DEF RuntimeHealthState
<1>3. LatchShown(g)
  BY <1>2 DEF LatchShown
<1>4. CASE ~g.export_latched /\ sticky_distributed_export_error(g)
  <2>1. update_nbi_collector(h, c) = set_distributed_export_degraded(g)
    BY <1>4 DEF update_nbi_collector, set_distributed_export_degraded
  <2> HIDE DEF g
  <2> QED
    BY <1>1, <1>2, <1>3, <2>1, ExportSetters DEF Latches
<1>5. CASE ~(~g.export_latched /\ sticky_distributed_export_error(g))
  <2>1. update_nbi_collector(h, c) = g
    BY <1>5 DEF update_nbi_collector
  <2> HIDE DEF g
  <2> QED
    BY <1>1, <1>2, <1>3, <2>1 DEF Latches
<1> QED
  BY <1>4, <1>5

\* What one reporter may do: the others keep their scripts and their promises.
LEMMA ReporterKeeps ==
    ASSUME ReportInv, NEW r \in Reporters, HealthTypeOK', Ordered(todo'[r]), LatchShown(health'),
           \A q \in Reporters : q # r => todo'[q] = todo[q] /\ snap'[q] = snap[q],
           attached' => attached \/ WillLatch(r)',
           counters'.export_dropped > 0 => counters.export_dropped > 0 \/ WillLatch(r)',
           health.export_latched => health'.export_latched,
           WillLatch(r) /\ attached' => WillLatch(r)' \/ health'.export_latched,
           localTarget' = localTarget, health'.nbi_latched => localTarget,
           "nbi_loss" \in Elems(todo'[r]) => localTarget, "nbi_disabled" \in Elems(todo'[r]) => ~localTarget
    PROVE  ReportInv'
<1>1. \A q \in Reporters : q # r => (WillLatch(q) => WillLatch(q)')
  BY DEF WillLatch, ReportAt, Idle
<1>2. LossComing'
  <2> SUFFICES ASSUME attached', counters'.export_dropped > 0, ~health'.export_latched
               PROVE  \E q \in Reporters : WillLatch(q)'
    BY DEF LossComing
  <2>1. CASE WillLatch(r)'
    BY <2>1
  <2>2. CASE ~WillLatch(r)'
    <3>1. PICK q \in Reporters : WillLatch(q)
      BY <2>2 DEF ReportInv, LossComing
    <3> QED
      BY <1>1, <2>2, <3>1
  <2> QED
    BY <2>1, <2>2
<1>3. LocalOnly'
  BY DEF ReportInv, LocalOnly
<1>4. \A q \in Reporters : Ordered(todo'[q])
  BY DEF ReportInv
<1> QED
  BY <1>2, <1>3, <1>4 DEF ReportInv

\* A reporter that is idle begins a script.
LEMMA StartKeeps ==
    ASSUME ReportInv, NEW r \in Reporters, Idle(r), NEW s \in Seq(Steps), Ordered(s),
           todo' = [todo EXCEPT ![r] = s], counters' \in Counters, lastError' \in BOOLEAN,
           failures' \in 0..FailureLimit, UNCHANGED <<health, attached, localTarget, fanoutHealth, snap>>,
           counters'.export_dropped > 0 => counters.export_dropped > 0 \/ "export_loss" \in Elems(s),
           "nbi_loss" \in Elems(s) => localTarget, "nbi_disabled" \notin Elems(s)
    PROVE  ReportInv'
<1>1. todo'[r] = s /\ \A q \in Reporters : q # r => todo'[q] = todo[q]
  BY DEF ReportInv, HealthTypeOK
<1>2. HealthTypeOK'
  BY DEF ReportInv, HealthTypeOK
<1>3. ~WillLatch(r)
  BY Scripts DEF WillLatch, ReportAt, Idle
<1>4. "export_loss" \in Elems(s) => WillLatch(r)'
  BY <1>1 DEF WillLatch
<1> QED
  BY <1>1, <1>2, <1>3, <1>4, ReporterKeeps DEF ReportInv, LocalOnly

\* The counters: atomic_fetch_add_saturating.
LEMMA BumpKeeps ==
    ASSUME ReportInv, NEW r \in Reporters,
           NEW c \in {"export_dropped", "export_rejected", "export_unknown", "local_lost"},
           NEW s \in Seq(Steps), Ordered(s), Bump(r, c, s), c = "export_dropped" => "export_loss" \in Elems(s),
           "nbi_loss" \in Elems(s) => localTarget, "nbi_disabled" \notin Elems(s)
    PROVE  ReportInv'
<1>1. counters \in Counters /\ failures \in 0..FailureLimit /\ lastError \in BOOLEAN
  BY DEF ReportInv, HealthTypeOK
<1>2. counters' = [counters EXCEPT ![c] = counters[c] + 1] /\ counters[c] < MaxCount
  BY DEF Bump
<1>3. counters[c] \in 0..MaxCount /\ counters[c] + 1 \in 0..MaxCount
  BY <1>1, <1>2, MaxCountAssumption DEF Counters
<1>4. counters' \in Counters
  BY <1>1, <1>2, <1>3 DEF Counters
<1>5. c # "export_dropped" => counters'.export_dropped = counters.export_dropped
  BY <1>1, <1>2 DEF Counters
<1> QED
  BY <1>1, <1>4, <1>5, StartKeeps DEF Bump

\* A report that counts nothing.
LEMMA ReportKeeps ==
    ASSUME ReportInv, NEW r \in Reporters, NEW s \in Seq(Steps), Ordered(s), Report(r, s),
           "nbi_loss" \in Elems(s) => localTarget, "nbi_disabled" \notin Elems(s)
    PROVE  ReportInv'
<1>1. counters \in Counters /\ failures \in 0..FailureLimit /\ lastError \in BOOLEAN
  BY DEF ReportInv, HealthTypeOK
<1> QED
  BY <1>1, StartKeeps DEF Report

\* Every way a report begins.
LEMMA StartStep ==
    ASSUME ReportInv, NEW r \in Reporters, StartReport(r)
    PROVE  ReportInv'
<1>0. {"export_loss", "export_degraded", "export_running", "nbi_loss", "nbi_degraded"}
        \subseteq Steps \ {"publish", "seed", "write"}
  BY DEF Steps
<1>1. CASE note_export_delivery_loss_shared(r)
  BY <1>0, <1>1, Scripts, BumpKeeps DEF note_export_delivery_loss_shared
<1>2. CASE note_export_delivery_unknown_shared(r)
  BY <1>0, <1>2, Scripts, BumpKeeps DEF note_export_delivery_unknown_shared
<1>3. CASE record_shutdown_export_loss(r)
  BY <1>0, <1>3, Scripts, BumpKeeps DEF record_shutdown_export_loss
<1>4. CASE drop_export_event(r)
  BY <1>0, <1>4, Scripts, BumpKeeps DEF drop_export_event
<1>5. CASE note_export_flush_issue_shared(r)
  BY <1>0, <1>5, Scripts, ReportKeeps DEF note_export_flush_issue_shared
<1>6. CASE drop_local_event(r)
  BY <1>0, <1>6, Scripts, BumpKeeps DEF drop_local_event
<1>7. CASE note_local_persist_issue_shared(r)
  BY <1>0, <1>7, Scripts, BumpKeeps, ReportKeeps DEF note_local_persist_issue_shared
<1>8. CASE local_record_persisted(r)
  BY <1>8, LongScripts, ReportKeeps DEF local_record_persisted
<1>9. ASSUME NEW ok \in BOOLEAN, update_runtime_health(r, ok) PROVE ReportInv'
  <2>1. /\ Idle(r) /\ lastError' \in BOOLEAN /\ counters' = counters
        /\ UNCHANGED <<health, attached, localTarget, fanoutHealth, snap>>
    BY <1>9 DEF update_runtime_health
  <2>2. failures' \in 0..FailureLimit
    BY <1>9, ReportingAssumption DEF update_runtime_health, ReportInv, HealthTypeOK
  <2>3. PICK s \in {<<"export_running">>, <<"export_degraded">>, <<>>} : todo' = [todo EXCEPT ![r] = s]
    <3>1. todo = [todo EXCEPT ![r] = <<>>]
      BY <2>1 DEF Idle, ReportInv, HealthTypeOK
    <3>2. CASE ok /\ fanoutHealth
      BY <1>9, <3>2 DEF update_runtime_health
    <3>3. CASE ~ok /\ fanoutHealth
      BY <1>9, <3>3 DEF update_runtime_health
    <3>4. CASE ~fanoutHealth
      BY <1>9, <3>1, <3>4 DEF update_runtime_health
    <3> QED
      BY <3>2, <3>3, <3>4
  <2>4. s \in Seq(Steps) /\ Ordered(s) /\ Elems(s) \subseteq {"export_running", "export_degraded"}
    <3>1. \A x \in {"export_running", "export_degraded"} :
            <<x>> \in Seq(Steps) /\ Ordered(<<x>>) /\ Elems(<<x>>) = {x}
      BY <1>0, Scripts
    <3> QED
      BY <2>3, <3>1, Scripts
  <2>5. counters' \in Counters /\ (counters'.export_dropped > 0 => counters.export_dropped > 0)
    BY <2>1 DEF ReportInv, HealthTypeOK
  <2> QED
    BY <2>1, <2>2, <2>3, <2>4, <2>5, StartKeeps
<1>10. CASE attach_runtime_health(r)
  BY <1>10, LongScripts, ReportKeeps DEF attach_runtime_health
<1>11. CASE attach_database(r)
  <2> DEFINE s == <<"check", "sync_local">>
  <2>1. s \in Seq(Steps) /\ Ordered(s) /\ Elems(s) = {"check", "sync_local"}
    BY LongScripts
  <2> HIDE DEF s
  <2>2. todo' = [todo EXCEPT ![r] = s] /\ localTarget' = TRUE /\ \A q \in Reporters : todo[q] = <<>>
        /\ UNCHANGED <<health, attached, fanoutHealth, lastError, failures, counters, snap>> /\ counters = Zero
    BY <1>11 DEF attach_database, Idle, s
  <2>3. todo'[r] = s /\ \A q \in Reporters : q # r => todo'[q] = <<>>
    BY <2>2 DEF ReportInv, HealthTypeOK
  <2>4. \A q \in Reporters : /\ todo'[q] \in Seq(Steps) /\ Ordered(todo'[q])
                             /\ Elems(todo'[q]) \subseteq {"check", "sync_local"}
    BY <2>1, <2>3, Scripts
  <2>5. HealthTypeOK'
    BY <2>1, <2>2 DEF ReportInv, HealthTypeOK
  <2>6. LossComing'
    <3>1. counters'.export_dropped = 0
      BY <2>2 DEF Zero
    <3> QED
      BY <3>1 DEF LossComing
  <2>7. LocalOnly' /\ LatchShown(health')
    BY <2>2, <2>4 DEF LocalOnly, ReportInv
  <2> QED
    BY <2>4, <2>5, <2>6, <2>7 DEF ReportInv
<1> QED
  BY <1>1, <1>2, <1>3, <1>4, <1>5, <1>6, <1>7, <1>8, <1>9, <1>10, <1>11 DEF StartReport

\* A reporter that takes a step of its script, other than those that latch a
\* loss or decide, keeps its promise to latch one.
LEMMA AdvanceKeeps ==
    ASSUME ReportInv, NEW r \in Reporters, ~Idle(r), Advance(r)
    PROVE  /\ todo[r] \in Seq(Steps) /\ todo'[r] = Tail(todo[r]) /\ Tail(todo[r]) \in Seq(Steps)
           /\ \A q \in Reporters : q # r => todo'[q] = todo[q]
           /\ todo' \in [Reporters -> Seq(Steps)] /\ Ordered(todo'[r])
           /\ Elems(todo[r]) = {Head(todo[r])} \cup Elems(todo'[r])
           /\ Head(todo[r]) \notin {"export_loss", "seed", "decide"} /\ WillLatch(r) => WillLatch(r)'
           /\ Head(todo[r]) = "decide" /\ ~(snap[r].export_dropped > 0) /\ WillLatch(r) => WillLatch(r)'
           /\ "nbi_loss" \in Elems(todo'[r]) => localTarget
           /\ "nbi_disabled" \in Elems(todo'[r]) => ~localTarget
<1>1. todo \in [Reporters -> Seq(Steps)] /\ todo[r] # <<>> /\ Ordered(todo[r])
  BY DEF ReportInv, HealthTypeOK, Idle
<1>2. todo' = [todo EXCEPT ![r] = Tail(todo[r])]
  BY DEF Advance
<1>3. todo[r] \in Seq(Steps) /\ todo'[r] = Tail(todo[r]) /\ \A q \in Reporters : q # r => todo'[q] = todo[q]
  BY <1>1, <1>2
<1>4. Tail(todo[r]) \in Seq(Steps) /\ Ordered(todo'[r]) /\ Elems(todo[r]) = {Head(todo[r])} \cup Elems(todo'[r])
  BY <1>1, <1>3, TailOrdered
<1>5. todo' \in [Reporters -> Seq(Steps)]
  BY <1>1, <1>2, <1>4
<1>6. /\ Head(todo[r]) \notin {"export_loss", "seed", "decide"} /\ WillLatch(r) => WillLatch(r)'
      /\ Head(todo[r]) = "decide" /\ ~(snap[r].export_dropped > 0) /\ WillLatch(r) => WillLatch(r)'
  BY <1>4 DEF WillLatch, ReportAt
<1>7. /\ "nbi_loss" \in Elems(todo'[r]) => localTarget
      /\ "nbi_disabled" \in Elems(todo'[r]) => ~localTarget
  BY <1>4 DEF ReportInv, LocalOnly
<1> QED
  BY <1>3, <1>4, <1>5, <1>6, <1>7

\* A step that calls the registry, or only reads: the latch of the export stays,
\* and a step that does not latch is not the one that promised to.
LEMMA RegistryStep ==
    ASSUME ReportInv, NEW r \in Reporters, ~Idle(r), Advance(r),
           health' \in RuntimeHealthState, LatchShown(health'),
           health.export_latched => health'.export_latched, health'.nbi_latched => localTarget,
           snap' \in [Reporters -> Counters], \A q \in Reporters : q # r => snap'[q] = snap[q],
           fanoutHealth' \in BOOLEAN, attached' \in BOOLEAN,
           attached' => attached \/ WillLatch(r)',
           WillLatch(r) => WillLatch(r)' \/ health'.export_latched,
           UNCHANGED <<localTarget, lastError, failures, counters>>
    PROVE  ReportInv'
<1>1. HealthTypeOK'
  BY AdvanceKeeps DEF ReportInv, HealthTypeOK
<1> QED
  BY <1>1, AdvanceKeeps, ReporterKeeps

\* Every step of a report.
LEMMA ReportSteps ==
    ASSUME ReportInv, NEW r \in Reporters, Step(r)
    PROVE  ReportInv'
<1>0. /\ health \in RuntimeHealthState /\ LatchShown(health) /\ snap \in [Reporters -> Counters]
      /\ fanoutHealth \in BOOLEAN /\ attached \in BOOLEAN /\ counters \in Counters
      /\ todo \in [Reporters -> Seq(Steps)] /\ (health.nbi_latched => localTarget) /\ Ordered(todo[r])
  BY DEF ReportInv, HealthTypeOK, LocalOnly
<1>1. CASE CheckAttached(r)
  <2>1. CASE attached
    BY <1>0, <1>1, <2>1, RegistryStep, AdvanceKeeps DEF CheckAttached, Advance, ReportAt
  <2>2. CASE ~attached
    <3>1. todo' = [todo EXCEPT ![r] = <<>>]
          /\ UNCHANGED <<health, attached, localTarget, fanoutHealth, lastError, failures, counters, snap>>
      BY <1>1, <2>2 DEF CheckAttached
    <3>2. todo'[r] = <<>> /\ \A q \in Reporters : q # r => todo'[q] = todo[q]
      BY <1>0, <3>1
    <3>3. HealthTypeOK'
      BY <3>1, Scripts DEF ReportInv, HealthTypeOK
    <3> QED
      BY <1>0, <2>2, <3>1, <3>2, <3>3, Scripts, ReporterKeeps
  <2> QED
    BY <2>1, <2>2
<1>2. CASE publish_runtime_health(r)
  <2>1. ReportAt(r, "publish") /\ UNCHANGED <<health, attached, localTarget, fanoutHealth, lastError, failures, counters>>
    BY <1>2 DEF publish_runtime_health
  <2>2. CASE attached
    <3>1. Advance(r) /\ snap' = [snap EXCEPT ![r] = counters]
      BY <1>2, <2>2 DEF publish_runtime_health
    <3> QED
      BY <1>0, <2>1, <2>2, <3>1, RegistryStep, AdvanceKeeps DEF ReportAt
  <2>3. CASE ~attached
    <3>1. todo' = [todo EXCEPT ![r] = Tail(Tail(todo[r]))] /\ snap' = snap
      BY <1>2, <2>3 DEF publish_runtime_health
    <3>2. todo[r] # <<>> /\ Tail(todo[r]) # <<>> /\ Tail(todo[r]) \in Seq(Steps) /\ Ordered(Tail(todo[r]))
          /\ Elems(Tail(todo[r])) \subseteq Elems(todo[r])
      BY <1>0, <2>1, TailOrdered DEF ReportAt, Idle
    <3>3. Tail(Tail(todo[r])) \in Seq(Steps) /\ Ordered(Tail(Tail(todo[r])))
          /\ Elems(Tail(Tail(todo[r]))) \subseteq Elems(todo[r])
      BY <3>2, TailOrdered
    <3>4. todo'[r] = Tail(Tail(todo[r])) /\ \A q \in Reporters : q # r => todo'[q] = todo[q]
      BY <1>0, <3>1
    <3>5. HealthTypeOK'
      BY <2>1, <3>1, <3>3 DEF ReportInv, HealthTypeOK
    <3>6. /\ "nbi_loss" \in Elems(todo'[r]) => localTarget
          /\ "nbi_disabled" \in Elems(todo'[r]) => ~localTarget
      BY <3>3, <3>4 DEF ReportInv, LocalOnly
    <3> QED
      BY <1>0, <2>1, <2>3, <3>1, <3>3, <3>4, <3>5, <3>6, ReporterKeeps
  <2> QED
    BY <2>2, <2>3
<1>3. CASE TakeSnapshot(r)
  <2>1. /\ ~Idle(r) /\ Head(todo[r]) \in {"snapshot", "seed"} /\ Advance(r) /\ snap' = [snap EXCEPT ![r] = counters]
        /\ UNCHANGED <<health, attached, localTarget, fanoutHealth, lastError, failures, counters>>
    BY <1>3 DEF TakeSnapshot, ReportAt
  <2>2. CASE Head(todo[r]) = "snapshot"
    BY <1>0, <2>1, <2>2, RegistryStep, AdvanceKeeps
  <2>3. CASE Head(todo[r]) = "seed"
    <3>1. todo'[r] = Tail(todo[r]) /\ Tail(todo[r]) # <<>> /\ Head(Tail(todo[r])) = "decide"
      BY <1>0, <2>1, <2>3, AdvanceKeeps, TailOrdered DEF Idle
    <3>2. counters.export_dropped > 0 => WillLatch(r)'
      BY <1>0, <2>1, <3>1 DEF WillLatch, ReportAt, Idle
    <3>3. HealthTypeOK'
      BY <1>0, <2>1, AdvanceKeeps DEF ReportInv, HealthTypeOK
    <3>4. \A q \in Reporters : q # r => todo'[q] = todo[q] /\ snap'[q] = snap[q]
      BY <1>0, <2>1, AdvanceKeeps
    <3>5. CASE counters.export_dropped > 0
      BY <1>0, <2>1, <3>2, <3>3, <3>4, <3>5, AdvanceKeeps, ReporterKeeps
    <3>6. CASE ~(counters.export_dropped > 0)
      <4>1. LossComing'
        BY <2>1, <3>6 DEF LossComing
      <4>2. LocalOnly'
        BY <2>1, <3>4, AdvanceKeeps DEF ReportInv, LocalOnly
      <4>3. \A q \in Reporters : Ordered(todo'[q])
        BY <2>1, <3>4, AdvanceKeeps DEF ReportInv
      <4> QED
        BY <1>0, <2>1, <3>3, <4>1, <4>2, <4>3 DEF ReportInv
    <3> QED
      BY <3>5, <3>6
  <2> QED
    BY <2>1, <2>2, <2>3
<1>4. CASE ApplySnapshot(r)
  <2> DEFINE c == [export_rejected |-> snap[r].export_rejected, export_unknown |-> snap[r].export_unknown]
  <2>1. c \in CollectorSnapshot
    BY <1>0 DEF Counters, CollectorSnapshot
  <2>2. health' = update_nbi_collector(health, c) /\ ~Idle(r) /\ Head(todo[r]) = "update" /\ Advance(r)
        /\ UNCHANGED <<attached, localTarget, fanoutHealth, lastError, failures, counters, snap>>
    BY <1>4 DEF ApplySnapshot, ReportAt
  <2> HIDE DEF c
  <2>3. Latches(health', health.export_latched, health.nbi_latched)
    BY <1>0, <2>1, <2>2, SnapshotKeeps
  <2> QED
    BY <1>0, <2>2, <2>3, RegistryStep, AdvanceKeeps DEF Latches
<1>5. CASE CallSetter(r)
  <2> DEFINE x == Head(todo[r])
  <2>1. x \in Setters /\ ~Idle(r) /\ Advance(r) /\ health' = Setter(health, x)
        /\ UNCHANGED <<attached, localTarget, fanoutHealth, lastError, failures, counters, snap>>
    BY <1>5 DEF CallSetter
  <2>2. x \in Elems(todo[r])
    BY <2>1, AdvanceKeeps
  <2>3. (x = "nbi_loss" => localTarget) /\ (x = "nbi_disabled" => ~localTarget)
    BY <2>2 DEF ReportInv, LocalOnly
  <2> HIDE DEF x
  <2>4. /\ health' \in RuntimeHealthState /\ LatchShown(health')
        /\ health.export_latched \/ x = "export_loss" => health'.export_latched
        /\ health'.nbi_latched => localTarget
    <3>1. CASE x = "export_loss"
      BY <1>0, <2>1, <3>1, ExportSetters DEF Setter, Latches
    <3>2. CASE x = "export_degraded"
      BY <1>0, <2>1, <3>2, ExportSetters DEF Setter, Latches
    <3>3. CASE x = "export_running"
      BY <1>0, <2>1, <3>3, ExportSetters DEF Setter, Latches
    <3>4. CASE x = "nbi_loss"
      BY <1>0, <2>1, <2>3, <3>4, LocalSetters DEF Setter, Latches
    <3>5. CASE x = "nbi_degraded"
      BY <1>0, <2>1, <3>5, LocalSetters DEF Setter, Latches
    <3>6. CASE x = "nbi_running"
      BY <1>0, <2>1, <3>6, LocalSetters DEF Setter, Latches
    <3>7. CASE x = "nbi_disabled"
      BY <1>0, <2>1, <3>7, LocalSetters DEF Setter, Latches
    <3> QED
      BY <2>1, <3>1, <3>2, <3>3, <3>4, <3>5, <3>6, <3>7 DEF Setters
  <2>5. x # "export_loss" => x \notin {"export_loss", "seed", "decide"}
    BY <2>1 DEF Setters
  <2> QED
    BY <1>0, <2>1, <2>4, <2>5, RegistryStep, AdvanceKeeps DEF x
<1>6. CASE WriteHandle(r)
  <2>1. ~Idle(r) /\ Head(todo[r]) = "write" /\ Advance(r) /\ attached' = TRUE
        /\ UNCHANGED <<health, localTarget, fanoutHealth, lastError, failures, counters, snap>>
    BY <1>6 DEF WriteHandle, ReportAt
  <2>2. "seed" \in Elems(Tail(todo[r]))
    BY <1>0, <2>1, TailOrdered DEF Idle
  <2>3. WillLatch(r)'
    BY <2>1, <2>2, AdvanceKeeps DEF WillLatch
  <2> QED
    BY <1>0, <2>1, <2>3, RegistryStep
<1>7. CASE sync_local_persistence_health(r)
  <2> DEFINE x == IF localTarget THEN "nbi_running" ELSE "nbi_disabled"
             s == [todo[r] EXCEPT ![1] = x]
  <2>1. ~Idle(r) /\ Head(todo[r]) = "sync_local" /\ todo' = [todo EXCEPT ![r] = s]
        /\ UNCHANGED <<health, attached, localTarget, fanoutHealth, lastError, failures, counters, snap>>
    BY <1>7 DEF sync_local_persistence_health, ReportAt
  <2>2. x \in {"nbi_running", "nbi_disabled"} /\ (x = "nbi_disabled" => ~localTarget)
    OBVIOUS
  <2> HIDE DEF x
  <2>3. /\ s \in Seq(Steps) /\ Len(s) = Len(todo[r]) /\ Len(s) \in Nat /\ Len(s) > 0 /\ s[1] = x
        /\ todo[r][1] = "sync_local" /\ \A i \in 1..Len(s) : i # 1 => s[i] = todo[r][i]
    BY <1>0, <2>1, <2>2 DEF Idle, Steps
  <2>4. todo'[r] = s /\ \A q \in Reporters : q # r => todo'[q] = todo[q]
    BY <1>0, <2>1
  <2>5. HealthTypeOK'
    BY <2>1, <2>3 DEF ReportInv, HealthTypeOK
  <2> HIDE DEF s
  <2>6. Ordered(s)
    <3>1. \A i \in 1..Len(s) : s[i] \in {"publish", "seed", "write"} => i # 1 /\ todo[r][i] = s[i]
      BY <2>2, <2>3
    <3>2. ASSUME NEW i \in 1..Len(s) PROVE /\ s[i] = "publish" => i < Len(s) /\ s[i + 1] = "update"
                                           /\ s[i] = "seed" => i < Len(s) /\ s[i + 1] = "decide"
      <4>1. i < Len(s) => i + 1 \in 1..Len(s) /\ s[i + 1] = todo[r][i + 1]
        BY <2>3, <3>2
      <4> QED
        BY <1>0, <2>3, <3>1, <4>1 DEF Ordered
    <3>3. ASSUME NEW i \in 1..Len(s), s[i] = "write" PROVE \E j \in 1..Len(s) : j > i /\ s[j] = "seed"
      <4>1. PICK j \in 1..Len(s) : j > i /\ todo[r][j] = "seed"
        BY <1>0, <2>3, <3>1, <3>3 DEF Ordered
      <4>2. j # 1
        BY <2>3, <4>1
      <4> QED
        BY <2>3, <4>1, <4>2
    <3> QED
      BY <3>2, <3>3 DEF Ordered
  <2>7. \A y \in Elems(s) : y = x \/ y \in Elems(todo[r])
    BY <2>3 DEF Elems
  <2>8. \A y \in Elems(todo[r]) : y = "sync_local" \/ y \in Elems(s)
    BY <2>3 DEF Elems
  <2>9. WillLatch(r) => WillLatch(r)'
    BY <2>1, <2>4, <2>8 DEF WillLatch, ReportAt
  <2>10. ("nbi_loss" \in Elems(s) => localTarget) /\ ("nbi_disabled" \in Elems(s) => ~localTarget)
    BY <2>2, <2>7 DEF ReportInv, LocalOnly
  <2> QED
    BY <1>0, <2>1, <2>4, <2>5, <2>6, <2>9, <2>10, ReporterKeeps
<1>8. CASE fanout_attach_runtime_health(r)
  <2>1. ~Idle(r) /\ Head(todo[r]) = "attach_fanout" /\ Advance(r) /\ fanoutHealth' = TRUE
        /\ UNCHANGED <<attached, localTarget, lastError, failures, counters, snap>>
    BY <1>8 DEF fanout_attach_runtime_health, ReportAt
  <2>2. Latches(health', health.export_latched, health.nbi_latched)
    BY <1>0, <1>8, ExportSetters DEF fanout_attach_runtime_health
  <2> QED
    BY <1>0, <2>1, <2>2, RegistryStep, AdvanceKeeps DEF Latches
<1>9. CASE ReplayEarlierLoss(r)
  <2>1. ~Idle(r) /\ Head(todo[r]) = "decide" /\ Advance(r)
        /\ UNCHANGED <<attached, localTarget, fanoutHealth, lastError, failures, counters, snap>>
    BY <1>9 DEF ReplayEarlierLoss, ReportAt
  <2>2. CASE snap[r].export_dropped > 0
    <3>1. Latches(health', TRUE, health.nbi_latched)
      BY <1>0, <1>9, <2>2, ExportSetters DEF ReplayEarlierLoss
    <3> QED
      BY <1>0, <2>1, <3>1, RegistryStep DEF Latches
  <2>3. CASE ~(snap[r].export_dropped > 0)
    <3>1. Latches(health', health.export_latched, health.nbi_latched)
      BY <1>0, <1>9, <2>3, ExportSetters DEF ReplayEarlierLoss, Latches
    <3> QED
      BY <1>0, <2>1, <2>3, <3>1, RegistryStep, AdvanceKeeps DEF Latches
  <2> QED
    BY <2>2, <2>3
<1> QED
  BY <1>1, <1>2, <1>3, <1>4, <1>5, <1>6, <1>7, <1>8, <1>9 DEF Step

\* No step takes the latch of a local loss back: set_nbi_pipeline_disabled is
\* called only where there is no local target, and then nothing was lost.
LEMMA LocalLatchKept ==
    ASSUME ReportInv, NEW r \in Reporters, StartReport(r) \/ Step(r), health.nbi_latched
    PROVE  health'.nbi_latched
<1>0. health \in RuntimeHealthState /\ LatchShown(health) /\ snap \in [Reporters -> Counters] /\ localTarget
  BY DEF ReportInv, HealthTypeOK, LocalOnly
<1>1. CASE UNCHANGED health
  BY <1>1
<1>2. CASE ApplySnapshot(r)
  <2> DEFINE c == [export_rejected |-> snap[r].export_rejected, export_unknown |-> snap[r].export_unknown]
  <2>1. c \in CollectorSnapshot
    BY <1>0 DEF Counters, CollectorSnapshot
  <2>2. health' = update_nbi_collector(health, c)
    BY <1>2 DEF ApplySnapshot
  <2> HIDE DEF c
  <2> QED
    BY <1>0, <2>1, <2>2, SnapshotKeeps DEF Latches
<1>3. CASE CallSetter(r)
  <2> DEFINE x == Head(todo[r])
  <2>1. x \in Setters /\ ~Idle(r) /\ Advance(r) /\ health' = Setter(health, x)
    BY <1>3 DEF CallSetter
  <2>2. x \in Elems(todo[r])
    BY <2>1, AdvanceKeeps
  <2>3. x # "nbi_disabled"
    BY <1>0, <2>2 DEF ReportInv, LocalOnly
  <2> HIDE DEF x
  <2>4. CASE x \in {"export_loss", "export_degraded", "export_running"}
    BY <1>0, <2>1, <2>4, ExportSetters DEF Setter, Latches
  <2>5. CASE x \in {"nbi_loss", "nbi_degraded", "nbi_running"}
    BY <1>0, <2>1, <2>5, LocalSetters DEF Setter, Latches
  <2> QED
    BY <2>1, <2>3, <2>4, <2>5 DEF Setters
<1>4. CASE fanout_attach_runtime_health(r)
  BY <1>0, <1>4, ExportSetters DEF fanout_attach_runtime_health, Latches
<1>5. CASE ReplayEarlierLoss(r)
  BY <1>0, <1>5, ExportSetters DEF ReplayEarlierLoss, Latches
<1>6. StartReport(r) => UNCHANGED health
  BY DEF StartReport, Bump, Report, note_export_delivery_loss_shared, note_export_delivery_unknown_shared,
         record_shutdown_export_loss, drop_export_event, note_export_flush_issue_shared, drop_local_event,
         note_local_persist_issue_shared, local_record_persisted, update_runtime_health, attach_runtime_health,
         attach_database
<1>7. CheckAttached(r) \/ publish_runtime_health(r) \/ TakeSnapshot(r) \/ WriteHandle(r)
        \/ sync_local_persistence_health(r) => UNCHANGED health
  BY DEF CheckAttached, publish_runtime_health, TakeSnapshot, WriteHandle, sync_local_persistence_health
<1> QED
  BY <1>1, <1>2, <1>3, <1>4, <1>5, <1>6, <1>7 DEF Step

\* A collector that was just built has reported nothing.
LEMMA InitReports == HealthInit => ReportInv
<1> SUFFICES ASSUME HealthInit PROVE ReportInv
  OBVIOUS
<1>1. NewHealth \in RuntimeHealthState /\ ~NewHealth.export_latched /\ ~NewHealth.nbi_latched
  <2>1. NewHealth.export_latched = FALSE /\ NewHealth.nbi_latched = FALSE
    BY DEF NewHealth
  <2>2. NewHealth \in RuntimeHealthState
    BY MaxCountAssumption DEF NewHealth, RuntimeHealthState, CollectorSnapshot, Disabled, Starting, Running, Degraded
  <2> QED
    BY <2>1, <2>2
<1>2. Zero \in Counters /\ Zero.export_dropped = 0
  BY MaxCountAssumption DEF Zero, Counters
<1>3. HealthTypeOK
  <2>1. <<>> \in Seq(Steps)
    BY Scripts
  <2>2. todo \in [Reporters -> Seq(Steps)] /\ snap \in [Reporters -> Counters] /\ counters \in Counters
    BY <1>2, <2>1 DEF HealthInit
  <2>3. failures \in 0..FailureLimit /\ health \in RuntimeHealthState
    BY <1>1, ReportingAssumption DEF HealthInit
  <2>4. attached \in BOOLEAN /\ localTarget \in BOOLEAN /\ fanoutHealth \in BOOLEAN /\ lastError \in BOOLEAN
    BY Zenon DEF HealthInit
  <2> QED
    BY <2>2, <2>3, <2>4 DEF HealthTypeOK
<1>4. LatchShown(health)
  BY <1>1 DEF HealthInit, LatchShown
<1>5. LossComing
  BY <1>2 DEF HealthInit, LossComing
<1>6. \A r \in Reporters : todo[r] = <<>>
  BY DEF HealthInit
<1>7. LocalOnly /\ \A r \in Reporters : Ordered(todo[r])
  BY <1>1, <1>6, Scripts DEF HealthInit, LocalOnly
<1> QED
  BY <1>3, <1>4, <1>5, <1>7 DEF ReportInv

\* A step of the reporters, or of nobody.
LEMMA NextReports == ReportInv /\ [HealthNext]_healthVars => ReportInv'
<1> SUFFICES ASSUME ReportInv, [HealthNext]_healthVars PROVE ReportInv'
  OBVIOUS
<1>1. ASSUME NEW r \in Reporters, StartReport(r) \/ Step(r) PROVE ReportInv'
  BY <1>1, StartStep, ReportSteps
<1>2. CASE UNCHANGED healthVars
  <2>1. /\ health' = health /\ attached' = attached /\ localTarget' = localTarget /\ fanoutHealth' = fanoutHealth
        /\ lastError' = lastError /\ failures' = failures /\ counters' = counters /\ todo' = todo /\ snap' = snap
    BY <1>2 DEF healthVars
  <2>2. HealthTypeOK'
    BY <2>1 DEF ReportInv, HealthTypeOK
  <2>3. LossComing'
    BY <2>1 DEF ReportInv, LossComing, WillLatch, ReportAt, Idle
  <2>4. LocalOnly'
    BY <2>1 DEF ReportInv, LocalOnly
  <2>5. LatchShown(health)' /\ \A r \in Reporters : Ordered(todo[r])'
    BY <2>1 DEF ReportInv
  <2> QED
    BY <2>2, <2>3, <2>4, <2>5 DEF ReportInv
<1> QED
  BY <1>1, <1>2 DEF HealthNext

\* The invariant of the reports: the scripts, the latches and the promises to latch.
THEOREM ReportsInvariant == HealthSpec => []ReportInv
<1> QED
  BY InitReports, NextReports, PTL DEF HealthSpec

\* attach_runtime_health and the reports of the export's losses cannot miss
\* each other, however many tasks report and however their steps interleave: a
\* loss counted before the registry was there is replayed, one counted after
\* is latched by the report that counted it.
THEOREM LossIsVisible == HealthSpec => []ExportLossVisible
<1>1. ReportInv => ExportLossVisible
  <2> SUFFICES ASSUME ReportInv, Quiet, attached, counters.export_dropped > 0
               PROVE  health.export_latched /\ health.export = Degraded
    BY DEF ExportLossVisible
  <2>1. \A r \in Reporters : ~WillLatch(r)
    BY Scripts DEF Quiet, WillLatch, ReportAt, Idle
  <2>2. health.export_latched
    BY <2>1 DEF ReportInv, LossComing
  <2> QED
    BY <2>2 DEF ReportInv, LatchShown
<1> QED
  BY <1>1, ReportsInvariant, PTL

\* A local loss that set_nbi_pipeline_loss has latched stays latched and shown
\* through every later report of every task, sync_local_persistence_health included.
THEOREM LocalLossStays == HealthSpec => NbiLossNotMasked
<1>1. ReportInv /\ ReportInv' /\ [HealthNext]_healthVars
        => [health.nbi_latched => health'.nbi_latched /\ health'.nbi = Degraded]_healthVars
  <2> SUFFICES ASSUME ReportInv, ReportInv', HealthNext, health.nbi_latched
               PROVE  health'.nbi_latched /\ health'.nbi = Degraded
    OBVIOUS
  <2>1. PICK r \in Reporters : StartReport(r) \/ Step(r)
    BY DEF HealthNext
  <2>2. health'.nbi_latched
    BY <2>1, LocalLatchKept
  <2> QED
    BY <2>2 DEF ReportInv, LatchShown
<1> QED
  BY <1>1, ReportsInvariant, PTL DEF HealthSpec, NbiLossNotMasked

-----------------------------------------------------------------------------
(* The export pipeline.  The depth counter `queued`, the trackers and the  *)
(* channel are each updated on their own, so the invariant says where an   *)
(* event may be at each place of its producer and of the worker, what each *)
(* tracker may claim, and that an event which is gone without having       *)
(* arrived is in a counter or in the tally of a reconciliation under way.  *)

\* A tracker as note_enqueued leaves it.
Waiting == [Absent EXCEPT !.present = TRUE, !.queued = TRUE]

\* The events and commands in the channel.
InChan(x) == \E i \in 1..Len(chan) : chan[i] = x
Reached == accepted \cup maybe
BeingSent(e) == wk.pc \in {"count", "send"} /\ wk.ev = e

Reconciling == [step : {"none", "swap", "drop", "mark"}, lost : 0..(2 * UsizeModulus)]

DataTypes ==
    /\ pending \in [Events -> Tracker] /\ held \in [Sinks -> SUBSET Events]
    /\ queued \in 0..(UsizeModulus - 1)
    /\ accepted \subseteq Events /\ maybe \subseteq Events
    /\ dropped \in Nat /\ unknown \in Nat /\ rejected \in Nat

SlotTypes ==
    /\ chan \in Seq(Events \cup Commands) /\ Len(chan) <= Capacity
    /\ alive \in BOOLEAN /\ handle \in BOOLEAN /\ lock \in Actors \cup {Nobody}
    /\ wk \in [pc : {"idle", "count", "send", "command"}, ev : Events \cup Commands \cup {NoEvent}]
    /\ ~alive => chan = <<>> /\ wk = IdleWorker

PlaceTypes ==
    /\ pc \in [Actors -> ProducerPc \cup ControllerPc] /\ \A e \in Events : pc[e] \in ProducerPc
    /\ pc[Ctl] \in ControllerPc /\ pc[Sup] \in {"run", "stopped"}
    /\ tries \in [Events -> 0..2]
    /\ rc \in [Actors -> Reconciling]
    /\ ack \in {"none", "waiting", "ok", "err", "gone"} /\ timed_out \in BOOLEAN /\ crashes \in 0..MaxCrashes

Typed == DataTypes /\ SlotTypes /\ PlaceTypes

\* A producer that has not noted its record yet.
Unnoted == {"new", "ensure", "spawn", "note"}

Unsent(e) ==
    /\ pending[e] \in {Absent, Waiting} /\ e \notin Reached /\ e \notin held[s1]
    /\ ~InChan(e) /\ wk.ev # e

Producers == \A e \in Events :
    /\ pc[e] \in Unnoted \cup {"count", "send"} => tries[e] <= 1
    /\ pc[e] # "done" => Unsent(e)
    /\ pc[e] \in Unnoted => pending[e] = Absent
    /\ pc[e] \notin {"ensure", "spawn"} => Ready(e)

Worker ==
    /\ wk.pc \in {"count", "send"} => wk.ev \in Events
    /\ wk.pc = "command" => wk.ev \in Commands
    /\ wk.pc = "idle" => wk = IdleWorker
    /\ \A i, j \in 1..Len(chan) : chan[i] \in Events /\ chan[i] = chan[j] => i = j
    /\ wk.ev \in Events => ~InChan(wk.ev)
    /\ \A e \in Events : InChan(e) \/ wk.ev = e => e \notin held[s1]

Locks ==
    /\ lock # Nobody => ~alive
    /\ lock # Nobody => \/ lock \in Events /\ pc[lock] = "spawn"
                        \/ lock = Ctl /\ pc[Ctl] \in {"spawn1", "spawn2"}
    /\ alive => handle \/ pc[Ctl] = "join"

Over == {"fallback3", "swap", "drop", "halt", "stopped"}

Stages ==
    /\ pc[Ctl] # "run" => \A e \in Events : pc[e] \in {"new", "done"} /\ Ready(e)
    /\ pc[Ctl] \in Over => ~alive
    /\ pc[Ctl] \in {"halt", "stopped"} => pending = NoRecords /\ held[s1] = {}
    /\ pc[Ctl] = "stopped" => pc[Sup] = "stopped" /\ Ready(Sup)
    /\ pc[Ctl] \in {"drop", "halt", "stopped"} => Ready(Ctl)

\* What a reconciliation found lost is kept until it is counted.
Tallies == \A a \in Actors :
    /\ rc[a].step \in {"none", "swap"} /\ (a = Ctl => pc[Ctl] # "drop") => rc[a].lost = 0
    /\ rc[a].step # "mark" => rc[a].lost < UsizeModulus

\* What a tracker says is true.
Sound(t, here, reached, sent) ==
    /\ ~t.present => t = Absent
    /\ t.present /\ ~t.unknown => t.queued \/ t.in_flight \/ t.buffered_by # {}
    /\ t.delivered => reached
    /\ t.unknown => t.unknown_reported \/ reached
    /\ t.in_flight => reached \/ sent
    /\ t.buffered_by # {} => here
    /\ sent => ~here /\ (t.in_flight \/ ~t.present \/ t.unknown_reported)

Trackers == \A e \in Events : Sound(pending[e], e \in held[s1], e \in Reached, BeingSent(e))

\* A tracker that is gone, or has said that the outcome is unknown.
Untraced(t) == ~t.present \/ t.unknown_reported

\* Noted, not known to have arrived, and counted: the tracker is gone or has said so.
Gone == {e \in Events : /\ pc[e] \notin Unnoted /\ e \notin Reached
                        /\ Untraced(pending[e])}

\* What the reconciliations under way will count.
PoolOf(R) == {x \in Actors \X (1..(2 * UsizeModulus)) : x[2] <= R[x[1]].lost}
Pool == PoolOf(rc)

LossesCounted == Cardinality(Gone) <= dropped + unknown + rejected + Cardinality(Pool)

PipelineInv == Typed /\ Producers /\ Worker /\ Locks /\ Stages /\ Tallies /\ Trackers /\ LossesCounted


-----------------------------------------------------------------------------
(* One tracker *)

LEMMA OneSink == Sinks = {s1} /\ s1 \in Sinks
  BY PipelineAssumption

LEMMA BlankFields ==
    /\ Absent \in Tracker /\ Waiting \in Tracker
    /\ ~Absent.present /\ ~Absent.queued /\ ~Absent.in_flight /\ Absent.buffered_by = {}
    /\ ~Absent.delivered /\ ~Absent.unknown /\ ~Absent.unknown_reported
    /\ Waiting.present /\ Waiting.queued /\ ~Waiting.in_flight /\ Waiting.buffered_by = {}
    /\ ~Waiting.delivered /\ ~Waiting.unknown /\ ~Waiting.unknown_reported
  BY DEF Absent, Waiting, Tracker

LEMMA BlankSound ==
    ASSUME NEW here \in BOOLEAN, NEW reached \in BOOLEAN, NEW sent \in BOOLEAN, sent => ~here
    PROVE  Sound(Absent, here, reached, sent) /\ Sound(Waiting, here, reached, FALSE)
  BY BlankFields DEF Sound

\* The fields of one tracker but for its buffers.
Alike(r, t) ==
    /\ r.queued <=> t.queued
    /\ r.in_flight <=> t.in_flight
    /\ r.delivered <=> t.delivered
    /\ r.unknown <=> t.unknown
    /\ r.unknown_reported <=> t.unknown_reported

LEMMA DefaultFields ==
    ASSUME NEW t \in Tracker, ~t.present => t = Absent
    PROVE  /\ OrDefault(t) \in Tracker /\ OrDefault(t).present /\ Alike(OrDefault(t), t)
           /\ OrDefault(t).buffered_by = t.buffered_by /\ (t.present => OrDefault(t) = t)
  BY DEF OrDefault, Tracker, Alike

\* sync_pending_records_with_buffers for one event, with one sink and a map
\* that is never behind the sink.
LEMMA SyncOne ==
    ASSUME NEW t \in Tracker, NEW e, NEW h \in [Sinks -> SUBSET Events],
           ~t.present => t = Absent, t.buffered_by # {} => e \in h[s1]
    PROVE  LET r == SyncTracker(t, e, h, {})
           IN  /\ r \in Tracker /\ (r.present <=> t.present \/ e \in h[s1]) /\ Alike(r, t)
               /\ (~r.present => r = Absent)
               /\ (r.buffered_by # {} <=> e \in h[s1]) /\ (e \notin h[s1] => r = t)
<1> DEFINE now == {s \in Sinks : e \in h[s]}
           b == IF now = {} THEN t ELSE [OrDefault(t) EXCEPT !.buffered_by = @ \cup now]
           c == [b EXCEPT !.buffered_by = @ \cap now, !.delivered = @ \/ b.buffered_by \ now # {}]
           r == SyncTracker(t, e, h, {})
<1>1. r = IF ~b.present THEN Absent ELSE c
  BY DEF SyncTracker
<1>2. t.buffered_by \subseteq {s1} /\ (e \in h[s1] => now = {s1}) /\ (e \notin h[s1] => now = {})
  BY OneSink DEF Tracker
<1>3. CASE e \notin h[s1]
  <2>1. b = t /\ now = {} /\ t.buffered_by = {}
    BY <1>2, <1>3
  <2>2. c = [t EXCEPT !.buffered_by = t.buffered_by \cap now, !.delivered = t.delivered \/ t.buffered_by \ now # {}]
    BY <2>1
  <2>3. c = t
    <3> HIDE DEF now, c, b
    <3> QED
      BY <2>1, <2>2 DEF Tracker
  <2>4. r = t
    BY <1>1, <2>1, <2>3
  <2> QED
    BY <1>3, <2>1, <2>4 DEF Alike
<1>4. CASE e \in h[s1]
  <2>1. now = {s1} /\ b = [OrDefault(t) EXCEPT !.buffered_by = t.buffered_by \cup now]
    BY <1>2, <1>4, DefaultFields
  <2>2. /\ b \in Tracker /\ b.present /\ Alike(b, t) /\ b.buffered_by = {s1}
    <3> HIDE DEF now, b
    <3> QED
      BY <1>2, <2>1, DefaultFields, OneSink DEF Tracker, Alike
  <2>3. c = [b EXCEPT !.buffered_by = b.buffered_by \cap now, !.delivered = b.delivered \/ b.buffered_by \ now # {}]
    OBVIOUS
  <2>4. c \in Tracker /\ c.present /\ Alike(c, b) /\ c.buffered_by = {s1}
    <3> HIDE DEF now, b, c
    <3> QED
      BY ZenonT(60), <2>1, <2>2, <2>3, OneSink DEF Tracker, Alike
  <2>5. r = c
    BY <1>1, <2>2
  <2> HIDE DEF r, b, c, now
  <2> QED
    BY <1>4, <2>2, <2>4, <2>5 DEF Alike, r
<1> QED
  BY <1>3, <1>4

\* finalize_tracker_if_resolved.
LEMMA FinalOne ==
    ASSUME NEW t \in Tracker
    PROVE  /\ Finalized(t) \in Tracker
           /\ Resolved(t) => Finalized(t) = Absent
           /\ ~Resolved(t) => Finalized(t) = t
  BY BlankFields DEF Finalized

\* drop_queued_records, for one event: what it takes out without a word is lost.
LEMMA DropOne ==
    ASSUME NEW t \in Tracker, NEW q \in Tracker, NEW here \in BOOLEAN, NEW reached \in BOOLEAN, NEW sent \in BOOLEAN,
           Sound(t, here, reached, sent), q.present <=> t.present \/ here, ~q.present => q = Absent, Alike(q, t),
           q.buffered_by # {} <=> here, ~here => q = t
    PROVE  LET r == IF q.queued THEN Finalized(Unqueued(q)) ELSE q
           IN  /\ r \in Tracker /\ Sound(r, here /\ ~q.queued, reached, sent)
               /\ Untraced(r) => Untraced(t) \/ reached \/ (q.queued /\ IsFinalLoss(Unqueued(q)))
<1> DEFINE u == Unqueued(q)
           r == IF q.queued THEN Finalized(u) ELSE q
<1>1. /\ u \in Tracker /\ (u.present <=> q.present) /\ ~u.queued /\ u.buffered_by = {}
      /\ (u.in_flight <=> q.in_flight) /\ (u.delivered <=> q.delivered)
      /\ (u.unknown <=> q.unknown) /\ (u.unknown_reported <=> q.unknown_reported)
  BY DEF Unqueued, Tracker
<1>2. CASE ~q.queued
  <2>1. r = q
    BY <1>2
  <2>2. Sound(q, here, reached, sent)
    BY <1>2, BlankFields DEF Sound, Alike
  <2> QED
    BY <1>2, <2>1, <2>2 DEF Untraced, Alike
<1>3. CASE q.queued
  <2>1. r = Finalized(u) /\ q.present
    BY <1>3, BlankFields
  <2> HIDE DEF u, r
  <2>2. CASE Resolved(u)
    <3>1. r = Absent
      BY <2>1, <2>2, <1>1, FinalOne
    <3>2. (~u.unknown /\ ~u.delivered) \/ Untraced(t) \/ reached
      BY <1>1 DEF Sound, Alike, Untraced
    <3>3. Sound(r, FALSE, reached, sent)
      BY <3>1, BlankSound
    <3>4. IsFinalLoss(u) \/ Untraced(t) \/ reached
      BY <2>2, <3>2 DEF IsFinalLoss
    <3> QED
      BY <1>3, <3>1, <3>3, <3>4, BlankFields DEF u, r
  <2>3. CASE ~Resolved(u)
    <3>1. r = u
      BY <2>1, <2>3, <1>1, FinalOne
    <3>2. Sound(u, FALSE, reached, sent)
      BY <1>1, <2>1, <2>3 DEF Sound, Alike, Resolved
    <3>3. Untraced(u) => Untraced(t)
      BY <1>1, <2>1 DEF Untraced, Alike
    <3> QED
      BY <1>1, <1>3, <3>1, <3>2, <3>3 DEF u, r
  <2> QED
    BY <2>2, <2>3
<1> QED
  BY <1>2, <1>3

\* mark_inflight_unknown, for one event.
LEMMA MarkOne ==
    ASSUME NEW t \in Tracker, NEW here \in BOOLEAN, NEW reached \in BOOLEAN, NEW sent \in BOOLEAN,
           Sound(t, here, reached, sent)
    PROVE  LET r == IF t.in_flight
                    THEN Finalized([t EXCEPT !.in_flight = FALSE, !.unknown = TRUE, !.unknown_reported = TRUE])
                    ELSE t
           IN  /\ r \in Tracker /\ Sound(r, here, reached, sent)
               /\ Untraced(r) => Untraced(t) \/ (t.in_flight /\ ~t.unknown_reported)
<1> DEFINE u == [t EXCEPT !.in_flight = FALSE, !.unknown = TRUE, !.unknown_reported = TRUE]
           r == IF t.in_flight THEN Finalized(u) ELSE t
<1>1. /\ u \in Tracker /\ (u.present <=> t.present) /\ (u.queued <=> t.queued) /\ ~u.in_flight
      /\ u.buffered_by = t.buffered_by /\ (u.delivered <=> t.delivered) /\ u.unknown /\ u.unknown_reported
  BY DEF Tracker
<1>2. CASE ~t.in_flight
  BY <1>2
<1>3. CASE t.in_flight
  <2>1. r = Finalized(u) /\ t.present
    BY <1>3, BlankFields DEF Sound
  <2> HIDE DEF u, r
  <2>2. r = Absent \/ r = u
    BY <1>1, <2>1, FinalOne
  <2>3. Sound(Absent, here, reached, sent) /\ Sound(u, here, reached, sent)
    BY <1>1, <2>1, BlankSound DEF Sound
  <2> QED
    BY <1>1, <1>3, <2>2, <2>3, BlankFields DEF u, r, Untraced
<1> QED
  BY <1>2, <1>3

\* What sync_pending_records_with_buffers leaves of a tracker, whatever has
\* left the buffer since: the event that did counts as delivered.
LEMMA SyncAny ==
    ASSUME NEW t \in Tracker, NEW e, NEW h \in [Sinks -> SUBSET Events], ~t.present => t = Absent
    PROVE  LET r == SyncTracker(t, e, h, {})
           IN  /\ r \in Tracker /\ (r.present <=> t.present \/ e \in h[s1]) /\ (~r.present => r = Absent)
               /\ (r.queued <=> t.queued) /\ (r.in_flight <=> t.in_flight)
               /\ (r.unknown <=> t.unknown) /\ (r.unknown_reported <=> t.unknown_reported)
               /\ (r.delivered <=> t.delivered \/ (t.buffered_by # {} /\ e \notin h[s1]))
               /\ (r.buffered_by # {} <=> e \in h[s1])
<1>1. CASE t.buffered_by # {} => e \in h[s1]
  BY <1>1, SyncOne DEF Alike
<1>2. CASE t.buffered_by # {} /\ e \notin h[s1]
  <2> DEFINE now == {s \in Sinks : e \in h[s]}
             c == [t EXCEPT !.buffered_by = t.buffered_by \cap now,
                            !.delivered = t.delivered \/ t.buffered_by \ now # {}]
  <2>1. now = {} /\ t.present
    BY <1>2, OneSink, BlankFields
  <2>2. SyncTracker(t, e, h, {}) = c
    BY <2>1 DEF SyncTracker
  <2>3. /\ c \in Tracker /\ c.present /\ (c.queued <=> t.queued) /\ (c.in_flight <=> t.in_flight)
        /\ (c.unknown <=> t.unknown) /\ (c.unknown_reported <=> t.unknown_reported)
        /\ c.delivered /\ c.buffered_by = {}
    <3> HIDE DEF now
    <3> QED
      BY <1>2, <2>1 DEF Tracker
  <2> HIDE DEF c
  <2> QED
    BY <1>2, <2>1, <2>2, <2>3
<1> QED
  BY <1>1, <1>2

\* Sound, but for an event that has left the buffer and arrived.
Loose(t, here, reached, sent) ==
    /\ ~t.present => t = Absent
    /\ t.present /\ ~t.unknown => t.queued \/ t.in_flight \/ t.buffered_by # {} \/ reached
    /\ t.delivered => reached
    /\ t.unknown => t.unknown_reported \/ reached
    /\ t.in_flight => reached \/ sent
    /\ t.buffered_by # {} => here \/ reached
    /\ sent => ~here /\ (t.in_flight \/ ~t.present \/ t.unknown_reported)

LEMMA SyncLoose ==
    ASSUME NEW t \in Tracker, NEW e, NEW h \in [Sinks -> SUBSET Events], NEW reached \in BOOLEAN, NEW sent \in BOOLEAN,
           Loose(t, e \in h[s1], reached, sent)
    PROVE  LET r == SyncTracker(t, e, h, {})
           IN  /\ r \in Tracker /\ Loose(r, e \in h[s1], reached, sent) /\ (Untraced(r) => Untraced(t))
               /\ (r.buffered_by # {} <=> e \in h[s1])
<1> DEFINE r == SyncTracker(t, e, h, {})
<1>1. ~t.present => t = Absent
  BY DEF Loose
<1>2. /\ r \in Tracker /\ (r.present <=> t.present \/ e \in h[s1]) /\ (~r.present => r = Absent)
      /\ (r.queued <=> t.queued) /\ (r.in_flight <=> t.in_flight)
      /\ (r.unknown <=> t.unknown) /\ (r.unknown_reported <=> t.unknown_reported)
      /\ (r.delivered <=> t.delivered \/ (t.buffered_by # {} /\ e \notin h[s1]))
      /\ (r.buffered_by # {} <=> e \in h[s1])
  BY <1>1, SyncAny
<1> HIDE DEF r
<1>3. Loose(r, e \in h[s1], reached, sent)
  BY <1>2, BlankFields DEF Loose
<1>4. Untraced(r) => Untraced(t)
  BY <1>2 DEF Untraced
<1> QED
  BY <1>2, <1>3, <1>4 DEF r

\* refresh_pending_records_from_buffers, for one event.
LEMMA RefreshLoose ==
    ASSUME NEW t \in Tracker, NEW e, NEW h \in [Sinks -> SUBSET Events], NEW reached \in BOOLEAN, NEW sent \in BOOLEAN,
           Loose(t, e \in h[s1], reached, sent)
    PROVE  LET q == SyncTracker(t, e, h, {})
               r == IF q.unknown THEN q ELSE Finalized(q)
           IN  /\ r \in Tracker /\ Sound(r, e \in h[s1], reached, sent)
               /\ Untraced(r) => Untraced(t) \/ reached
<1> DEFINE q == SyncTracker(t, e, h, {})
           r == IF q.unknown THEN q ELSE Finalized(q)
<1>1. /\ q \in Tracker /\ Loose(q, e \in h[s1], reached, sent) /\ (Untraced(q) => Untraced(t))
      /\ (q.buffered_by # {} <=> e \in h[s1])
  BY SyncLoose
<1> HIDE DEF q
<1>2. CASE Resolved(q) /\ ~q.unknown
  <2>1. r = Absent /\ reached
    BY <1>1, <1>2, FinalOne DEF Loose, Resolved
  <2>2. sent => e \notin h[s1]
    BY <1>1 DEF Loose
  <2>3. Sound(Absent, e \in h[s1], reached, sent)
    BY <2>2, BlankFields DEF Sound
  <2> QED
    BY <2>1, <2>3, BlankFields DEF q
<1>3. CASE ~(Resolved(q) /\ ~q.unknown)
  <2>1. r = q
    BY <1>1, <1>3, FinalOne
  <2>2. Sound(q, e \in h[s1], reached, sent)
    BY <1>1, <1>3 DEF Loose, Sound, Resolved
  <2> QED
    BY <1>1, <2>1, <2>2 DEF q
<1> QED
  BY <1>2, <1>3

\* consume_unknown_sink_events, for an event that a sink handed out: its
\* delivery may have happened.
LEMMA ConsumeLoose ==
    ASSUME NEW t \in Tracker, NEW e, NEW h \in [Sinks -> SUBSET Events], NEW sent \in BOOLEAN,
           Loose(t, e \in h[s1], TRUE, sent), e \notin h[s1]
    PROVE  LET q == SyncTracker(t, e, h, {})
               r == Finalized([OrDefault(q) EXCEPT !.queued = FALSE, !.in_flight = FALSE,
                                    !.unknown = TRUE, !.unknown_reported = TRUE])
           IN  r = Absent
<1> DEFINE q == SyncTracker(t, e, h, {})
           u == [OrDefault(q) EXCEPT !.queued = FALSE, !.in_flight = FALSE, !.unknown = TRUE, !.unknown_reported = TRUE]
<1>1. q \in Tracker /\ q.buffered_by = {} /\ (~q.present => q = Absent)
  BY SyncLoose DEF Loose
<1> HIDE DEF q
<1>2. OrDefault(q) \in Tracker /\ OrDefault(q).present /\ OrDefault(q).buffered_by = {}
  BY <1>1, DefaultFields
<1>3. u \in Tracker /\ Resolved(u)
  BY <1>2 DEF Tracker, Resolved
<1> HIDE DEF u
<1>4. Finalized(u) = Absent
  BY <1>3, FinalOne
<1> QED
  BY <1>4 DEF q, u

\* flush_all, for one event: what leaves the buffer has arrived or may have.
LEMMA FlushOne ==
    ASSUME NEW p \in [Events -> Tracker], NEW h \in [Sinks -> SUBSET Events], NEW open \in SUBSET Events,
           NEW e \in Events, NEW here \in BOOLEAN, NEW reached \in BOOLEAN, NEW now \in BOOLEAN, NEW sent \in BOOLEAN,
           Sound(p[e], here, reached, sent), e \in h[s1] => here, reached => now, here /\ e \notin h[s1] => now,
           e \in open => now /\ e \notin h[s1]
    PROVE  LET r == refresh_pending_records_from_buffers(consume_unknown_sink_events(p, open, h, {}), h, {})[e]
           IN  /\ r \in Tracker /\ Sound(r, e \in h[s1], now, sent)
               /\ Untraced(r) => Untraced(p[e]) \/ now
<1> DEFINE c == consume_unknown_sink_events(p, open, h, {})
           q == SyncTracker(c[e], e, h, {})
           r == refresh_pending_records_from_buffers(c, h, {})[e]
<1>1. Loose(p[e], e \in h[s1], now, sent)
  BY DEF Sound, Loose
<1>2. c[e] \in Tracker /\ Loose(c[e], e \in h[s1], now, sent) /\ (Untraced(c[e]) => Untraced(p[e]) \/ now)
  <2>1. CASE open = {}
    <3>1. c = p
      BY <2>1 DEF consume_unknown_sink_events
    <3> HIDE DEF c
    <3> QED
      BY <1>1, <3>1
  <2>2. CASE open # {} /\ e \notin open
    <3>1. c[e] = SyncTracker(p[e], e, h, {})
      BY <2>2 DEF consume_unknown_sink_events, sync_pending_records_with_buffers
    <3> HIDE DEF c
    <3> QED
      BY <1>1, <3>1, SyncLoose
  <2>3. CASE e \in open
    <3>1. c[e] = Finalized([OrDefault(SyncTracker(p[e], e, h, {})) EXCEPT !.queued = FALSE, !.in_flight = FALSE,
                                    !.unknown = TRUE, !.unknown_reported = TRUE])
      BY <2>3 DEF consume_unknown_sink_events, sync_pending_records_with_buffers
    <3> HIDE DEF c
    <3>2. c[e] = Absent
      BY <1>1, <2>3, <3>1, ConsumeLoose
    <3>3. Loose(Absent, e \in h[s1], now, sent)
      BY <2>3, BlankFields DEF Loose
    <3> QED
      BY <2>3, <3>2, <3>3, BlankFields
  <2> QED
    BY <2>1, <2>2, <2>3
<1>3. r = IF q.unknown THEN q ELSE Finalized(q)
  BY DEF refresh_pending_records_from_buffers
<1> HIDE DEF c
<1>4. r \in Tracker /\ Sound(r, e \in h[s1], now, sent) /\ (Untraced(r) => Untraced(c[e]) \/ now)
  BY <1>2, <1>3, RefreshLoose
<1> QED
  BY <1>2, <1>4 DEF c

\* An event that no sink holds and whose record only waits is left alone.
LEMMA FlushUnsent ==
    ASSUME NEW p \in [Events -> Tracker], NEW h \in [Sinks -> SUBSET Events], NEW open \in SUBSET Events,
           NEW e \in Events, p[e] \in {Absent, Waiting}, e \notin h[s1], e \notin open
    PROVE  refresh_pending_records_from_buffers(consume_unknown_sink_events(p, open, h, {}), h, {})[e] = p[e]
<1> DEFINE c == consume_unknown_sink_events(p, open, h, {})
<1>1. SyncTracker(p[e], e, h, {}) = p[e]
  BY SyncOne, BlankFields
<1>2. c[e] = p[e]
  BY <1>1 DEF consume_unknown_sink_events, sync_pending_records_with_buffers
<1> HIDE DEF c
<1>3. ~Resolved(p[e])
  BY BlankFields DEF Resolved
<1>4. Finalized(p[e]) = p[e]
  BY <1>3 DEF Finalized
<1>5. refresh_pending_records_from_buffers(c, h, {})[e] = p[e]
  BY <1>1, <1>2, <1>4 DEF refresh_pending_records_from_buffers
<1> QED
  BY <1>5 DEF c

\* forget_queued_record and note_queued_record, for a record that only waits.
LEMMA QueueOne ==
    ASSUME NEW p \in [Events -> Tracker], NEW e \in Events, p[e] \in {Absent, Waiting}
    PROVE  /\ forget_queued_record(p, e) = [p EXCEPT ![e] = Absent]
           /\ note_queued_record(p, e) = [p EXCEPT ![e] = Waiting]
<1>1. (IF p[e].queued /\ ~p[e].in_flight THEN Absent ELSE p[e]) = Absent
  BY BlankFields
<1>2. OrDefault(Absent) \in Tracker /\ OrDefault(Absent) = [Absent EXCEPT !.present = TRUE] /\ OrDefault(Waiting) = Waiting
  BY DEF OrDefault, Absent, Waiting, Tracker
<1>3. CASE p[e] = Absent
  <2> DEFINE t == [OrDefault(p[e]) EXCEPT !.queued = TRUE]
  <2>1. t = Waiting
    BY <1>2, <1>3 DEF Absent, Waiting
  <2>2. (IF t.in_flight THEN t
         ELSE [t EXCEPT !.buffered_by = {}, !.delivered = FALSE, !.unknown = FALSE, !.unknown_reported = FALSE]) = Waiting
    BY ZenonT(60), <2>1 DEF Waiting, Absent
  <2> QED
    BY <1>1, <2>2 DEF forget_queued_record, note_queued_record
<1>4. CASE p[e] = Waiting
  <2> DEFINE t == [OrDefault(p[e]) EXCEPT !.queued = TRUE]
  <2>1. t = Waiting
    BY <1>2, <1>4 DEF Absent, Waiting
  <2>2. (IF t.in_flight THEN t
         ELSE [t EXCEPT !.buffered_by = {}, !.delivered = FALSE, !.unknown = FALSE, !.unknown_reported = FALSE]) = Waiting
    BY <2>1 DEF Waiting, Absent
  <2> QED
    BY <1>1, <2>2 DEF forget_queued_record, note_queued_record
<1> QED
  BY <1>3, <1>4

\* note_send_started, for the event it is about.
LEMMA StartOne ==
    ASSUME NEW t \in Tracker, NEW reached \in BOOLEAN, Sound(t, FALSE, reached, FALSE)
    PROVE  LET r == [OrDefault(t) EXCEPT !.queued = FALSE, !.in_flight = TRUE]
           IN  r \in Tracker /\ Sound(r, FALSE, reached, TRUE) /\ (Untraced(r) => Untraced(t))
<1> DEFINE r == [OrDefault(t) EXCEPT !.queued = FALSE, !.in_flight = TRUE]
<1>1. ~t.present => t = Absent
  BY DEF Sound
<1>2. /\ OrDefault(t) \in Tracker /\ OrDefault(t).present /\ Alike(OrDefault(t), t)
      /\ OrDefault(t).buffered_by = t.buffered_by
  BY <1>1, DefaultFields
<1>3. /\ r \in Tracker /\ r.present /\ ~r.queued /\ r.in_flight /\ r.buffered_by = t.buffered_by
      /\ (r.delivered <=> t.delivered) /\ (r.unknown <=> t.unknown) /\ (r.unknown_reported <=> t.unknown_reported)
  BY <1>2 DEF Tracker, Alike
<1> HIDE DEF r
<1>4. Sound(r, FALSE, reached, TRUE) /\ (Untraced(r) => Untraced(t))
  BY <1>3 DEF Sound, Untraced
<1> QED
  BY <1>3, <1>4 DEF r

\* The answer of the sink and note_dequeued_record, for the event that was
\* sent: what is lost is reported as a final loss.
LEMMA SendOne ==
    ASSUME pending \in [Events -> Tracker], NEW e \in Events,
           NEW answer \in {"Delivered", "Buffered", "Lost", "Unknown"}, NEW f \in [Sinks -> {answer}],
           Sound(pending[e], FALSE, e \in Reached, TRUE),
           e \in held'[s1] <=> answer = "Buffered",
           e \in Reached' <=> e \in Reached \/ answer \in {"Delivered", "Unknown"},
           pending' = note_dequeued_record(ApplySinkResults(pending, e, f), e)
    PROVE  /\ pending' \in [Events -> Tracker] /\ \A x \in Events \ {e} : pending'[x] = pending[x]
           /\ Sound(pending'[e], e \in held'[s1], e \in Reached', FALSE)
           /\ Untraced(pending'[e]) => Untraced(pending[e]) \/ e \in Reached' \/ FinalLoss(ApplySinkResults(pending, e, f), e)
<1> DEFINE p == pending
           r == pending'
           reached == e \in Reached
           now == e \in Reached'
           here == e \in held'[s1]
           applied == ApplySinkResults(pending, e, f)
<1>0. /\ p \in [Events -> Tracker] /\ Sound(p[e], FALSE, reached, TRUE) /\ (here <=> answer = "Buffered")
      /\ now <=> reached \/ answer \in {"Delivered", "Unknown"}
      /\ here \in BOOLEAN /\ now \in BOOLEAN /\ reached \in BOOLEAN
      /\ applied = ApplySinkResults(p, e, f) /\ r = note_dequeued_record(applied, e)
  <2>1. p \in [Events -> Tracker] /\ Sound(p[e], FALSE, reached, TRUE)
    OBVIOUS
  <2>2. (here <=> answer = "Buffered") /\ (now <=> reached \/ answer \in {"Delivered", "Unknown"})
    OBVIOUS
  <2>3. here \in BOOLEAN /\ now \in BOOLEAN /\ reached \in BOOLEAN
    OBVIOUS
  <2>4. applied = ApplySinkResults(p, e, f) /\ r = note_dequeued_record(applied, e)
    OBVIOUS
  <2> HIDE DEF p, r, reached, now, here, applied
  <2> QED
    BY <2>1, <2>2, <2>3, <2>4
<1> HIDE DEF p, r, reached, now, here, applied
<1> DEFINE With(x) == {s \in Sinks : f[s] = x}
           t == p[e]
           o == OrDefault(t)
           a == [o EXCEPT !.buffered_by = (o.buffered_by \ {s \in Sinks : f[s] # "Buffered"}) \cup With("Buffered"),
                          !.delivered   = o.delivered \/ With("Delivered") # {},
                          !.unknown     = o.unknown \/ With("Unknown") # {}]
<1>1. t.present \/ t = Absent
  BY <1>0 DEF Sound
<1>2. o \in Tracker /\ o.present /\ Alike(o, t) /\ o.buffered_by = {}
  BY <1>0, <1>1, DefaultFields DEF Sound
<1>3. applied = [p EXCEPT ![e] = Finalized(a)]
  BY <1>0 DEF ApplySinkResults
<1>4. With("Delivered") = (IF answer = "Delivered" THEN {s1} ELSE {}) /\ With("Unknown") = (IF answer = "Unknown" THEN {s1} ELSE {})
      /\ With("Buffered") = (IF answer = "Buffered" THEN {s1} ELSE {})
  BY <1>0, OneSink
<1> HIDE DEF o, With
<1>5. /\ a \in Tracker /\ a.present /\ (a.queued <=> t.queued) /\ (a.in_flight <=> t.in_flight)
      /\ (a.unknown_reported <=> t.unknown_reported)
      /\ (a.delivered <=> t.delivered \/ answer = "Delivered") /\ (a.unknown <=> t.unknown \/ answer = "Unknown")
      /\ (a.buffered_by # {} <=> answer = "Buffered")
  BY ZenonT(60), <1>0, <1>2, <1>4, OneSink DEF Tracker, Alike
<1> HIDE DEF a
<1>6. applied \in [Events -> Tracker] /\ applied[e] = Finalized(a)
  BY <1>0, <1>3, <1>5, FinalOne
<1>7. r = [p EXCEPT ![e] = IF Finalized(a).present THEN Finalized(Dequeued(Finalized(a))) ELSE Finalized(a)]
  BY <1>0, <1>3, <1>6 DEF note_dequeued_record
<1> DEFINE d == Dequeued(a)
<1>8. /\ d \in Tracker /\ d.present /\ ~d.queued /\ ~d.in_flight /\ d.buffered_by = a.buffered_by
      /\ (d.delivered <=> a.delivered) /\ (d.unknown <=> a.unknown) /\ (d.unknown_reported <=> a.unknown_reported \/ a.unknown)
  BY <1>0, <1>5 DEF Tracker, Dequeued
<1> HIDE DEF d
<1>9. CASE answer = "Buffered"
  <2>1. ~Resolved(a) /\ ~Resolved(d)
    BY <1>0, <1>5, <1>8, <1>9 DEF Resolved
  <2>2. Finalized(a) = a /\ Finalized(d) = d
    BY <1>0, <1>5, <1>8, <2>1, FinalOne
  <2>3. r = [p EXCEPT ![e] = d]
    BY <1>0, <1>5, <1>7, <2>2 DEF d
  <2>4. Sound(d, here, now, FALSE) /\ (Untraced(d) => Untraced(t) \/ now)
    BY <1>0, <1>5, <1>8, <1>9 DEF Sound, Untraced
  <2> HIDE DEF t
  <2>5. r[e] = d /\ r \in [Events -> Tracker] /\ \A x \in Events \ {e} : r[x] = p[x]
    BY <1>0, <1>8, <2>3
  <2> QED
    BY <1>0, <1>8, <1>9, <2>4, <2>5 DEF t, p, r, now, here
<1>10. CASE answer # "Buffered"
  <2>1. Resolved(d) /\ Finalized(d) = Absent
    BY <1>0, <1>5, <1>8, <1>10, FinalOne DEF Resolved
  <2>2. Finalized(a) = Absent \/ (Finalized(a) = a /\ ~Resolved(a))
    BY <1>0, <1>5, FinalOne
  <2>3. r = [p EXCEPT ![e] = Absent]
    BY <1>0, <1>5, <1>7, <2>1, <2>2, BlankFields DEF d
  <2>4. Untraced(t) \/ now \/ FinalLoss(applied, e)
    <3>1. SUFFICES ASSUME ~Untraced(t), ~now PROVE FinalLoss(applied, e)
      OBVIOUS
    <3>2. a.in_flight /\ ~a.delivered /\ ~a.unknown
      BY <1>0, <1>5, <3>1 DEF Untraced, Sound
    <3>3. Finalized(a) = a
      BY <1>0, <1>5, <3>2, FinalOne DEF Resolved
    <3>4. applied[e] = a /\ IsFinalLoss(Dequeued(a))
      BY <1>0, <1>6, <1>8, <2>1, <3>2, <3>3 DEF IsFinalLoss, d
    <3> QED
      BY <1>0, <1>5, <3>4 DEF FinalLoss
  <2>5. Sound(Absent, here, now, FALSE)
    BY <1>0, BlankFields DEF Sound
  <2> HIDE DEF t
  <2>6. r[e] = Absent /\ r \in [Events -> Tracker] /\ \A x \in Events \ {e} : r[x] = p[x]
    BY <1>0, <2>3, BlankFields
  <2> QED
    BY <1>0, <1>10, <2>4, <2>5, <2>6, BlankFields DEF t, p, r, now, here, applied
<1> QED
  BY <1>0, <1>9, <1>10

-----------------------------------------------------------------------------
(* Counting *)

LEMMA EventSets == \A X \in SUBSET Events : IsFiniteSet(X) /\ Cardinality(X) \in 0..Cardinality(Events)
<1>1. IsFiniteSet(Events)
  BY PipelineAssumption
<1> QED
  BY <1>1, FS_Subset, FS_CardinalityType

\* What the reconciliations of the other actors hold.
PoolBut(R, a) == {x \in PoolOf(R) : x[1] # a}

LEMMA PoolFinite ==
    ASSUME NEW R PROVE IsFiniteSet(PoolOf(R)) /\ Cardinality(PoolOf(R)) \in Nat
<1>1. IsFiniteSet(Actors)
  <2>1. IsFiniteSet(Events) /\ IsFiniteSet({Ctl}) /\ IsFiniteSet({Sup})
    BY PipelineAssumption, FS_Singleton
  <2>2. Actors = (Events \cup {Ctl}) \cup {Sup}
    BY DEF Actors
  <2> QED
    BY <2>1, <2>2, FS_Union
<1>2. IsFiniteSet(1..(2 * UsizeModulus))
  BY PipelineAssumption, FS_Interval
<1>3. IsFiniteSet(Actors \X (1..(2 * UsizeModulus)))
  BY <1>1, <1>2, FS_Product
<1>4. PoolOf(R) \subseteq Actors \X (1..(2 * UsizeModulus))
  BY DEF PoolOf
<1> QED
  BY <1>3, <1>4, FS_Subset, FS_CardinalityType

LEMMA PoolSplit ==
    ASSUME NEW R \in [Actors -> Reconciling], NEW a \in Actors
    PROVE  /\ Cardinality(PoolBut(R, a)) \in Nat
           /\ Cardinality(PoolOf(R)) = Cardinality(PoolBut(R, a)) + R[a].lost
<1> DEFINE mine == {x \in PoolOf(R) : x[1] = a}
<1>1. IsFiniteSet(PoolOf(R)) /\ PoolBut(R, a) \subseteq PoolOf(R) /\ mine \subseteq PoolOf(R)
  BY PoolFinite DEF PoolBut
<1>2. IsFiniteSet(PoolBut(R, a)) /\ IsFiniteSet(mine) /\ Cardinality(PoolBut(R, a)) \in Nat
  BY <1>1, FS_Subset, FS_CardinalityType
<1>3. PoolOf(R) = PoolBut(R, a) \cup mine /\ PoolBut(R, a) \cap mine = {}
  BY DEF PoolBut
<1>4. Cardinality(PoolOf(R)) = Cardinality(PoolBut(R, a)) + Cardinality(mine)
  <2> HIDE DEF mine
  <2>1. Cardinality(PoolBut(R, a) \cap mine) = 0
    BY <1>3, FS_EmptySet
  <2>2. Cardinality(mine) \in Nat
    BY <1>2, FS_CardinalityType
  <2>3. Cardinality(PoolBut(R, a) \cup mine)
            = Cardinality(PoolBut(R, a)) + Cardinality(mine) - Cardinality(PoolBut(R, a) \cap mine)
    BY <1>2, FS_Union
  <2> QED
    BY <1>2, <1>3, <2>1, <2>2, <2>3
<1>5. Cardinality(mine) = R[a].lost
  <2> DEFINE n == R[a].lost
             f == [k \in 1..n |-> <<a, k>>]
  <2>1. n \in 0..(2 * UsizeModulus) /\ UsizeModulus \in Nat
    BY PipelineAssumption DEF Reconciling
  <2>2. \A k \in 1..n : f[k] \in mine
    BY <2>1 DEF PoolOf
  <2>3. \A x \in mine : \E k \in 1..n : f[k] = x
    <3>1. TAKE x \in mine
    <3>2. x[2] \in 1..n /\ x = <<a, x[2]>>
      BY <2>1 DEF PoolOf
    <3> QED
      BY <3>2
  <2>4. f \in Bijection(1..n, mine)
    <3>1. f \in [1..n -> mine]
      BY <2>2
    <3>2. \A k, l \in 1..n : f[k] = f[l] => k = l
      OBVIOUS
    <3> HIDE DEF f, mine, n
    <3> QED
      BY <3>1, <3>2, <2>3 DEF Bijection, Injection, Surjection, IsInjective
  <2>5. IsFiniteSet(1..n) /\ Cardinality(1..n) = n
    BY SMTT(30), <2>1, FS_Interval
  <2> HIDE DEF f, mine, n
  <2>6. ExistsBijection(1..n, mine)
    BY <2>4 DEF ExistsBijection
  <2>7. Cardinality(mine) = n
    BY <2>5, <2>6, FS_Bijection
  <2> QED
    BY <2>7 DEF n
<1> QED
  BY <1>2, <1>4, <1>5

\* When one actor's reconciliation changes, the pool changes by as much.
LEMMA PoolChanges ==
    ASSUME NEW R \in [Actors -> Reconciling], NEW S \in [Actors -> Reconciling], NEW a \in Actors,
           \A b \in Actors \ {a} : S[b].lost = R[b].lost
    PROVE  /\ Cardinality(PoolOf(R)) \in Nat /\ Cardinality(PoolOf(S)) \in Nat
           /\ R[a].lost \in Nat /\ S[a].lost \in Nat
           /\ Cardinality(PoolOf(S)) + R[a].lost = Cardinality(PoolOf(R)) + S[a].lost
<1>1. PoolBut(R, a) = PoolBut(S, a)
  BY DEF PoolBut, PoolOf
<1>2. R[a].lost \in Nat /\ S[a].lost \in Nat
  BY DEF Reconciling
<1> QED
  BY <1>1, <1>2, PoolSplit, PoolFinite

LEMMA Capped ==
    ASSUME NEW n \in Nat, NEW k \in Nat
    PROVE  Saturating(n, k) \in Nat /\ (Saturating(n, k) = n + k \/ Saturating(n, k) = 2 * UsizeModulus)
  BY PipelineAssumption DEF Saturating

LEMMA GoneGrows ==
    ASSUME Typed, Typed', LossesCounted, NEW X \in SUBSET Events, Gone' \subseteq Gone \cup X,
           \/ dropped + unknown + rejected + Cardinality(Pool) + Cardinality(X)
                  <= dropped' + unknown' + rejected' + Cardinality(Pool')
           \/ dropped' = 2 * UsizeModulus \/ unknown' = 2 * UsizeModulus
    PROVE  LossesCounted'
<1>1. Gone \in SUBSET Events /\ Gone' \in SUBSET Events
  BY DEF Gone
<1>2. /\ IsFiniteSet(Gone) /\ IsFiniteSet(Gone') /\ IsFiniteSet(X) /\ Cardinality(Gone) \in Nat
      /\ Cardinality(X) \in Nat /\ Cardinality(Gone') \in 0..Cardinality(Events) /\ Cardinality(Events) \in Nat
  BY <1>1, EventSets, PipelineAssumption, FS_CardinalityType
<1>3. Cardinality(Gone') <= Cardinality(Gone \cup X)
  BY <1>2, FS_Union, FS_Subset
<1>4. Cardinality(Gone \cup X) <= Cardinality(Gone) + Cardinality(X)
  <2>1. Cardinality(Gone \cap X) \in Nat
    BY <1>1, EventSets
  <2>2. Cardinality(Gone \cup X) = Cardinality(Gone) + Cardinality(X) - Cardinality(Gone \cap X)
    BY <1>2, FS_Union
  <2> QED
    BY <1>2, <2>1, <2>2
<1>5. Cardinality(Gone \cup X) \in Nat
  BY <1>2, FS_Union, FS_CardinalityType
<1>6. Cardinality(Pool) \in Nat /\ Cardinality(Pool') \in Nat
  BY PoolFinite DEF Pool
<1>7. /\ dropped \in Nat /\ unknown \in Nat /\ rejected \in Nat
      /\ dropped' \in Nat /\ unknown' \in Nat /\ rejected' \in Nat
  BY DEF Typed, DataTypes
<1>8. CASE dropped + unknown + rejected + Cardinality(Pool) + Cardinality(X)
                  <= dropped' + unknown' + rejected' + Cardinality(Pool')
  <2>1. Cardinality(Gone) <= dropped + unknown + rejected + Cardinality(Pool)
    BY DEF LossesCounted
  <2>2. Cardinality(Gone') <= dropped' + unknown' + rejected' + Cardinality(Pool')
    BY <1>2, <1>3, <1>4, <1>5, <1>6, <1>7, <1>8, <2>1
  <2> QED
    BY <2>2 DEF LossesCounted
<1>9. CASE dropped' = 2 * UsizeModulus \/ unknown' = 2 * UsizeModulus
  <2>1. Cardinality(Gone') <= dropped' + unknown' + rejected' + Cardinality(Pool')
    BY <1>2, <1>6, <1>7, <1>9, PipelineAssumption
  <2> QED
    BY <2>1 DEF LossesCounted
<1> QED
  BY <1>8, <1>9

\* The trackers and the count after a step: what became silent, the lost
\* events X apart, was silent before or has arrived.
LEMMA DataStep ==
    ASSUME PipelineInv, Typed', NEW X \in SUBSET Events,
           \A e \in Events : Sound(pending'[e], e \in held'[s1], e \in Reached', BeingSent(e)'),
           \A e \in Events : /\ Untraced(pending'[e]) => Untraced(pending[e]) \/ e \in Reached' \/ e \in X
                             /\ pc[e] \in Unnoted => pc'[e] \in Unnoted \/ ~Untraced(pending'[e])
                             /\ e \in Reached => e \in Reached',
           \/ dropped + unknown + rejected + Cardinality(Pool) + Cardinality(X)
                  <= dropped' + unknown' + rejected' + Cardinality(Pool')
           \/ dropped' = 2 * UsizeModulus \/ unknown' = 2 * UsizeModulus
    PROVE  Trackers' /\ LossesCounted'
<1>1. Trackers'
  BY DEF Trackers
<1>2. Gone' \subseteq Gone \cup X
  BY DEF Gone
<1>3. LossesCounted'
  BY <1>2, GoneGrows DEF PipelineInv
<1> QED
  BY <1>1, <1>3

\* A step that touches neither the fanout nor the counters.
LEMMA QuietStep ==
    ASSUME PipelineInv, Typed', NEW a \in Actors,
           UNCHANGED <<fanVars, cntVars>>,
           \A e \in Events : /\ BeingSent(e)' <=> BeingSent(e)
                             /\ pc'[e] \in Unnoted <=> pc[e] \in Unnoted,
           \A b \in Actors \ {a} : rc'[b].lost = rc[b].lost,
           rc'[a].lost >= rc[a].lost
    PROVE  Trackers' /\ LossesCounted'
<1>1. /\ pending' = pending /\ held' = held /\ Reached' = Reached
      /\ dropped' = dropped /\ unknown' = unknown /\ rejected' = rejected
  BY DEF fanVars, cntVars, Reached
<1>2. \A e \in Events : Sound(pending'[e], e \in held'[s1], e \in Reached', BeingSent(e)')
  BY <1>1 DEF PipelineInv, Trackers, Sound
<1>3. /\ Cardinality(Pool) \in Nat /\ Cardinality(Pool') \in Nat
      /\ Cardinality(Pool) <= Cardinality(Pool')
  <2>1. rc \in [Actors -> Reconciling] /\ rc' \in [Actors -> Reconciling]
    BY DEF PipelineInv, Typed, PlaceTypes
  <2>2. /\ Cardinality(PoolOf(rc)) \in Nat /\ Cardinality(PoolOf(rc')) \in Nat
        /\ rc[a].lost \in Nat /\ rc'[a].lost \in Nat
        /\ Cardinality(PoolOf(rc')) + rc[a].lost = Cardinality(PoolOf(rc)) + rc'[a].lost
    BY <2>1, PoolChanges
  <2> QED
    BY <2>2 DEF Pool
<1>4. dropped + unknown + rejected + Cardinality(Pool) + Cardinality({})
          <= dropped' + unknown' + rejected' + Cardinality(Pool')
  BY <1>1, <1>3, FS_EmptySet DEF PipelineInv, Typed, DataTypes
<1>5. \A e \in Events : /\ Untraced(pending'[e]) => Untraced(pending[e]) \/ e \in Reached' \/ e \in {}
                        /\ pc[e] \in Unnoted => pc'[e] \in Unnoted \/ ~Untraced(pending'[e])
                        /\ e \in Reached => e \in Reached'
  BY <1>1
<1> QED
  BY <1>2, <1>4, <1>5, DataStep

-----------------------------------------------------------------------------
(* The producers *)

Untouched == <<fanVars, cntVars>>

LEMMA Names ==
    /\ Ctl \in Actors /\ Sup \in Actors /\ Events \subseteq Actors
    /\ Ctl \notin Events /\ Sup \notin Events /\ Ctl # Sup
    /\ Nobody \notin Actors /\ NoEvent \notin Events /\ Events \cap Commands = {} /\ NoEvent \notin Commands
    /\ UsizeModulus \in Nat /\ UsizeModulus > 1 /\ Capacity \in Nat /\ Capacity > 0
<1>1. Cardinality(Events) \in Nat
  BY PipelineAssumption, FS_CardinalityType
<1>2. UsizeModulus \in Nat /\ UsizeModulus > 1 /\ Capacity \in Nat /\ Capacity > 0
  BY <1>1, PipelineAssumption
<1>3. NoEvent \notin Commands
  BY DEF NoEvent, Commands
<1> QED
  BY <1>2, <1>3, PipelineAssumption DEF Actors

LEMMA Records ==
    /\ \A n \in 0..(2 * UsizeModulus) : \A p \in {"none", "swap", "drop", "mark"} :
          [step |-> p, lost |-> n] \in Reconciling
    /\ 0 \in 0..(2 * UsizeModulus) /\ <<>> \in Seq(Events \cup Commands) /\ Len(<<>>) = 0
    /\ NotReconciling \in Reconciling
    /\ IdleWorker \in [pc : {"idle", "count", "send", "command"}, ev : Events \cup Commands \cup {NoEvent}]
<1>1. \A n \in 0..(2 * UsizeModulus) : \A p \in {"none", "swap", "drop", "mark"} :
          [step |-> p, lost |-> n] \in Reconciling
  BY DEF Reconciling
<1>2. 0 \in 0..(2 * UsizeModulus)
  BY Names
<1>3. NotReconciling \in Reconciling
  BY <1>1, <1>2 DEF NotReconciling
<1>4. <<>> \in Seq(Events \cup Commands) /\ Len(<<>>) = 0
  OBVIOUS
<1> QED
  BY <1>1, <1>2, <1>3, <1>4 DEF IdleWorker

\* Who starts a worker, and where it goes on.
Calls(a, at, spawn, next) ==
    \/ a \in Events /\ at \in {"new", "ensure"} /\ spawn = "spawn" /\ next = "note" /\ (at = "new" => pc[Ctl] = "run")
    \/ a = Ctl /\ at = "ensure1" /\ spawn = "spawn1" /\ next = "flush1"
    \/ a = Ctl /\ at = "ensure2" /\ spawn = "spawn2" /\ next = "flush2"

LEMMA EnsureStep ==
    ASSUME PipelineInv, NEW a \in Actors, NEW at, NEW spawn, NEW next, Calls(a, at, spawn, next), pc[a] = at, Ready(a),
           ensure_export_worker_started(a, spawn, next)
    PROVE  PipelineInv'
<1>0. UNCHANGED <<pending, held, accepted, maybe, queued, chan, alive, wk, tries, ack, timed_out, crashes,
                  dropped, unknown, rejected>>
  BY DEF ensure_export_worker_started, EnsureRunning, EnsureFinished, EnsureAbsent, fanVars, cntVars, slotVars
<1>1. \/ /\ lock = Nobody /\ handle /\ alive
         /\ UNCHANGED <<handle, lock, rc>> /\ pc' = [pc EXCEPT ![a] = next]
      \/ /\ lock = Nobody /\ ~alive /\ handle' = FALSE /\ lock' = a
         /\ rc' = [rc EXCEPT ![a] = [step |-> "swap", lost |-> 0]] /\ pc' = [pc EXCEPT ![a] = spawn]
      \/ /\ lock = Nobody /\ ~handle /\ ~alive /\ lock' = a
         /\ UNCHANGED <<handle, rc>> /\ pc' = [pc EXCEPT ![a] = spawn]
  BY DEF ensure_export_worker_started, EnsureRunning, EnsureFinished, EnsureAbsent,
         Goto, StartReconcile, slotVars
<1>2. Typed'
  <2>1. DataTypes'
    BY <1>0 DEF PipelineInv, Typed, DataTypes
  <2>2. SlotTypes'
    BY <1>0, <1>1 DEF PipelineInv, Typed, SlotTypes
  <2>3. PlaceTypes'
    <3>1. rc' \in [Actors -> Reconciling]
      BY <1>1, Records DEF PipelineInv, Typed, PlaceTypes
    <3> QED
      BY <1>0, <1>1, <3>1, Names DEF PipelineInv, Typed, PlaceTypes, Calls, ProducerPc, ControllerPc, Commands
  <2> QED
    BY <2>1, <2>2, <2>3 DEF Typed
<1>3. Producers'
  BY <1>0, <1>1, Names DEF PipelineInv, Typed, PlaceTypes, Producers, Unsent, Unnoted, InChan, Reached, Ready, Calls
<1>4. Worker'
  BY <1>0, Names DEF PipelineInv, Worker, InChan
<1>5. Locks'
  BY <1>0, <1>1, Names DEF PipelineInv, Typed, PlaceTypes, SlotTypes, Locks, Calls
<1>6. Stages'
  BY <1>0, <1>1, Names DEF PipelineInv, Typed, PlaceTypes, Stages, Over, Ready, Calls
<1>7. Tallies'
  BY <1>0, <1>1, Names DEF PipelineInv, Typed, PlaceTypes, Tallies, Ready, Calls
<1>8. Trackers' /\ LossesCounted'
  <2>1. \A x \in Events : /\ BeingSent(x)' <=> BeingSent(x)
                          /\ pc'[x] \in Unnoted <=> pc[x] \in Unnoted
    BY <1>0, <1>1, Names DEF PipelineInv, Typed, PlaceTypes, BeingSent, Unnoted, Calls
  <2>2. \A b \in Actors \ {a} : rc'[b].lost = rc[b].lost
    BY <1>1 DEF PipelineInv, Typed, PlaceTypes
  <2>3. rc'[a].lost >= rc[a].lost
    BY <1>1, Names DEF PipelineInv, Typed, PlaceTypes, Tallies, Ready, Reconciling, Calls
  <2>4. UNCHANGED Untouched
    BY <1>0 DEF Untouched, fanVars, cntVars
  <2> QED
    BY <1>2, <2>1, <2>2, <2>3, <2>4, QuietStep DEF Untouched
<1> QED
  BY <1>2, <1>3, <1>4, <1>5, <1>6, <1>7, <1>8 DEF PipelineInv

LEMMA SpawnStep ==
    ASSUME PipelineInv, NEW a \in Actors, NEW at, NEW spawn, NEW next, Calls(a, at, spawn, next), pc[a] = spawn,
           Spawn(a, next)
    PROVE  PipelineInv'
<1>0. UNCHANGED <<pending, held, accepted, maybe, queued, chan, wk, tries, rc, ack, timed_out, crashes,
                  dropped, unknown, rejected>>
  BY Names DEF Spawn, fanVars, cntVars, PipelineInv, Typed, SlotTypes, Locks
<1>1. /\ lock = a /\ Ready(a) /\ alive' = TRUE /\ handle' = TRUE /\ lock' = Nobody
      /\ pc' = [pc EXCEPT ![a] = next]
  BY DEF Spawn, Goto
<1>2. Typed'
  <2>1. DataTypes'
    BY <1>0 DEF PipelineInv, Typed, DataTypes
  <2>2. SlotTypes'
    BY <1>0, <1>1 DEF PipelineInv, Typed, SlotTypes
  <2>3. PlaceTypes'
    BY <1>0, <1>1, Names DEF PipelineInv, Typed, PlaceTypes, Calls, ProducerPc, ControllerPc, Commands
  <2> QED
    BY <2>1, <2>2, <2>3 DEF Typed
<1>3. Producers'
  BY <1>0, <1>1, Names DEF PipelineInv, Typed, PlaceTypes, Producers, Unsent, Unnoted, InChan, Reached, Ready, Calls
<1>4. Worker'
  BY <1>0, Names DEF PipelineInv, Worker, InChan
<1>5. Locks'
  BY <1>1, Names DEF PipelineInv, Typed, PlaceTypes, SlotTypes, Locks, Calls
<1>6. Stages'
  BY <1>0, <1>1, Names DEF PipelineInv, Typed, PlaceTypes, Stages, Over, Ready, Calls
<1>7. Tallies'
  BY <1>0, <1>1, Names DEF PipelineInv, Typed, PlaceTypes, Tallies, Ready, Calls
<1>8. Trackers' /\ LossesCounted'
  <2>1. \A x \in Events : /\ BeingSent(x)' <=> BeingSent(x)
                          /\ pc'[x] \in Unnoted <=> pc[x] \in Unnoted
    BY <1>0, <1>1, Names DEF PipelineInv, Typed, PlaceTypes, BeingSent, Unnoted, Calls
  <2>2. \A b \in Actors : rc'[b].lost = rc[b].lost /\ rc[b].lost \in Nat
    BY <1>0 DEF PipelineInv, Typed, PlaceTypes, Reconciling
  <2>3. UNCHANGED Untouched
    BY <1>0 DEF Untouched, fanVars, cntVars
  <2> QED
    BY <1>2, <2>1, <2>2, <2>3, QuietStep DEF Untouched
<1> QED
  BY <1>2, <1>3, <1>4, <1>5, <1>6, <1>7, <1>8 DEF PipelineInv

LEMMA NoteStep ==
    ASSUME PipelineInv, NEW e \in Events, NoteQueued(e) PROVE PipelineInv'
<1>0. UNCHANGED <<held, accepted, maybe, queued, chan, alive, handle, lock, wk, tries, rc, ack, timed_out, crashes,
                  dropped, unknown, rejected>>
  BY DEF NoteQueued, slotVars, cntVars
<1>1. pc[e] = "note" /\ pc' = [pc EXCEPT ![e] = "count"] /\ pending[e] = Absent
  BY DEF NoteQueued, Goto, PipelineInv, Producers, Unnoted
<1>2. pending' = [pending EXCEPT ![e] = Waiting]
  BY <1>1, QueueOne DEF NoteQueued, PipelineInv, Typed, DataTypes
<1>3. Typed'
  <2>1. DataTypes'
    BY <1>0, <1>2, BlankFields DEF PipelineInv, Typed, DataTypes
  <2>2. SlotTypes'
    BY <1>0 DEF PipelineInv, Typed, SlotTypes
  <2>3. PlaceTypes'
    BY <1>0, <1>1, Names DEF PipelineInv, Typed, PlaceTypes, ProducerPc
  <2> QED
    BY <2>1, <2>2, <2>3 DEF Typed
<1>4. Producers'
  <2>1. \A x \in Events \ {e} : pc'[x] = pc[x] /\ pending'[x] = pending[x]
    BY <1>1, <1>2 DEF PipelineInv, Typed, DataTypes, PlaceTypes
  <2>2. pc'[e] = "count" /\ pending'[e] = Waiting
    BY <1>1, <1>2, Names DEF PipelineInv, Typed, DataTypes, PlaceTypes
  <2> QED
    BY <1>0, <1>1, <2>1, <2>2 DEF PipelineInv, Producers, Unsent, Unnoted, InChan, Reached, Ready
<1>5. Worker'
  BY <1>0 DEF PipelineInv, Worker, InChan
<1>6. Locks'
  BY <1>0, <1>1, Names DEF PipelineInv, Typed, PlaceTypes, SlotTypes, Locks
<1>7. Stages'
  BY <1>0, <1>1, Names DEF PipelineInv, Typed, PlaceTypes, Stages, Over, Ready
<1>8. Tallies'
  BY <1>0, <1>1, Names DEF PipelineInv, Typed, PlaceTypes, Tallies
<1>9. Trackers' /\ LossesCounted'
  <2>1. /\ \A x \in Events : BeingSent(x)' = BeingSent(x)
        /\ Reached' = Reached /\ Pool' = Pool /\ ~BeingSent(e)
        /\ pending' \in [Events -> Tracker] /\ pending \in [Events -> Tracker] /\ pending'[e] = Waiting
        /\ \A x \in Events \ {e} : pending'[x] = pending[x] /\ pc'[x] = pc[x]
    BY <1>0, <1>1, <1>2, <1>3 DEF Reached, Pool, BeingSent, PipelineInv, Typed, DataTypes, PlaceTypes, Producers, Unsent
  <2>2. \A x \in Events : Sound(pending'[x], x \in held'[s1], x \in Reached', BeingSent(x)')
    <3>1. TAKE x \in Events
    <3>2. CASE x = e
      BY <1>0, <2>1, <3>2, BlankFields DEF Sound
    <3>3. CASE x # e
      BY <1>0, <2>1, <3>3 DEF PipelineInv, Trackers
    <3> QED
      BY <3>2, <3>3
  <2>3. \A x \in Events : /\ Untraced(pending'[x]) => Untraced(pending[x]) \/ x \in Reached' \/ x \in {}
                          /\ pc[x] \in Unnoted => pc'[x] \in Unnoted \/ ~Untraced(pending'[x])
                          /\ x \in Reached => x \in Reached'
    BY <2>1, BlankFields DEF Untraced
  <2>4. dropped + unknown + rejected + Cardinality(Pool) + Cardinality({})
            <= dropped' + unknown' + rejected' + Cardinality(Pool')
    BY <1>0, <2>1, FS_EmptySet, PoolFinite DEF PipelineInv, Typed, DataTypes, Pool
  <2> QED
    BY <1>3, <2>2, <2>3, <2>4, DataStep
<1> QED
  BY <1>3, <1>4, <1>5, <1>6, <1>7, <1>8, <1>9 DEF PipelineInv

LEMMA CountUpStep ==
    ASSUME PipelineInv, NEW e \in Events, CountQueued(e) PROVE PipelineInv'
<1>0. UNCHANGED <<pending, held, accepted, maybe, chan, alive, handle, lock, wk, tries, rc, ack, timed_out, crashes,
                  dropped, unknown, rejected>>
  BY DEF CountQueued, fanVars, slotVars, cntVars
<1>1. pc[e] = "count" /\ pc' = [pc EXCEPT ![e] = "send"] /\ queued' \in 0..(UsizeModulus - 1)
  BY Names DEF CountQueued, Goto, Inc, PipelineInv, Typed, DataTypes
<1>3. Typed'
  <2>1. DataTypes'
    BY <1>0, <1>1 DEF PipelineInv, Typed, DataTypes
  <2>2. SlotTypes'
    BY <1>0 DEF PipelineInv, Typed, SlotTypes
  <2>3. PlaceTypes'
    BY <1>0, <1>1, Names DEF PipelineInv, Typed, PlaceTypes, ProducerPc
  <2> QED
    BY <2>1, <2>2, <2>3 DEF Typed
<1>4. Producers'
  BY <1>0, <1>1 DEF PipelineInv, Typed, DataTypes, PlaceTypes, Producers, Unsent, Unnoted, InChan, Reached, Ready
<1>5. Worker'
  BY <1>0 DEF PipelineInv, Worker, InChan
<1>6. Locks'
  BY <1>0, <1>1, Names DEF PipelineInv, Typed, PlaceTypes, SlotTypes, Locks
<1>7. Stages'
  BY <1>0, <1>1, Names DEF PipelineInv, Typed, PlaceTypes, Stages, Over, Ready
<1>8. Tallies'
  BY <1>0, <1>1, Names DEF PipelineInv, Typed, PlaceTypes, Tallies
<1>9. Trackers' /\ LossesCounted'
  <2>1. \A x \in Events : /\ BeingSent(x)' <=> BeingSent(x)
                          /\ pc'[x] \in Unnoted <=> pc[x] \in Unnoted
    BY <1>0, <1>1, Names DEF PipelineInv, Typed, PlaceTypes, BeingSent, Unnoted
  <2>2. \A b \in Actors : rc'[b].lost = rc[b].lost /\ rc[b].lost \in Nat
    BY <1>0 DEF PipelineInv, Typed, PlaceTypes, Reconciling
  <2>3. UNCHANGED Untouched
    BY <1>0 DEF Untouched, fanVars, cntVars
  <2> QED
    BY <1>3, <2>1, <2>2, <2>3, Names, QuietStep DEF Untouched
<1> QED
  BY <1>3, <1>4, <1>5, <1>6, <1>7, <1>8, <1>9 DEF PipelineInv

LEMMA SentOff ==
    ASSUME NEW x \in Events \cup Commands, chan \in Seq(Events \cup Commands), chan' = Append(chan, x)
    PROVE  /\ chan' \in Seq(Events \cup Commands) /\ Len(chan') = Len(chan) + 1
           /\ \A i \in 1..Len(chan) : chan'[i] = chan[i]
           /\ chan'[Len(chan) + 1] = x
           /\ \A y : InChan(y)' => InChan(y) \/ y = x
<1>1. /\ chan' \in Seq(Events \cup Commands) /\ Len(chan') = Len(chan) + 1
      /\ \A i \in 1..Len(chan) : chan'[i] = chan[i]
      /\ chan'[Len(chan) + 1] = x
  OBVIOUS
<1>2. \A i \in 1..Len(chan') : i \in 1..Len(chan) \/ i = Len(chan) + 1
  BY <1>1
<1> QED
  BY <1>1, <1>2 DEF InChan

LEMMA TrySendStep ==
    ASSUME PipelineInv, NEW e \in Events, TrySend(e) PROVE PipelineInv'
<1>0. UNCHANGED <<pending, held, accepted, maybe, queued, alive, handle, lock, wk, rc, ack, timed_out, crashes,
                  dropped, unknown, rejected>>
  BY DEF TrySend, fanVars, cntVars
<1> DEFINE l == pc'[e]
<1>1. /\ pc[e] = "send" /\ tries' = [tries EXCEPT ![e] = tries[e] + 1]
      /\ pc' = [pc EXCEPT ![e] = l] /\ l \in {"done", "full", "closed"}
      /\ l = "done" => alive /\ Len(chan) < Capacity /\ chan' = Append(chan, e)
      /\ l # "done" => chan' = chan
  BY Names DEF TrySend, Goto, PipelineInv, Typed, PlaceTypes
<1> HIDE DEF l
<1>2. chan \in Seq(Events \cup Commands) /\ ~InChan(e) /\ wk.ev # e /\ e \notin held[s1] /\ tries[e] \in 0..1
  BY <1>1 DEF PipelineInv, Typed, SlotTypes, PlaceTypes, Producers, Unsent
<1>3. /\ chan' \in Seq(Events \cup Commands) /\ Len(chan') <= Capacity
      /\ \A x : x # e /\ InChan(x)' => InChan(x)
  <2>1. CASE Len(chan) < Capacity /\ chan' = Append(chan, e)
    BY <1>2, <2>1, SentOff, Names
  <2>2. CASE chan' = chan
    BY <1>2, <2>2 DEF InChan, PipelineInv, Typed, SlotTypes
  <2> QED
    BY <1>1, <2>1, <2>2
<1>4. Typed'
  <2>1. DataTypes'
    BY <1>0 DEF PipelineInv, Typed, DataTypes
  <2>2. SlotTypes'
    BY <1>0, <1>1, <1>3 DEF PipelineInv, Typed, SlotTypes
  <2>3. PlaceTypes'
    BY <1>0, <1>1, <1>2, Names DEF PipelineInv, Typed, PlaceTypes, ProducerPc
  <2> QED
    BY <2>1, <2>2, <2>3 DEF Typed
<1>5. Producers'
  <2>1. \A x \in Events \ {e} : pc'[x] = pc[x] /\ tries'[x] = tries[x]
    BY <1>1 DEF PipelineInv, Typed, PlaceTypes
  <2>2. pc'[e] = "done" \/ (pc'[e] \in {"full", "closed"} /\ ~InChan(e)')
    BY <1>1, <1>2 DEF InChan, l
  <2> QED
    BY <1>0, <1>1, <1>3, <2>1, <2>2 DEF PipelineInv, Producers, Unsent, Unnoted, Reached, Ready
<1>6. Worker'
  <2>1. \A i, j \in 1..Len(chan') : chan'[i] \in Events /\ chan'[i] = chan'[j] => i = j
    <3>1. CASE chan' = Append(chan, e)
      <4>1. /\ Len(chan') = Len(chan) + 1 /\ Len(chan) \in Nat /\ \A i \in 1..Len(chan) : chan'[i] = chan[i] /\ chan[i] # e
            /\ chan'[Len(chan) + 1] = e
        BY <1>2, <3>1, SentOff DEF InChan
      <4>2. \A i \in 1..Len(chan') : i \in 1..Len(chan) \/ i = Len(chan) + 1
        BY <4>1
      <4> QED
        BY <4>1, <4>2 DEF PipelineInv, Worker
    <3> QED
      BY <1>1, <3>1 DEF PipelineInv, Worker
  <2> QED
    BY <1>0, <1>2, <1>3, <2>1 DEF PipelineInv, Worker
<1>7. Locks'
  BY <1>0, <1>1, Names DEF PipelineInv, Typed, PlaceTypes, SlotTypes, Locks
<1>8. Stages'
  BY <1>0, <1>1, Names DEF PipelineInv, Typed, PlaceTypes, Stages, Over, Ready
<1>9. Tallies'
  BY <1>0, <1>1, Names DEF PipelineInv, Typed, PlaceTypes, Tallies
<1>10. Trackers' /\ LossesCounted'
  <2>1. \A x \in Events : /\ BeingSent(x)' <=> BeingSent(x)
                          /\ pc'[x] \in Unnoted <=> pc[x] \in Unnoted
    BY <1>0, <1>1, Names DEF PipelineInv, Typed, PlaceTypes, BeingSent, Unnoted
  <2>2. \A b \in Actors : rc'[b].lost = rc[b].lost /\ rc[b].lost \in Nat
    BY <1>0 DEF PipelineInv, Typed, PlaceTypes, Reconciling
  <2>3. UNCHANGED Untouched
    BY <1>0 DEF Untouched, fanVars, cntVars
  <2> QED
    BY <1>4, <2>1, <2>2, <2>3, Names, QuietStep DEF Untouched
<1> QED
  BY <1>4, <1>5, <1>6, <1>7, <1>8, <1>9, <1>10 DEF PipelineInv

\* What GiveUp and Retry share.
LEMMA TakenBack ==
    ASSUME PipelineInv, NEW e \in Events, TakeBack(e), pc[e] \in {"full", "closed"}
    PROVE  /\ UNCHANGED <<held, accepted, maybe, chan, alive, handle, lock, wk, tries, ack, timed_out, crashes,
                          dropped, unknown>>
           /\ queued' \in 0..(UsizeModulus - 1)
           /\ pending' = [pending EXCEPT ![e] = Absent] /\ pending \in [Events -> Tracker]
           /\ Ready(e) /\ rc[e].lost = 0 /\ Unsent(e)
<1>1. Unsent(e) /\ Ready(e) /\ rc[e].lost = 0 /\ pending \in [Events -> Tracker]
  BY Names DEF PipelineInv, Producers, Ready, Tallies, Unnoted, Typed, DataTypes
<1>2. pending' = [pending EXCEPT ![e] = Absent]
  BY <1>1, QueueOne DEF TakeBack, Unsent
<1>3. queued' \in 0..(UsizeModulus - 1)
  BY Names DEF TakeBack, Dec, PipelineInv, Typed, DataTypes
<1> QED
  BY <1>1, <1>2, <1>3 DEF TakeBack, slotVars

LEMMA GiveUpStep ==
    ASSUME PipelineInv, NEW e \in Events, GiveUp(e) PROVE PipelineInv'
<1>0. /\ UNCHANGED <<held, accepted, maybe, chan, alive, handle, lock, wk, tries, ack, timed_out, crashes,
                     dropped, unknown, rc>>
      /\ queued' \in 0..(UsizeModulus - 1)
      /\ pending' = [pending EXCEPT ![e] = Absent] /\ pending \in [Events -> Tracker]
      /\ pc[e] \in {"full", "closed"} /\ pc' = [pc EXCEPT ![e] = "done"]
      /\ rejected' = rejected + 1 /\ ~BeingSent(e)
  BY TakenBack DEF GiveUp, Goto, Unsent, BeingSent
<1>1. Typed'
  <2>1. DataTypes'
    BY <1>0, BlankFields DEF PipelineInv, Typed, DataTypes
  <2>2. SlotTypes'
    BY <1>0 DEF PipelineInv, Typed, SlotTypes
  <2>3. PlaceTypes'
    BY <1>0, Names DEF PipelineInv, Typed, PlaceTypes, ProducerPc
  <2> QED
    BY <2>1, <2>2, <2>3 DEF Typed
<1>2. /\ \A x \in Events \ {e} : pc'[x] = pc[x] /\ pending'[x] = pending[x]
      /\ pc'[e] = "done" /\ pending'[e] = Absent
  BY <1>0, Names DEF PipelineInv, Typed, PlaceTypes
<1>3. Producers'
  BY <1>0, <1>2 DEF PipelineInv, Producers, Unsent, Unnoted, InChan, Reached, Ready
<1>4. Worker'
  BY <1>0 DEF PipelineInv, Worker, InChan
<1>5. Locks'
  BY <1>0, Names DEF PipelineInv, Typed, PlaceTypes, SlotTypes, Locks
<1>6. Stages'
  BY <1>0, Names DEF PipelineInv, Typed, PlaceTypes, Stages, Over, Ready
<1>7. Tallies'
  BY <1>0, Names DEF PipelineInv, Typed, PlaceTypes, Tallies
<1>8. Trackers' /\ LossesCounted'
  <2>1. /\ \A x \in Events : BeingSent(x)' = BeingSent(x)
        /\ Reached' = Reached /\ Pool' = Pool
    BY <1>0 DEF Reached, Pool, BeingSent
  <2>2. \A x \in Events : Sound(pending'[x], x \in held'[s1], x \in Reached', BeingSent(x)')
    <3>1. TAKE x \in Events
    <3>2. CASE x = e
      BY <1>0, <1>2, <2>1, <3>2, BlankFields DEF Sound
    <3>3. CASE x # e
      BY <1>0, <1>2, <2>1, <3>3 DEF PipelineInv, Trackers
    <3> QED
      BY <3>2, <3>3
  <2>3. \A x \in Events : /\ Untraced(pending'[x]) => Untraced(pending[x]) \/ x \in Reached' \/ x \in {e}
                          /\ pc[x] \in Unnoted => pc'[x] \in Unnoted \/ ~Untraced(pending'[x])
                          /\ x \in Reached => x \in Reached'
    BY <1>0, <1>2, <2>1 DEF Unnoted
  <2>4. dropped + unknown + rejected + Cardinality(Pool) + Cardinality({e})
            <= dropped' + unknown' + rejected' + Cardinality(Pool')
    <3>1. Cardinality({e}) = 1 /\ Cardinality(Pool) \in Nat
      BY FS_Singleton, PoolFinite DEF Pool
    <3> QED
      BY <1>0, <2>1, <3>1 DEF PipelineInv, Typed, DataTypes
  <2> QED
    BY <1>1, <2>2, <2>3, <2>4, DataStep
<1> QED
  BY <1>1, <1>3, <1>4, <1>5, <1>6, <1>7, <1>8 DEF PipelineInv

LEMMA RetryStep ==
    ASSUME PipelineInv, NEW e \in Events, Retry(e) PROVE PipelineInv'
<1>0. /\ UNCHANGED <<held, accepted, maybe, chan, alive, handle, lock, wk, tries, ack, timed_out, crashes,
                     dropped, unknown, rejected>>
      /\ queued' \in 0..(UsizeModulus - 1)
      /\ pending' = [pending EXCEPT ![e] = Absent] /\ pending \in [Events -> Tracker]
      /\ pc[e] = "closed" /\ tries[e] = 1 /\ pc' = [pc EXCEPT ![e] = "ensure"]
      /\ rc' = [rc EXCEPT ![e] = [step |-> "swap", lost |-> 0]] /\ rc[e].lost = 0
      /\ Unsent(e) /\ ~BeingSent(e)
  BY TakenBack DEF Retry, Goto, Unsent, BeingSent, StartReconcile
<1>1. Typed'
  <2>1. DataTypes'
    BY <1>0, BlankFields DEF PipelineInv, Typed, DataTypes
  <2>2. SlotTypes'
    BY <1>0 DEF PipelineInv, Typed, SlotTypes
  <2>3. PlaceTypes'
    <3>1. rc' \in [Actors -> Reconciling]
      BY <1>0, Records DEF PipelineInv, Typed, PlaceTypes
    <3> QED
      BY <1>0, <3>1, Names DEF PipelineInv, Typed, PlaceTypes, ProducerPc
  <2> QED
    BY <2>1, <2>2, <2>3 DEF Typed
<1>2. /\ \A x \in Events \ {e} : pc'[x] = pc[x] /\ pending'[x] = pending[x] /\ rc'[x] = rc[x]
      /\ pc'[e] = "ensure" /\ pending'[e] = Absent
  BY <1>0, Names DEF PipelineInv, Typed, PlaceTypes
<1>3. Producers'
  BY <1>0, <1>2 DEF PipelineInv, Producers, Unsent, Unnoted, InChan, Reached, Ready
<1>4. Worker'
  BY <1>0 DEF PipelineInv, Worker, InChan
<1>5. Locks'
  BY <1>0, Names DEF PipelineInv, Typed, PlaceTypes, SlotTypes, Locks
<1>6. Stages'
  BY <1>0, Names DEF PipelineInv, Typed, PlaceTypes, Stages, Over, Ready
<1>7. Tallies'
  BY <1>0, Names DEF PipelineInv, Typed, PlaceTypes, Tallies
<1>8. Trackers' /\ LossesCounted'
  <2>1. /\ \A x \in Events : BeingSent(x)' = BeingSent(x)
        /\ Reached' = Reached /\ Pool' = Pool
    BY <1>0, Names DEF Reached, Pool, PoolOf, BeingSent, PipelineInv, Typed, PlaceTypes
  <2>2. \A x \in Events : Sound(pending'[x], x \in held'[s1], x \in Reached', BeingSent(x)')
    <3>1. TAKE x \in Events
    <3>2. CASE x = e
      BY <1>0, <1>2, <2>1, <3>2, BlankFields DEF Sound
    <3>3. CASE x # e
      BY <1>0, <1>2, <2>1, <3>3 DEF PipelineInv, Trackers
    <3> QED
      BY <3>2, <3>3
  <2>3. Gone' \subseteq Gone \cup {}
    BY <1>0, <1>2, <2>1 DEF Gone, Unnoted, Untraced
  <2>4. dropped + unknown + rejected + Cardinality(Pool) + Cardinality({})
            <= dropped' + unknown' + rejected' + Cardinality(Pool')
    BY <1>0, <2>1, FS_EmptySet, PoolFinite DEF PipelineInv, Typed, DataTypes, Pool
  <2>5. LossesCounted'
    BY <1>1, <2>3, <2>4, GoneGrows DEF PipelineInv
  <2> QED
    BY <2>2, <2>5 DEF Trackers
<1> QED
  BY <1>1, <1>3, <1>4, <1>5, <1>6, <1>7, <1>8 DEF PipelineInv

-----------------------------------------------------------------------------
(* reconcile_export_worker_interruption *)

LEMMA SwapStep ==
    ASSUME PipelineInv, NEW a \in Actors, ReconcileSwap(a) PROVE PipelineInv'
<1>0. /\ UNCHANGED <<pending, held, accepted, maybe, chan, alive, handle, lock, wk, pc, tries, ack, timed_out, crashes,
                     dropped, unknown, rejected>>
      /\ rc[a].step = "swap" /\ queued' = 0 /\ rc' = [rc EXCEPT ![a] = [step |-> "drop", lost |-> queued]]
  BY DEF ReconcileSwap, fanVars, slotVars, cntVars
<1>1. queued \in 0..(UsizeModulus - 1) /\ queued \in 0..(2 * UsizeModulus)
  BY Names DEF PipelineInv, Typed, DataTypes
<1>2. Typed'
  <2>1. DataTypes'
    BY <1>0, Names DEF PipelineInv, Typed, DataTypes
  <2>2. SlotTypes'
    BY <1>0 DEF PipelineInv, Typed, SlotTypes
  <2>3. PlaceTypes'
    <3>1. rc' \in [Actors -> Reconciling]
      BY <1>0, <1>1, Records DEF PipelineInv, Typed, PlaceTypes
    <3> QED
      BY <1>0, <3>1 DEF PipelineInv, Typed, PlaceTypes
  <2> QED
    BY <2>1, <2>2, <2>3 DEF Typed
<1>3. Producers'
  BY <1>0, Names DEF PipelineInv, Typed, PlaceTypes, Producers, Unsent, InChan, Reached, Ready
<1>4. Worker'
  BY <1>0 DEF PipelineInv, Worker, InChan
<1>5. Locks'
  BY <1>0 DEF PipelineInv, Locks
<1>6. Stages'
  BY <1>0, Names DEF PipelineInv, Typed, PlaceTypes, Stages, Over, Ready
<1>7. Tallies'
  BY <1>0, <1>1, Names DEF PipelineInv, Typed, PlaceTypes, Tallies, Stages, Ready
<1>8. Trackers' /\ LossesCounted'
  <2>1. \A x \in Events : /\ BeingSent(x)' <=> BeingSent(x)
                          /\ pc'[x] \in Unnoted <=> pc[x] \in Unnoted
    BY <1>0 DEF BeingSent
  <2>2. \A b \in Actors \ {a} : rc'[b].lost = rc[b].lost
    BY <1>0 DEF PipelineInv, Typed, PlaceTypes
  <2>3. rc'[a].lost >= rc[a].lost
    BY <1>0, <1>1 DEF PipelineInv, Typed, PlaceTypes, Tallies, Stages, Ready
  <2>4. UNCHANGED Untouched
    BY <1>0 DEF Untouched, fanVars, cntVars
  <2> QED
    BY <1>2, <2>1, <2>2, <2>3, <2>4, QuietStep DEF Untouched
<1> QED
  BY <1>2, <1>3, <1>4, <1>5, <1>6, <1>7, <1>8 DEF PipelineInv

\* The producers, after a step of another actor.
LEMMA ProducersKept ==
    ASSUME PipelineInv, tries' = tries,
           \A x \in Events : /\ pc'[x] = pc[x] /\ (Ready(x) => Ready(x)')
                             /\ InChan(x)' => InChan(x)
                             /\ wk.ev # x => wk'.ev # x,
           \A x \in Events : Unsent(x) => /\ pending'[x] = pending[x] \/ pending'[x] = Absent
                                          /\ x \notin held'[s1] /\ x \notin Reached'
    PROVE  Producers'
<1>1. \A x \in Events : Unsent(x) => Unsent(x)'
  BY DEF Unsent
<1>2. \A x \in Events : pc'[x] \in Unnoted => pending'[x] = Absent
  BY DEF PipelineInv, Producers, Unnoted
<1> QED
  BY <1>1, <1>2 DEF PipelineInv, Producers, Ready

\* An empty fanout stays empty.
LEMMA EmptyKept ==
    ASSUME PipelineInv, pending' \in [Events -> Tracker], held'[s1] \subseteq held[s1],
           \A x \in Events : pending[x] = Absent /\ x \notin held[s1] => pending'[x] = Absent
    PROVE  pending = NoRecords /\ held[s1] = {} => pending' = NoRecords /\ held'[s1] = {}
  BY DEF NoRecords

\* drop_queued_records, for the whole map.
LEMMA DropAll ==
    ASSUME PipelineInv, pending' = drop_queued_records(pending, held, {}),
           held' = [s \in Sinks |-> held[s] \ QueuedIds(pending, held, {})],
           UNCHANGED <<accepted, maybe, wk>>
    PROVE  /\ pending' \in [Events -> Tracker] /\ held' \in [Sinks -> SUBSET Events] /\ held'[s1] \subseteq held[s1]
           /\ \A x \in Events :
                /\ Sound(pending'[x], x \in held'[s1], x \in Reached', BeingSent(x)')
                /\ Untraced(pending'[x]) => Untraced(pending[x]) \/ x \in Reached' \/ x \in LostQueued(pending, held, {})
                /\ pending[x] \in {Absent, Waiting} /\ x \notin held[s1] => pending'[x] = Absent
<1> DEFINE q(x) == SyncTracker(pending[x], x, held, {})
<1>1. pending \in [Events -> Tracker] /\ held \in [Sinks -> SUBSET Events]
  BY DEF PipelineInv, Typed, DataTypes
<1>2. /\ held'[s1] = held[s1] \ QueuedIds(pending, held, {})
      /\ held' \in [Sinks -> SUBSET Events]
  BY <1>1, OneSink
<1>3. Reached' = Reached /\ \A x \in Events : BeingSent(x)' = BeingSent(x)
  BY DEF Reached, BeingSent
<1>4. ASSUME NEW x \in Events
      PROVE  /\ pending'[x] = IF q(x).queued THEN Finalized(Unqueued(q(x))) ELSE q(x)
             /\ x \in QueuedIds(pending, held, {}) <=> q(x).queued
             /\ x \in LostQueued(pending, held, {}) <=> q(x).queued /\ IsFinalLoss(Unqueued(q(x)))
  BY <1>4 DEF drop_queued_records, QueuedIds, LostQueued, sync_pending_records_with_buffers
<1>5. pending' = [x \in Events |-> pending'[x]]
  BY DEF drop_queued_records
<1>6. ASSUME NEW x \in Events
      PROVE  /\ pending'[x] \in Tracker
             /\ Sound(pending'[x], x \in held'[s1], x \in Reached', BeingSent(x)')
             /\ Untraced(pending'[x]) => Untraced(pending[x]) \/ x \in Reached' \/ x \in LostQueued(pending, held, {})
             /\ pending[x] \in {Absent, Waiting} /\ x \notin held[s1] => pending'[x] = Absent
  <2> DEFINE t == pending[x]
             u == q(x)
  <2>1. Sound(t, x \in held[s1], x \in Reached, BeingSent(x)) /\ t \in Tracker
    BY <1>1, <1>6 DEF PipelineInv, Trackers
  <2>2. (~t.present => t = Absent) /\ (t.buffered_by # {} => x \in held[s1])
    BY <2>1 DEF Sound
  <2>3. /\ u \in Tracker /\ (u.present <=> t.present \/ x \in held[s1]) /\ Alike(u, t)
        /\ (~u.present => u = Absent)
        /\ (u.buffered_by # {} <=> x \in held[s1]) /\ (x \notin held[s1] => u = t)
    BY <1>1, <2>1, <2>2, SyncOne
  <2> DEFINE here == x \in held[s1]
             reached == x \in Reached
             sent == BeingSent(x)
             r == IF u.queued THEN Finalized(Unqueued(u)) ELSE u
  <2>4. here \in BOOLEAN /\ reached \in BOOLEAN /\ sent \in BOOLEAN
    BY DEF BeingSent
  <2> HIDE DEF u, t, here, reached, sent
  <2>5. /\ r \in Tracker /\ Sound(r, here /\ ~u.queued, reached, sent)
        /\ Untraced(r) => Untraced(t) \/ reached \/ (u.queued /\ IsFinalLoss(Unqueued(u)))
    <3>1. /\ Sound(t, here, reached, sent) /\ (u.present <=> t.present \/ here)
          /\ (u.buffered_by # {} <=> here) /\ (~here => u = t)
      BY <2>1, <2>3 DEF here, reached, sent
    <3> QED
      BY <2>1, <2>3, <2>4, <3>1, DropOne
  <2>6. /\ pending'[x] = IF u.queued THEN Finalized(Unqueued(u)) ELSE u
        /\ x \in held'[s1] <=> x \in held[s1] /\ ~u.queued
        /\ x \in LostQueued(pending, held, {}) <=> u.queued /\ IsFinalLoss(Unqueued(u))
    BY <1>2, <1>4, <1>6 DEF u
  <2>7. Sound(pending'[x], x \in held'[s1], x \in Reached', BeingSent(x)')
    BY <1>3, <2>5, <2>6 DEF Sound, here, reached, sent
  <2>8. t \in {Absent, Waiting} /\ x \notin held[s1] => pending'[x] = Absent
    <3>1. CASE t = Absent /\ x \notin held[s1]
      BY <2>3, <2>6, <3>1, BlankFields
    <3>2. CASE t = Waiting /\ x \notin held[s1]
      <4>1. u = Waiting
        BY <2>3, <3>2
      <4>2. Unqueued(Waiting) \in Tracker /\ Resolved(Unqueued(Waiting))
        BY DEF Waiting, Absent, Unqueued, Resolved, Tracker
      <4> QED
        BY <2>6, <4>1, <4>2, BlankFields, FinalOne
    <3> QED
      BY <3>1, <3>2
  <2> QED
    BY <1>3, <2>5, <2>6, <2>7, <2>8 DEF t, reached
<1> HIDE DEF q
<1>7. pending' \in [Events -> Tracker]
  BY <1>5, <1>6
<1> QED
  BY <1>2, <1>6, <1>7

LEMMA MarkedRecord ==
    ASSUME NEW r \in Reconciling, NEW n
    PROVE  [r EXCEPT !.step = "mark", !.lost = n] = [step |-> "mark", lost |-> n]
<1> DEFINE m == [r EXCEPT !.step = "mark", !.lost = n]
<1>1. r = [step |-> r.step, lost |-> r.lost]
  BY DEF Reconciling
<1>2. m.step = "mark" /\ m.lost = n /\ m \in [step : {"mark"}, lost : {n}]
  BY <1>1 DEF Reconciling
<1> HIDE DEF m
<1>3. m = [step |-> "mark", lost |-> n]
  BY <1>2
<1> QED
  BY <1>3 DEF m

LEMMA DropStep ==
    ASSUME PipelineInv, NEW a \in Actors, ReconcileDrop(a) PROVE PipelineInv'
<1> DEFINE X == LostQueued(pending, held, {})
<1>0. /\ UNCHANGED <<accepted, maybe, queued, chan, alive, handle, lock, wk, pc, tries, ack, timed_out, crashes,
                     dropped, unknown, rejected>>
      /\ rc[a].step = "drop"
      /\ rc' = [rc EXCEPT ![a] = [rc[a] EXCEPT !.step = "mark", !.lost = rc[a].lost + Cardinality(X)]]
      /\ pending' = drop_queued_records(pending, held, {})
      /\ held' = [s \in Sinks |-> held[s] \ QueuedIds(pending, held, {})]
  BY DEF ReconcileDrop, slotVars, cntVars, PipelineInv, Typed, PlaceTypes
<1>1. /\ pending' \in [Events -> Tracker] /\ held' \in [Sinks -> SUBSET Events] /\ held'[s1] \subseteq held[s1]
      /\ \A x \in Events :
                /\ Sound(pending'[x], x \in held'[s1], x \in Reached', BeingSent(x)')
                /\ Untraced(pending'[x]) => Untraced(pending[x]) \/ x \in Reached' \/ x \in X
                /\ pending[x] \in {Absent, Waiting} /\ x \notin held[s1] => pending'[x] = Absent
  BY <1>0, DropAll
<1>2. X \in SUBSET Events /\ Cardinality(X) \in Nat /\ Cardinality(X) < UsizeModulus
  <2>1. X \in SUBSET Events
    BY DEF LostQueued
  <2> HIDE DEF X
  <2> QED
    BY <2>1, EventSets, PipelineAssumption, FS_CardinalityType
<1> HIDE DEF X
<1>3. rc[a] \in Reconciling /\ rc[a].lost \in Nat /\ rc[a].lost < UsizeModulus
  BY <1>0 DEF PipelineInv, Typed, PlaceTypes, Tallies, Reconciling
<1>4. rc' = [rc EXCEPT ![a] = [step |-> "mark", lost |-> rc[a].lost + Cardinality(X)]]
  BY <1>0, <1>3, MarkedRecord
<1>5. Typed'
  <2>1. DataTypes'
    BY <1>0, <1>1 DEF PipelineInv, Typed, DataTypes
  <2>2. SlotTypes'
    BY <1>0 DEF PipelineInv, Typed, SlotTypes
  <2>3. PlaceTypes'
    <3>1. rc[a].lost + Cardinality(X) \in 0..(2 * UsizeModulus)
      BY <1>2, <1>3, Names
    <3>2. rc' \in [Actors -> Reconciling]
      BY <1>4, <3>1, Records DEF PipelineInv, Typed, PlaceTypes
    <3> QED
      BY <1>0, <3>2 DEF PipelineInv, Typed, PlaceTypes
  <2> QED
    BY <2>1, <2>2, <2>3 DEF Typed
<1>6. Producers'
  <2>1. \A x \in Events : /\ pc'[x] = pc[x] /\ (Ready(x) => Ready(x)')
                          /\ InChan(x)' => InChan(x)
                          /\ wk.ev # x => wk'.ev # x
    BY <1>0, <1>4, Names DEF PipelineInv, Typed, PlaceTypes, Ready, InChan
  <2>2. \A x \in Events : Unsent(x) => /\ pending'[x] = pending[x] \/ pending'[x] = Absent
                                       /\ x \notin held'[s1] /\ x \notin Reached'
    BY <1>0, <1>1 DEF Unsent, Reached
  <2> QED
    BY <1>0, <2>1, <2>2, ProducersKept
<1>7. Worker'
  BY <1>0, <1>1 DEF PipelineInv, Worker, InChan
<1>8. Locks'
  BY <1>0 DEF PipelineInv, Locks
<1>9. Stages'
  <2>1. pending = NoRecords /\ held[s1] = {} => pending' = NoRecords /\ held'[s1] = {}
    BY <1>1, EmptyKept
  <2> QED
    BY <1>0, <1>4, <2>1, Names DEF PipelineInv, Typed, PlaceTypes, Stages, Ready
<1>10. Tallies'
  BY <1>0, <1>4, Names DEF PipelineInv, Typed, PlaceTypes, Tallies
<1>11. Trackers' /\ LossesCounted'
  <2>1. rc \in [Actors -> Reconciling] /\ rc' \in [Actors -> Reconciling]
    BY <1>5 DEF PipelineInv, Typed, PlaceTypes
  <2>2. (\A b \in Actors \ {a} : rc'[b].lost = rc[b].lost) /\ rc'[a].lost = rc[a].lost + Cardinality(X)
    BY <1>4, <2>1
  <2>3. /\ Cardinality(Pool) \in Nat /\ Cardinality(Pool') \in Nat
        /\ Cardinality(Pool') + rc[a].lost = Cardinality(Pool) + rc'[a].lost
    BY <2>1, <2>2, PoolChanges DEF Pool
  <2>4. dropped + unknown + rejected + Cardinality(Pool) + Cardinality(X)
            <= dropped' + unknown' + rejected' + Cardinality(Pool')
    BY <1>0, <1>2, <1>3, <2>2, <2>3 DEF PipelineInv, Typed, DataTypes
  <2>5. \A x \in Events : /\ Untraced(pending'[x]) => Untraced(pending[x]) \/ x \in Reached' \/ x \in X
                          /\ pc[x] \in Unnoted => pc'[x] \in Unnoted \/ ~Untraced(pending'[x])
                          /\ x \in Reached => x \in Reached'
    BY <1>0, <1>1 DEF Reached
  <2> QED
    BY <1>1, <1>2, <1>5, <2>4, <2>5, DataStep
<1> QED
  BY <1>5, <1>6, <1>7, <1>8, <1>9, <1>10, <1>11 DEF PipelineInv

\* mark_inflight_unknown, for the whole map.
LEMMA MarkAll ==
    ASSUME PipelineInv, pending' = mark_inflight_unknown(pending), UNCHANGED <<held, accepted, maybe, wk>>
    PROVE  /\ pending' \in [Events -> Tracker]
           /\ \A x \in Events :
                /\ Sound(pending'[x], x \in held'[s1], x \in Reached', BeingSent(x)')
                /\ Untraced(pending'[x]) => Untraced(pending[x]) \/ x \in Reached' \/ x \in NewlyUnknown(pending)
                /\ pending[x] \in {Absent, Waiting} => pending'[x] = pending[x]
<1>1. pending \in [Events -> Tracker]
  BY DEF PipelineInv, Typed, DataTypes
<1>2. Reached' = Reached /\ \A x \in Events : BeingSent(x)' = BeingSent(x)
  BY DEF Reached, BeingSent
<1>3. pending' = [x \in Events |-> pending'[x]]
  BY DEF mark_inflight_unknown
<1>4. ASSUME NEW x \in Events
      PROVE  /\ pending'[x] \in Tracker
             /\ Sound(pending'[x], x \in held'[s1], x \in Reached', BeingSent(x)')
             /\ Untraced(pending'[x]) => Untraced(pending[x]) \/ x \in Reached' \/ x \in NewlyUnknown(pending)
             /\ pending[x] \in {Absent, Waiting} => pending'[x] = pending[x]
  <2> DEFINE t == pending[x]
             here == x \in held[s1]
             reached == x \in Reached
             sent == BeingSent(x)
             r == pending'[x]
  <2>1. /\ t \in Tracker /\ Sound(t, here, reached, sent)
        /\ here \in BOOLEAN /\ reached \in BOOLEAN /\ sent \in BOOLEAN
    BY <1>1, <1>4 DEF PipelineInv, Trackers, BeingSent
  <2>2. r = IF t.in_flight
            THEN Finalized([t EXCEPT !.in_flight = FALSE, !.unknown = TRUE, !.unknown_reported = TRUE])
            ELSE t
    BY <1>4 DEF mark_inflight_unknown
  <2>3. x \in NewlyUnknown(pending) <=> t.in_flight /\ ~t.unknown_reported
    BY <1>4 DEF NewlyUnknown
  <2> HIDE DEF t, here, reached, sent, r
  <2>4. /\ r \in Tracker /\ Sound(r, here, reached, sent)
        /\ Untraced(r) => Untraced(t) \/ (t.in_flight /\ ~t.unknown_reported)
    BY <2>1, <2>2, MarkOne
  <2>5. t \in {Absent, Waiting} => r = t
    BY <2>2, BlankFields
  <2> QED
    BY <1>2, <2>3, <2>4, <2>5 DEF t, here, reached, sent, r
<1> QED
  BY <1>3, <1>4

\* The two places that mark the open sends: a reconciliation, and the
\* shutdown code when the worker does not answer.
LEMMA MarkedStep ==
    ASSUME PipelineInv, NEW a \in Actors, pending' = mark_inflight_unknown(pending),
           unknown' = Saturating(unknown, Cardinality(NewlyUnknown(pending))),
           UNCHANGED <<held, accepted, maybe, queued, chan, alive, handle, lock, wk, tries, ack, timed_out, crashes, rejected>>,
           \/ pc' = pc /\ rc[a].step = "mark" /\ rc' = [rc EXCEPT ![a] = NotReconciling]
              /\ dropped' = Saturating(dropped, rc[a].lost)
           \/ a = Ctl /\ pc[Ctl] = "mark" /\ pc' = [pc EXCEPT ![Ctl] = "take"] /\ rc' = rc /\ dropped' = dropped
    PROVE  PipelineInv'
<1> DEFINE X == NewlyUnknown(pending)
<1>1. /\ pending' \in [Events -> Tracker]
      /\ \A x \in Events :
                /\ Sound(pending'[x], x \in held'[s1], x \in Reached', BeingSent(x)')
                /\ Untraced(pending'[x]) => Untraced(pending[x]) \/ x \in Reached' \/ x \in X
                /\ pending[x] \in {Absent, Waiting} => pending'[x] = pending[x]
  BY MarkAll
<1>2. X \in SUBSET Events /\ Cardinality(X) \in Nat
  <2>1. X \in SUBSET Events
    BY DEF NewlyUnknown
  <2> HIDE DEF X
  <2> QED
    BY <2>1, EventSets
<1>3. unknown' = Saturating(unknown, Cardinality(X))
  OBVIOUS
<1> HIDE DEF X
<1>4. /\ dropped \in Nat /\ unknown \in Nat /\ rejected \in Nat /\ rc \in [Actors -> Reconciling]
      /\ rc[a].lost \in Nat /\ rc[Ctl] \in Reconciling
  BY Names DEF PipelineInv, Typed, DataTypes, PlaceTypes, Reconciling
<1>5. /\ unknown' \in Nat /\ dropped' \in Nat
  BY ZenonT(60), <1>2, <1>3, <1>4, Capped
<1>6. Typed'
  <2>1. DataTypes'
    BY <1>1, <1>5 DEF PipelineInv, Typed, DataTypes
  <2>2. SlotTypes'
    BY DEF PipelineInv, Typed, SlotTypes
  <2>3. rc' \in [Actors -> Reconciling]
    BY <1>4, Records
  <2>4. PlaceTypes'
    BY <2>3, Names DEF PipelineInv, Typed, PlaceTypes, ControllerPc
  <2> QED
    BY <2>1, <2>2, <2>4 DEF Typed
<1>7. Producers'
  <2>1. \A x \in Events : /\ pc'[x] = pc[x] /\ (Ready(x) => Ready(x)')
                          /\ InChan(x)' => InChan(x)
                          /\ wk.ev # x => wk'.ev # x
    BY Names DEF PipelineInv, Typed, PlaceTypes, Ready, InChan, NotReconciling
  <2>2. \A x \in Events : Unsent(x) => /\ pending'[x] = pending[x] \/ pending'[x] = Absent
                                       /\ x \notin held'[s1] /\ x \notin Reached'
    BY <1>1 DEF Unsent, Reached
  <2> QED
    BY <2>1, <2>2, ProducersKept
<1>8. Worker'
  BY DEF PipelineInv, Worker, InChan
<1>9. Locks'
  BY Names DEF PipelineInv, Typed, PlaceTypes, Locks
<1>10. Stages'
  <2>1. pending = NoRecords /\ held[s1] = {} => pending' = NoRecords /\ held'[s1] = {}
    BY <1>1, EmptyKept
  <2> QED
    BY <2>1, Names DEF PipelineInv, Typed, PlaceTypes, Stages, Ready, NotReconciling, Over
<1>11. Tallies'
  BY Names DEF PipelineInv, Typed, PlaceTypes, Tallies, NotReconciling, Stages, Ready
<1>12. Trackers' /\ LossesCounted'
  <2>1. rc' \in [Actors -> Reconciling]
    BY <1>6 DEF Typed, PlaceTypes
  <2>2. /\ \A b \in Actors \ {a} : rc'[b].lost = rc[b].lost
        /\ \/ rc'[a].lost = 0 /\ dropped' = Saturating(dropped, rc[a].lost)
           \/ rc'[a].lost = rc[a].lost /\ dropped' = dropped
    BY <1>4 DEF NotReconciling
  <2>3. /\ Cardinality(Pool) \in Nat /\ Cardinality(Pool') \in Nat
        /\ Cardinality(Pool') + rc[a].lost = Cardinality(Pool) + rc'[a].lost
    BY <1>4, <2>1, <2>2, PoolChanges DEF Pool
  <2>4. \/ unknown' = unknown + Cardinality(X) \/ unknown' = 2 * UsizeModulus
    BY <1>2, <1>3, <1>4, Capped
  <2>5. \/ dropped' + rc'[a].lost = dropped + rc[a].lost \/ dropped' = 2 * UsizeModulus
    <3>1. \/ Saturating(dropped, rc[a].lost) = dropped + rc[a].lost
          \/ Saturating(dropped, rc[a].lost) = 2 * UsizeModulus
      BY <1>4, Capped
    <3> QED
      BY <1>4, <2>2, <3>1
  <2>6. \/ dropped + unknown + rejected + Cardinality(Pool) + Cardinality(X)
            <= dropped' + unknown' + rejected' + Cardinality(Pool')
        \/ dropped' = 2 * UsizeModulus \/ unknown' = 2 * UsizeModulus
    <3>1. rc'[a].lost \in Nat
      BY <1>4, <2>2
    <3> QED
      BY <1>2, <1>4, <1>5, <2>3, <2>4, <2>5, <3>1
  <2>7. \A x \in Events : /\ Untraced(pending'[x]) => Untraced(pending[x]) \/ x \in Reached' \/ x \in X
                          /\ pc[x] \in Unnoted => pc'[x] \in Unnoted \/ ~Untraced(pending'[x])
                          /\ x \in Reached => x \in Reached'
    BY <1>1, Names DEF Reached, PipelineInv, Typed, PlaceTypes
  <2> QED
    BY <1>1, <1>2, <1>6, <2>6, <2>7, DataStep
<1> QED
  BY <1>6, <1>7, <1>8, <1>9, <1>10, <1>11, <1>12 DEF PipelineInv

LEMMA ReconcileMarks ==
    ASSUME PipelineInv, NEW a \in Actors, ReconcileMark(a) PROVE PipelineInv'
<1>1. /\ pending' = mark_inflight_unknown(pending)
      /\ unknown' = Saturating(unknown, Cardinality(NewlyUnknown(pending)))
      /\ UNCHANGED <<held, accepted, maybe, queued, chan, alive, handle, lock, wk, tries, ack, timed_out, crashes, rejected>>
      /\ pc' = pc /\ rc[a].step = "mark" /\ rc' = [rc EXCEPT ![a] = NotReconciling]
      /\ dropped' = Saturating(dropped, rc[a].lost)
  BY DEF ReconcileMark, slotVars
<1> QED
  BY <1>1, MarkedStep

LEMMA ReconcileStep ==
    ASSUME PipelineInv, NEW a \in Actors, reconcile_export_worker_interruption(a) PROVE PipelineInv'
  BY SwapStep, DropStep, ReconcileMarks DEF reconcile_export_worker_interruption

LEMMA ProducerStep ==
    ASSUME PipelineInv, NEW e \in Events, enqueue_export_record(e) PROVE PipelineInv'
<1>0. e \in Actors
  BY Names
<1>1. CASE EnsureWorker(e)
  <2>1. Calls(e, pc[e], "spawn", "note") /\ Ready(e) /\ ensure_export_worker_started(e, "spawn", "note")
    BY <1>1 DEF EnsureWorker, Calls
  <2> QED
    BY <1>0, <2>1, EnsureStep
<1>2. CASE SpawnWorker(e)
  <2>1. Calls(e, "ensure", "spawn", "note") /\ pc[e] = "spawn" /\ Spawn(e, "note")
    BY <1>2 DEF SpawnWorker, Calls
  <2> QED
    BY <1>0, <2>1, SpawnStep
<1> QED
  BY <1>0, <1>1, <1>2, NoteStep, CountUpStep, TrySendStep, GiveUpStep, RetryStep, ReconcileStep DEF enqueue_export_record

-----------------------------------------------------------------------------
(* flush_all *)

LEMMA FlushAll ==
    ASSUME PipelineInv, flush_all, \A x \in Events : BeingSent(x)' <=> BeingSent(x)
    PROVE  /\ pending' \in [Events -> Tracker] /\ held' \in [Sinks -> SUBSET Events] /\ held'[s1] \subseteq held[s1]
           /\ accepted' \subseteq Events /\ maybe' \subseteq Events
           /\ \A x \in Events :
                /\ Sound(pending'[x], x \in held'[s1], x \in Reached', BeingSent(x)')
                /\ Untraced(pending'[x]) => Untraced(pending[x]) \/ x \in Reached'
                /\ x \in Reached => x \in Reached'
                /\ x \notin held[s1] /\ x \notin Reached => x \notin Reached'
                /\ pending[x] \in {Absent, Waiting} /\ x \notin held[s1] => pending'[x] = pending[x]
<1>1. /\ pending \in [Events -> Tracker] /\ held \in [Sinks -> SUBSET Events] /\ held[s1] \subseteq Events
      /\ accepted \subseteq Events /\ maybe \subseteq Events
  BY OneSink DEF PipelineInv, Typed, DataTypes
<1>2. PICK took \in SUBSET held[s1] : \E open \in SUBSET (held[s1] \ took) : FlushFanout(took, open)
  BY DEF flush_all
<1>3. PICK open \in SUBSET (held[s1] \ took) : FlushFanout(took, open)
  BY <1>2
<1> DEFINE flushed == refresh_pending_records_from_buffers(consume_unknown_sink_events(pending, open, held', {}), held', {})
<1>4. /\ held' = [held EXCEPT ![s1] = held[s1] \ (took \cup open)]
      /\ accepted' = accepted \cup took /\ maybe' = maybe \cup open
      /\ pending' = flushed
  BY <1>3 DEF FlushFanout
<1>5. /\ held' \in [Sinks -> SUBSET Events] /\ held'[s1] = held[s1] \ (took \cup open)
      /\ accepted' \subseteq Events /\ maybe' \subseteq Events /\ open \in SUBSET Events
      /\ Reached' = Reached \cup took \cup open
  BY <1>1, <1>4, OneSink DEF Reached
<1>6. pending' = [x \in Events |-> pending'[x]]
  BY <1>4 DEF refresh_pending_records_from_buffers
<1>7. ASSUME NEW x \in Events
      PROVE  /\ pending'[x] \in Tracker
             /\ Sound(pending'[x], x \in held'[s1], x \in Reached', BeingSent(x)')
             /\ Untraced(pending'[x]) => Untraced(pending[x]) \/ x \in Reached'
             /\ pending[x] \in {Absent, Waiting} /\ x \notin held[s1] => pending'[x] = pending[x]
  <2> DEFINE here == x \in held[s1]
             reached == x \in Reached
             now == x \in Reached'
             sent == BeingSent(x)
             r == pending'[x]
             h == held'
  <2>1. /\ here \in BOOLEAN /\ reached \in BOOLEAN /\ now \in BOOLEAN /\ sent \in BOOLEAN
        /\ Sound(pending[x], here, reached, sent) /\ (x \in h[s1] => here) /\ (reached => now)
        /\ (here /\ x \notin h[s1] => now) /\ (x \in open => now /\ x \notin h[s1]) /\ h \in [Sinks -> SUBSET Events]
    BY <1>5, <1>7 DEF PipelineInv, Trackers, BeingSent
  <2>2. r = refresh_pending_records_from_buffers(consume_unknown_sink_events(pending, open, h, {}), h, {})[x]
    BY <1>4
  <2>3. sent <=> BeingSent(x)'
    OBVIOUS
  <2>4. pending[x] \in {Absent, Waiting} /\ x \notin held[s1] => x \notin h[s1] /\ x \notin open
    BY <1>5
  <2> HIDE DEF here, reached, now, sent, r, h
  <2>5. /\ r \in Tracker /\ Sound(r, x \in h[s1], now, sent) /\ (Untraced(r) => Untraced(pending[x]) \/ now)
    BY <1>1, <1>5, <1>7, <2>1, <2>2, FlushOne
  <2>6. pending[x] \in {Absent, Waiting} /\ x \notin held[s1] => r = pending[x]
    BY <1>1, <1>5, <1>7, <2>1, <2>2, <2>4, FlushUnsent
  <2>7. Sound(r, x \in h[s1], now, BeingSent(x)')
    BY <2>3, <2>5 DEF Sound
  <2> QED
    BY <2>5, <2>6, <2>7 DEF now, r, h
<1>8. pending' \in [Events -> Tracker]
  BY <1>6, <1>7
<1>9. \A x \in Events : /\ x \in Reached => x \in Reached'
                        /\ x \notin held[s1] /\ x \notin Reached => x \notin Reached'
  BY <1>5
<1> QED
  BY <1>5, <1>7, <1>8, <1>9

\* What a flush leaves of the invariant, whoever asked for it.
LEMMA Flushed ==
    ASSUME PipelineInv, flush_all, SlotTypes', PlaceTypes',
           UNCHANGED <<queued, tries, rc, dropped, unknown, rejected>>,
           \A x \in Events : pc'[x] = pc[x],
           chan' = chan \/ chan' = <<>>,
           wk' = wk \/ (wk.pc = "command" /\ wk' = IdleWorker)
    PROVE  /\ Typed' /\ Producers' /\ Worker' /\ Trackers' /\ LossesCounted'
           /\ pending = NoRecords /\ held[s1] = {} => pending' = NoRecords /\ held'[s1] = {}
<1>1. \A x \in Events : BeingSent(x)' <=> BeingSent(x)
  BY DEF BeingSent, IdleWorker
<1>2. /\ pending' \in [Events -> Tracker] /\ held' \in [Sinks -> SUBSET Events] /\ held'[s1] \subseteq held[s1]
      /\ accepted' \subseteq Events /\ maybe' \subseteq Events
      /\ \A x \in Events :
                /\ Sound(pending'[x], x \in held'[s1], x \in Reached', BeingSent(x)')
                /\ Untraced(pending'[x]) => Untraced(pending[x]) \/ x \in Reached'
                /\ x \in Reached => x \in Reached'
                /\ x \notin held[s1] /\ x \notin Reached => x \notin Reached'
                /\ pending[x] \in {Absent, Waiting} /\ x \notin held[s1] => pending'[x] = pending[x]
  BY <1>1, FlushAll
<1>3. Typed'
  <2>1. DataTypes'
    BY <1>2 DEF PipelineInv, Typed, DataTypes
  <2> QED
    BY <2>1 DEF Typed
<1>4. \A x : InChan(x)' => InChan(x)
  BY DEF InChan
<1>5. Producers'
  <2>1. \A x \in Events : /\ pc'[x] = pc[x] /\ (Ready(x) => Ready(x)')
                          /\ InChan(x)' => InChan(x)
                          /\ wk.ev # x => wk'.ev # x
    BY <1>4, Names DEF Ready, IdleWorker
  <2>2. \A x \in Events : Unsent(x) => /\ pending'[x] = pending[x] \/ pending'[x] = Absent
                                       /\ x \notin held'[s1] /\ x \notin Reached'
    BY <1>2 DEF Unsent
  <2> QED
    BY <2>1, <2>2, ProducersKept
<1>6. Worker'
  <2>1. \A i, j \in 1..Len(chan') : chan'[i] \in Events /\ chan'[i] = chan'[j] => i = j
    BY DEF PipelineInv, Worker
  <2> QED
    BY <1>2, <1>4, <2>1, Names DEF PipelineInv, Worker, IdleWorker
<1>7. Trackers' /\ LossesCounted'
  <2>1. dropped + unknown + rejected + Cardinality(Pool) + Cardinality({})
            <= dropped' + unknown' + rejected' + Cardinality(Pool')
    <3>1. Cardinality({}) = 0 /\ Cardinality(Pool) \in Nat /\ Pool' = Pool
      BY FS_EmptySet, PoolFinite DEF Pool
    <3> QED
      BY <3>1 DEF PipelineInv, Typed, DataTypes
  <2>2. \A x \in Events : /\ Untraced(pending'[x]) => Untraced(pending[x]) \/ x \in Reached' \/ x \in {}
                          /\ pc[x] \in Unnoted => pc'[x] \in Unnoted \/ ~Untraced(pending'[x])
                          /\ x \in Reached => x \in Reached'
    BY <1>2
  <2> QED
    BY <1>2, <1>3, <2>1, <2>2, DataStep
<1>8. pending = NoRecords /\ held[s1] = {} => pending' = NoRecords /\ held'[s1] = {}
  BY <1>2, EmptyKept
<1> QED
  BY <1>3, <1>5, <1>6, <1>7, <1>8

LEMMA WorkerFlushStep ==
    ASSUME PipelineInv, WorkerFlushes \/ WorkerStops PROVE PipelineInv'
<1>0. /\ flush_all /\ wk.pc = "command" /\ wk' = IdleWorker /\ ack' \in {ack, "ok", "err"}
      /\ UNCHANGED <<queued, handle, lock, pc, tries, rc, timed_out, crashes, dropped, unknown, rejected>>
      /\ \/ UNCHANGED <<chan, alive>>
         \/ chan' = <<>> /\ alive' = FALSE
  BY DEF WorkerFlushes, WorkerStops, Answer, slotVars, cntVars
<1>1. SlotTypes'
  <2>1. wk' \in [pc : {"idle", "count", "send", "command"}, ev : Events \cup Commands \cup {NoEvent}]
    BY <1>0, Records
  <2>2. CASE UNCHANGED <<chan, alive>>
    BY <1>0, <2>1, <2>2 DEF PipelineInv, Typed, SlotTypes
  <2>3. CASE chan' = <<>> /\ alive' = FALSE
    <3>1. chan' \in Seq(Events \cup Commands) /\ Len(chan') <= Capacity
      BY <2>3, Names, Records
    <3> QED
      BY <1>0, <2>1, <2>3, <3>1 DEF PipelineInv, Typed, SlotTypes
  <2> QED
    BY <1>0, <2>2, <2>3
<1>2. PlaceTypes'
  BY <1>0 DEF PipelineInv, Typed, PlaceTypes
<1>3. /\ Typed' /\ Producers' /\ Worker' /\ Trackers' /\ LossesCounted'
      /\ pending = NoRecords /\ held[s1] = {} => pending' = NoRecords /\ held'[s1] = {}
  BY <1>0, <1>1, <1>2, Flushed
<1>4. Locks'
  BY <1>0 DEF PipelineInv, Locks
<1>5. Stages'
  BY <1>0, <1>3 DEF PipelineInv, Stages, Ready
<1>6. Tallies'
  BY <1>0 DEF PipelineInv, Tallies
<1> QED
  BY <1>3, <1>4, <1>5, <1>6 DEF PipelineInv

LEMMA StaleFlushStep ==
    ASSUME PipelineInv, flush_stale_batches PROVE PipelineInv'
<1>0. /\ flush_all
      /\ UNCHANGED <<chan, alive, wk, queued, handle, lock, pc, tries, rc, ack, timed_out, crashes, dropped, unknown, rejected>>
  BY DEF flush_stale_batches, slotVars, cntVars
<1>1. SlotTypes' /\ PlaceTypes'
  BY <1>0 DEF PipelineInv, Typed, SlotTypes, PlaceTypes
<1>2. /\ Typed' /\ Producers' /\ Worker' /\ Trackers' /\ LossesCounted'
      /\ pending = NoRecords /\ held[s1] = {} => pending' = NoRecords /\ held'[s1] = {}
  BY <1>0, <1>1, Flushed
<1>3. Locks'
  BY <1>0 DEF PipelineInv, Locks
<1>4. Stages'
  BY <1>0, <1>2 DEF PipelineInv, Stages, Ready
<1>5. Tallies'
  BY <1>0 DEF PipelineInv, Tallies
<1> QED
  BY <1>2, <1>3, <1>4, <1>5 DEF PipelineInv

LEMMA FallbackStep ==
    ASSUME PipelineInv, NEW at, NEW next, At(at), FallbackFlush(next),
           <<at, next>> \in {<<"fallback1", "ensure2">>, <<"fallback2", "stop">>, <<"fallback3", "swap">>}
    PROVE  PipelineInv'
<1>0. /\ flush_all /\ pc[Ctl] = at /\ Ready(Ctl) /\ pc' = [pc EXCEPT ![Ctl] = next]
      /\ UNCHANGED <<chan, alive, wk, queued, handle, lock, tries, rc, ack, timed_out, crashes, dropped, unknown, rejected>>
      /\ \/ at = "fallback1" /\ next = "ensure2"
         \/ at = "fallback2" /\ next = "stop"
         \/ at = "fallback3" /\ next = "swap"
  BY DEF FallbackFlush, At, Goto, slotVars, cntVars
<1>1. SlotTypes'
  BY <1>0 DEF PipelineInv, Typed, SlotTypes
<1>2. PlaceTypes'
  BY <1>0, Names DEF PipelineInv, Typed, PlaceTypes, ControllerPc
<1>3. \A x \in Events : pc'[x] = pc[x]
  BY <1>0, Names DEF PipelineInv, Typed, PlaceTypes
<1>4. /\ Typed' /\ Producers' /\ Worker' /\ Trackers' /\ LossesCounted'
  BY <1>0, <1>1, <1>2, <1>3, Flushed
<1>5. Locks'
  BY <1>0, Names DEF PipelineInv, Typed, PlaceTypes, Locks
<1>6. Stages'
  BY <1>0, <1>3, Names DEF PipelineInv, Typed, PlaceTypes, Stages, Ready, Over
<1>7. Tallies'
  BY <1>0, Names DEF PipelineInv, Typed, PlaceTypes, Tallies
<1> QED
  BY <1>4, <1>5, <1>6, <1>7 DEF PipelineInv

-----------------------------------------------------------------------------
(* The worker *)

LEMMA ReceiveStep ==
    ASSUME PipelineInv, WorkerReceives PROVE PipelineInv'
<1>c. PICK c : c = Head(chan)
  OBVIOUS
<1>0. /\ UNCHANGED <<held, accepted, maybe, queued, alive, handle, lock, pc, tries, rc, ack, timed_out, crashes,
                     dropped, unknown, rejected>>
      /\ alive /\ wk.pc = "idle" /\ chan # <<>> /\ chan' = Tail(chan)
      /\ wk' = [pc |-> IF c \in Events THEN "count" ELSE "command", ev |-> c]
      /\ c \in Events => pending' = note_send_started(pending, c)
      /\ c \notin Events => pending' = pending
  BY <1>c DEF WorkerReceives, cntVars
<1>1. /\ chan \in Seq(Events \cup Commands) /\ Len(chan) \in Nat /\ Len(chan) <= Capacity
      /\ pending \in [Events -> Tracker] /\ wk = IdleWorker
  BY <1>0 DEF PipelineInv, Typed, SlotTypes, DataTypes, Worker
<1>2. /\ c \in Events \cup Commands /\ chan' \in Seq(Events \cup Commands) /\ Len(chan') = Len(chan) - 1
      /\ c = chan[1] /\ Len(chan) >= 1 /\ \A i \in 1..Len(chan') : chan'[i] = chan[i + 1] /\ i + 1 \in 1..Len(chan)
  BY <1>c, <1>0, <1>1
<1>3. /\ InChan(c) /\ (c \in Events => ~InChan(c)') /\ \A x : InChan(x)' => InChan(x)
      /\ \A i, j \in 1..Len(chan') : chan'[i] \in Events /\ chan'[i] = chan'[j] => i = j
  <2>1. InChan(c) /\ \A x : InChan(x)' => InChan(x)
    BY <1>2 DEF InChan
  <2>2. ASSUME c \in Events, NEW i \in 1..Len(chan') PROVE chan'[i] # c
    <3>0. SUFFICES ASSUME chan'[i] = c PROVE FALSE
      OBVIOUS
    <3>1. chan[i + 1] = chan[1] /\ i + 1 \in 1..Len(chan) /\ 1 \in 1..Len(chan) /\ chan[1] \in Events
      BY <1>1, <1>2, <2>2, <3>0
    <3>2. i + 1 = 1
      BY <3>1 DEF PipelineInv, Worker
    <3> QED
      BY <2>2, <3>2
  <2>3. ASSUME NEW i \in 1..Len(chan'), NEW j \in 1..Len(chan'), chan'[i] \in Events, chan'[i] = chan'[j] PROVE i = j
    <3>1. chan[i + 1] = chan[j + 1] /\ i + 1 \in 1..Len(chan) /\ j + 1 \in 1..Len(chan) /\ chan[i + 1] \in Events
      BY <1>2, <2>3
    <3>2. i + 1 = j + 1
      BY <3>1 DEF PipelineInv, Worker
    <3> QED
      BY <3>2
  <2>4. c \in Events => ~InChan(c)'
    BY <2>2 DEF InChan
  <2> QED
    BY <2>1, <2>3, <2>4
<1>4. /\ \A x \in Events \ {c} : pending'[x] = pending[x] /\ ~BeingSent(x)' /\ ~BeingSent(x)
      /\ c \in Events => /\ pending'[c] = [OrDefault(pending[c]) EXCEPT !.queued = FALSE, !.in_flight = TRUE]
                         /\ BeingSent(c)' /\ ~BeingSent(c) /\ c \notin held[s1]
  <2>1. /\ wk'.ev = c /\ wk.pc = "idle" /\ (c \in Events => wk'.pc = "count" /\ c \notin held[s1])
    BY <1>0, <1>3 DEF PipelineInv, Worker
  <2>2. /\ \A x \in Events \ {c} : pending'[x] = pending[x]
        /\ c \in Events => pending'[c] = [OrDefault(pending[c]) EXCEPT !.queued = FALSE, !.in_flight = TRUE]
    BY <1>0, <1>1 DEF note_send_started
  <2> QED
    BY <2>1, <2>2 DEF BeingSent
<1>5. c \in Events => /\ pending'[c] \in Tracker
                      /\ Sound(pending'[c], FALSE, c \in Reached, TRUE) /\ (Untraced(pending'[c]) => Untraced(pending[c]))
  <2>1. SUFFICES ASSUME c \in Events PROVE
                      /\ pending'[c] \in Tracker
                      /\ Sound(pending'[c], FALSE, c \in Reached, TRUE) /\ (Untraced(pending'[c]) => Untraced(pending[c]))
    OBVIOUS
  <2> DEFINE t == pending[c]
             reached == c \in Reached
  <2>2. Sound(t, FALSE, reached, FALSE) /\ t \in Tracker /\ reached \in BOOLEAN
    BY <1>1, <1>4, <2>1 DEF PipelineInv, Trackers, Sound
  <2>3. pending'[c] = [OrDefault(t) EXCEPT !.queued = FALSE, !.in_flight = TRUE]
    BY <1>4, <2>1
  <2> HIDE DEF t, reached
  <2>4. pending'[c] \in Tracker /\ Sound(pending'[c], FALSE, reached, TRUE) /\ (Untraced(pending'[c]) => Untraced(t))
    BY ZenonT(60), <2>2, <2>3, StartOne
  <2> QED
    BY <2>4 DEF t, reached
<1>6. Typed'
  <2>1. pending' \in [Events -> Tracker]
    BY <1>0, <1>1, <1>5 DEF note_send_started
  <2>2. DataTypes'
    BY <1>0, <2>1 DEF PipelineInv, Typed, DataTypes
  <2>3. SlotTypes'
    BY <1>0, <1>1, <1>2, Names DEF PipelineInv, Typed, SlotTypes
  <2>4. PlaceTypes'
    BY <1>0 DEF PipelineInv, Typed, PlaceTypes
  <2> QED
    BY <2>2, <2>3, <2>4 DEF Typed
<1>7. Producers'
  <2>1. \A x \in Events : Unsent(x) => x # c /\ Unsent(x)'
    BY <1>0, <1>3, <1>4 DEF Unsent, Reached
  <2>2. \A x \in Events : pc'[x] \in Unnoted => pending'[x] = Absent
    BY <1>0, <1>4, <2>1 DEF PipelineInv, Producers, Unnoted
  <2> QED
    BY <1>0, <2>1, <2>2 DEF PipelineInv, Producers, Ready
<1>8. Worker'
  <2>1. wk'.ev = c /\ wk'.pc = IF c \in Events THEN "count" ELSE "command"
    BY <1>0
  <2> QED
    BY <1>0, <1>2, <1>3, <1>4, <2>1 DEF PipelineInv, Worker
<1>9. Locks'
  BY <1>0 DEF PipelineInv, Locks
<1>10. Stages'
  BY <1>0 DEF PipelineInv, Stages, Ready, Over
<1>11. Tallies'
  BY <1>0 DEF PipelineInv, Tallies
<1>12. Trackers' /\ LossesCounted'
  <2>1. \A x \in Events : Sound(pending'[x], x \in held'[s1], x \in Reached', BeingSent(x)')
    <3>1. TAKE x \in Events
    <3>2. CASE x = c
      <4>1. /\ Sound(pending'[c], FALSE, c \in Reached, TRUE) /\ c \notin held'[s1] /\ Reached' = Reached
            /\ BeingSent(c)'
        BY <1>0, <1>4, <1>5, <3>2 DEF Reached
      <4> QED
        BY <3>2, <4>1 DEF Sound
    <3>3. CASE x # c
      BY <1>0, <1>4, <3>3 DEF PipelineInv, Trackers, Sound, Reached
    <3> QED
      BY <3>2, <3>3
  <2>2. \A x \in Events : /\ Untraced(pending'[x]) => Untraced(pending[x]) \/ x \in Reached' \/ x \in {}
                          /\ pc[x] \in Unnoted => pc'[x] \in Unnoted \/ ~Untraced(pending'[x])
                          /\ x \in Reached => x \in Reached'
    BY <1>0, <1>4, <1>5 DEF Reached
  <2>3. dropped + unknown + rejected + Cardinality(Pool) + Cardinality({})
            <= dropped' + unknown' + rejected' + Cardinality(Pool')
    <3>1. Cardinality({}) = 0 /\ Cardinality(Pool) \in Nat /\ Pool' = Pool
      BY <1>0, FS_EmptySet, PoolFinite DEF Pool
    <3> QED
      BY <1>0, <3>1 DEF PipelineInv, Typed, DataTypes
  <2> QED
    BY <1>6, <2>1, <2>2, <2>3, DataStep
<1> QED
  BY <1>6, <1>7, <1>8, <1>9, <1>10, <1>11, <1>12 DEF PipelineInv

LEMMA UncountStep ==
    ASSUME PipelineInv, WorkerUncounts PROVE PipelineInv'
<1>0. /\ UNCHANGED <<pending, held, accepted, maybe, chan, alive, handle, lock, pc, tries, rc, ack, timed_out, crashes,
                     dropped, unknown, rejected>>
      /\ wk.pc = "count" /\ wk' = [wk EXCEPT !.pc = "send"] /\ queued' = Dec(queued)
  BY DEF WorkerUncounts, fanVars, slotVars, cntVars
<1>1. /\ wk'.pc = "send" /\ wk'.ev = wk.ev /\ alive /\ queued' \in 0..(UsizeModulus - 1)
      /\ wk' \in [pc : {"idle", "count", "send", "command"}, ev : Events \cup Commands \cup {NoEvent}]
  <2>1. queued' \in 0..(UsizeModulus - 1)
    BY <1>0, Names DEF PipelineInv, Typed, DataTypes, Dec
  <2> QED
    BY <1>0, <2>1 DEF PipelineInv, Typed, SlotTypes, IdleWorker
<1>2. Typed'
  <2>1. DataTypes'
    BY <1>0, <1>1 DEF PipelineInv, Typed, DataTypes
  <2>2. SlotTypes'
    BY <1>0, <1>1 DEF PipelineInv, Typed, SlotTypes
  <2>3. PlaceTypes'
    BY <1>0 DEF PipelineInv, Typed, PlaceTypes
  <2> QED
    BY <2>1, <2>2, <2>3 DEF Typed
<1>3. Producers'
  BY <1>0, <1>1 DEF PipelineInv, Producers, Unsent, InChan, Reached, Ready
<1>4. Worker'
  BY <1>0, <1>1 DEF PipelineInv, Worker, InChan
<1>5. Locks' /\ Tallies'
  BY <1>0 DEF PipelineInv, Locks, Tallies
<1>6. Stages'
  BY <1>0 DEF PipelineInv, Stages, Ready
<1>7. Trackers' /\ LossesCounted'
  <2>1. \A x \in Events : /\ BeingSent(x)' <=> BeingSent(x)
                          /\ pc'[x] \in Unnoted <=> pc[x] \in Unnoted
    BY <1>0, <1>1 DEF BeingSent
  <2>2. \A b \in Actors : rc'[b].lost = rc[b].lost /\ rc[b].lost \in Nat
    BY <1>0 DEF PipelineInv, Typed, PlaceTypes, Reconciling
  <2>3. UNCHANGED Untouched
    BY <1>0 DEF Untouched, fanVars, cntVars
  <2> QED
    BY <1>2, <2>1, <2>2, <2>3, Names, QuietStep DEF Untouched
<1> QED
  BY <1>2, <1>3, <1>4, <1>5, <1>6, <1>7 DEF PipelineInv

LEMMA WorkerSendStep ==
    ASSUME PipelineInv, NEW answer \in {"Delivered", "Buffered", "Lost", "Unknown"}, WorkerSends(answer)
    PROVE  PipelineInv'
<1>e. PICK e : e = wk.ev
  OBVIOUS
<1> DEFINE applied == ApplySinkResults(pending, e, [s \in Sinks |-> answer])
           X == IF FinalLoss(applied, e) THEN {e} ELSE {}
<1>0. /\ UNCHANGED <<queued, chan, alive, handle, lock, pc, tries, rc, ack, timed_out, crashes, rejected>>
      /\ wk.pc = "send" /\ wk' = IdleWorker
      /\ answer = "Buffered" => held' = [held EXCEPT ![s1] = held[s1] \cup {e}]
      /\ answer # "Buffered" => held' = held
      /\ accepted' = IF answer = "Delivered" THEN accepted \cup {e} ELSE accepted
      /\ maybe' = IF answer = "Unknown" THEN maybe \cup {e} ELSE maybe
      /\ pending' = note_dequeued_record(applied, e)
      /\ dropped' = Saturating(dropped, IF FinalLoss(applied, e) THEN 1 ELSE 0)
      /\ unknown' = Saturating(unknown, IF BecameUnknown(applied, e) THEN 1 ELSE 0)
  BY <1>e DEF WorkerSends, slotVars
<1>1. /\ e \in Events /\ alive /\ BeingSent(e) /\ ~InChan(e)
      /\ pending \in [Events -> Tracker] /\ held \in [Sinks -> SUBSET Events]
      /\ accepted \subseteq Events /\ maybe \subseteq Events /\ dropped \in Nat /\ unknown \in Nat /\ rejected \in Nat
  BY <1>e, <1>0 DEF PipelineInv, Typed, SlotTypes, DataTypes, Worker, BeingSent, IdleWorker
<1>2. e \notin held[s1]
  BY <1>1 DEF PipelineInv, Trackers, Sound
<1>3. /\ held' \in [Sinks -> SUBSET Events] /\ \A x \in Events : x # e => (x \in held'[s1] <=> x \in held[s1])
      /\ e \in held'[s1] <=> answer = "Buffered"
      /\ \A x \in Events : x # e => (x \in Reached' <=> x \in Reached)
      /\ e \in Reached' <=> e \in Reached \/ answer \in {"Delivered", "Unknown"}
      /\ accepted' \subseteq Events /\ maybe' \subseteq Events
  BY <1>0, <1>1, <1>2, OneSink DEF Reached
<1>4. /\ pending' \in [Events -> Tracker] /\ \A x \in Events \ {e} : pending'[x] = pending[x]
      /\ Sound(pending'[e], e \in held'[s1], e \in Reached', FALSE)
      /\ Untraced(pending'[e]) => Untraced(pending[e]) \/ e \in Reached' \/ e \in X
  <2> DEFINE f == [s \in Sinks |-> answer]
  <2>1. /\ Sound(pending[e], FALSE, e \in Reached, TRUE) /\ f \in [Sinks -> {answer}]
        /\ pending' = note_dequeued_record(ApplySinkResults(pending, e, f), e)
        /\ applied = ApplySinkResults(pending, e, f)
    BY <1>0, <1>1, <1>2 DEF PipelineInv, Trackers, Sound
  <2> HIDE DEF applied, f
  <2>3. /\ pending' \in [Events -> Tracker] /\ \A x \in Events \ {e} : pending'[x] = pending[x]
        /\ Sound(pending'[e], e \in held'[s1], e \in Reached', FALSE)
        /\ Untraced(pending'[e]) => Untraced(pending[e]) \/ e \in Reached' \/ FinalLoss(applied, e)
    BY <1>1, <1>3, <2>1, SendOne
  <2>5. FinalLoss(applied, e) => e \in X
    OBVIOUS
  <2> HIDE DEF X
  <2> QED
    BY <2>3, <2>5
<1> HIDE DEF applied
<1>5. \A x \in Events \ {e} : pending'[x] = pending[x] /\ ~BeingSent(x)' /\ ~BeingSent(x)
  BY <1>e, <1>0, <1>4 DEF BeingSent, IdleWorker
<1>6. /\ dropped' \in Nat /\ unknown' \in Nat /\ (unknown' >= unknown \/ unknown' = 2 * UsizeModulus)
      /\ dropped' = dropped + Cardinality(X) \/ dropped' = 2 * UsizeModulus
      /\ X \in SUBSET Events /\ Cardinality(X) \in Nat
  <2>1. Cardinality(X) = (IF FinalLoss(applied, e) THEN 1 ELSE 0) /\ X \in SUBSET Events
    BY <1>1, FS_EmptySet, FS_Singleton
  <2>2. dropped' \in Nat /\ (dropped' = dropped + Cardinality(X) \/ dropped' = 2 * UsizeModulus)
    BY <1>0, <1>1, <2>1, Capped
  <2>3. unknown' \in Nat /\ (unknown' >= unknown \/ unknown' = 2 * UsizeModulus)
    <3>1. PICK n \in {0, 1} : unknown' = Saturating(unknown, n)
      BY <1>0
    <3>2. n \in Nat /\ n >= 0
      BY <3>1
    <3>3. unknown' \in Nat /\ (unknown' = unknown + n \/ unknown' = 2 * UsizeModulus)
      BY <1>1, <3>1, <3>2, Capped
    <3> QED
      BY <1>1, <3>2, <3>3
  <2> QED
    BY <2>1, <2>2, <2>3
<1> HIDE DEF X
<1>7. Typed'
  <2>2. DataTypes'
    BY <1>0, <1>1, <1>3, <1>4, <1>6 DEF PipelineInv, Typed, DataTypes
  <2>3. SlotTypes'
    BY <1>0, Records DEF PipelineInv, Typed, SlotTypes
  <2>4. PlaceTypes'
    BY <1>0 DEF PipelineInv, Typed, PlaceTypes
  <2> QED
    BY <2>2, <2>3, <2>4 DEF Typed
<1>8. Producers'
  <2>1. \A x \in Events : /\ pc'[x] = pc[x] /\ (Ready(x) => Ready(x)')
                          /\ InChan(x)' => InChan(x)
                          /\ wk.ev # x => wk'.ev # x
    BY <1>0, Names DEF Ready, InChan, IdleWorker
  <2>2. \A x \in Events : Unsent(x) => /\ pending'[x] = pending[x] \/ pending'[x] = Absent
                                       /\ x \notin held'[s1] /\ x \notin Reached'
    BY <1>e, <1>3, <1>5 DEF Unsent
  <2> QED
    BY <1>0, <2>1, <2>2, ProducersKept
<1>9. Worker'
  <2>1. \A x : InChan(x)' <=> InChan(x)
    BY <1>0 DEF InChan
  <2> QED
    BY <1>0, <1>1, <1>3, <2>1, Names DEF PipelineInv, Worker, IdleWorker
<1>10. Locks' /\ Tallies'
  BY <1>0 DEF PipelineInv, Locks, Tallies
<1>11. Stages'
  BY <1>0, <1>1 DEF PipelineInv, Stages, Ready, Over
<1>12. Trackers' /\ LossesCounted'
  <2>1. ~BeingSent(e)'
    BY <1>0 DEF BeingSent, IdleWorker
  <2>2. \A x \in Events : Sound(pending'[x], x \in held'[s1], x \in Reached', BeingSent(x)')
    <3>1. TAKE x \in Events
    <3>2. CASE x = e
      BY <1>4, <2>1, <3>2 DEF Sound
    <3>3. CASE x # e
      BY <1>3, <1>5, <3>3 DEF PipelineInv, Trackers, Sound
    <3> QED
      BY <3>2, <3>3
  <2>3. \A x \in Events : /\ Untraced(pending'[x]) => Untraced(pending[x]) \/ x \in Reached' \/ x \in X
                          /\ pc[x] \in Unnoted => pc'[x] \in Unnoted \/ ~Untraced(pending'[x])
                          /\ x \in Reached => x \in Reached'
    BY <1>0, <1>3, <1>4, <1>5
  <2>4. \/ dropped + unknown + rejected + Cardinality(Pool) + Cardinality(X)
            <= dropped' + unknown' + rejected' + Cardinality(Pool')
        \/ dropped' = 2 * UsizeModulus \/ unknown' = 2 * UsizeModulus
    <3>1. Cardinality(Pool) \in Nat /\ Pool' = Pool
      BY <1>0, PoolFinite DEF Pool
    <3> QED
      BY <1>0, <1>1, <1>6, <3>1
  <2> QED
    BY <1>6, <1>7, <2>2, <2>3, <2>4, DataStep
<1> QED
  BY <1>7, <1>8, <1>9, <1>10, <1>11, <1>12 DEF PipelineInv

\* The worker's task ends, by a panic or aborted by the shutdown code.
LEMMA EndStep ==
    ASSUME PipelineInv, WorkerEnds, wk.pc # "count", SlotTypes', PlaceTypes',
           UNCHANGED <<pending, held, accepted, queued, tries, rc, dropped, unknown, rejected>>,
           \A x \in Events : pc'[x] = pc[x]
    PROVE  Typed' /\ Producers' /\ Worker' /\ Trackers' /\ LossesCounted'
<1>0. /\ alive' = FALSE /\ chan' = <<>> /\ wk' = IdleWorker
      /\ maybe' = maybe \cup (IF wk.pc = "send" THEN {wk.ev} ELSE {})
  BY DEF WorkerEnds
<1>1. /\ maybe' \subseteq Events /\ \A x \in Events : x \in Reached' <=> x \in Reached \/ BeingSent(x)
      /\ \A x \in Events : ~BeingSent(x)'
  BY <1>0 DEF Reached, BeingSent, IdleWorker, PipelineInv, Typed, DataTypes, Worker
<1>2. Typed'
  <2>1. DataTypes'
    BY <1>1 DEF PipelineInv, Typed, DataTypes
  <2> QED
    BY <2>1 DEF Typed
<1>3. \A x : ~InChan(x)'
  BY <1>0 DEF InChan
<1>4. Producers'
  <2>1. \A x \in Events : /\ pc'[x] = pc[x] /\ (Ready(x) => Ready(x)')
                          /\ InChan(x)' => InChan(x)
                          /\ wk.ev # x => wk'.ev # x
    BY <1>0, <1>3, Names DEF Ready, IdleWorker
  <2>2. \A x \in Events : Unsent(x) => /\ pending'[x] = pending[x] \/ pending'[x] = Absent
                                       /\ x \notin held'[s1] /\ x \notin Reached'
    BY <1>1 DEF Unsent, BeingSent
  <2> QED
    BY <2>1, <2>2, ProducersKept
<1>5. Worker'
  <2>1. \A i, j \in 1..Len(chan') : chan'[i] \in Events /\ chan'[i] = chan'[j] => i = j
    BY <1>0
  <2> QED
    BY <1>0, <1>3, <2>1, Names DEF Worker, IdleWorker
<1>6. Trackers' /\ LossesCounted'
  <2>1. \A x \in Events : Sound(pending'[x], x \in held'[s1], x \in Reached', BeingSent(x)')
    <3>1. TAKE x \in Events
    <3>2. Sound(pending[x], x \in held[s1], x \in Reached, BeingSent(x))
      BY DEF PipelineInv, Trackers
    <3> QED
      BY <1>1, <3>2 DEF Sound
  <2>2. \A x \in Events : /\ Untraced(pending'[x]) => Untraced(pending[x]) \/ x \in Reached' \/ x \in {}
                          /\ pc[x] \in Unnoted => pc'[x] \in Unnoted \/ ~Untraced(pending'[x])
                          /\ x \in Reached => x \in Reached'
    BY <1>1
  <2>3. dropped + unknown + rejected + Cardinality(Pool) + Cardinality({})
            <= dropped' + unknown' + rejected' + Cardinality(Pool')
    <3>1. Cardinality({}) = 0 /\ Cardinality(Pool) \in Nat /\ Pool' = Pool
      BY FS_EmptySet, PoolFinite DEF Pool
    <3> QED
      BY <3>1 DEF PipelineInv, Typed, DataTypes
  <2> QED
    BY <1>2, <2>1, <2>2, <2>3, DataStep
<1> QED
  BY <1>2, <1>4, <1>5, <1>6

LEMMA PanicStep ==
    ASSUME PipelineInv, WorkerPanics PROVE PipelineInv'
<1>0. /\ UNCHANGED <<pending, held, accepted, queued, handle, lock, pc, tries, rc, timed_out, dropped, unknown, rejected>>
      /\ alive /\ crashes < MaxCrashes /\ crashes' = crashes + 1 /\ wk.pc # "count"
      /\ alive' = FALSE /\ chan' = <<>> /\ wk' = IdleWorker /\ ack' \in {ack, "gone"} /\ WorkerEnds
  BY DEF WorkerPanics, WorkerEnds, cntVars
<1>1. SlotTypes'
  <2>1. /\ chan' \in Seq(Events \cup Commands) /\ Len(chan') <= Capacity
        /\ wk' \in [pc : {"idle", "count", "send", "command"}, ev : Events \cup Commands \cup {NoEvent}]
    BY <1>0, Records, Names
  <2> QED
    BY <1>0, <2>1 DEF PipelineInv, Typed, SlotTypes
<1>2. PlaceTypes'
  BY <1>0, PipelineAssumption DEF PipelineInv, Typed, PlaceTypes
<1>3. Typed' /\ Producers' /\ Worker' /\ Trackers' /\ LossesCounted'
  BY <1>0, <1>1, <1>2, EndStep
<1>4. Locks' /\ Tallies'
  BY <1>0 DEF PipelineInv, Locks, Tallies
<1>5. Stages'
  BY <1>0 DEF PipelineInv, Stages, Ready
<1> QED
  BY <1>3, <1>4, <1>5 DEF PipelineInv

LEMMA WorkerStep ==
    ASSUME PipelineInv, run_export_worker PROVE PipelineInv'
  BY ReceiveStep, UncountStep, WorkerSendStep, WorkerFlushStep DEF run_export_worker

-----------------------------------------------------------------------------
(* The supervisor and the shutdown code *)

\* A step that moves the shutdown code, or the supervisor, and leaves the
\* fanout and the counters alone.
LEMMA ControlStep ==
    ASSUME PipelineInv, NEW a \in {Ctl, Sup}, Ready(a),
           UNCHANGED <<pending, held, accepted, maybe, wk, tries, crashes, dropped, unknown, rejected>>,
           DataTypes', SlotTypes', PlaceTypes', Locks', Stages', Tallies',
           \A x \in Events : pc'[x] = pc[x] /\ (InChan(x)' => InChan(x)),
           \A i, j \in 1..Len(chan') : chan'[i] \in Events /\ chan'[i] = chan'[j] => i = j,
           \A b \in Actors \ {a} : rc'[b] = rc[b],
           rc'[a].lost >= rc[a].lost
    PROVE  PipelineInv'
<1>1. Typed'
  BY DEF Typed
<1>2. Producers'
  <2>1. \A x \in Events : Unsent(x) => Unsent(x)'
    BY DEF Unsent, Reached
  <2> QED
    BY <2>1, Names DEF PipelineInv, Producers, Ready
<1>3. Worker'
  BY DEF PipelineInv, Worker
<1>4. Trackers' /\ LossesCounted'
  <2>1. \A x \in Events : /\ BeingSent(x)' <=> BeingSent(x)
                          /\ pc'[x] \in Unnoted <=> pc[x] \in Unnoted
    BY DEF BeingSent
  <2>2. UNCHANGED Untouched
    BY DEF Untouched, fanVars, cntVars
  <2> QED
    BY <1>1, <2>1, <2>2, Names, QuietStep DEF Untouched
<1> QED
  BY <1>1, <1>2, <1>3, <1>4 DEF PipelineInv

LEMMA ExitStep ==
    ASSUME PipelineInv, check_export_worker_exit PROVE PipelineInv'
<1>0. /\ UNCHANGED <<pending, held, accepted, maybe, queued, chan, alive, lock, wk, pc, tries, ack, timed_out, crashes,
                     dropped, unknown, rejected>>
      /\ pc[Sup] = "run" /\ Ready(Sup) /\ ~alive /\ handle' = FALSE
      /\ rc' = [rc EXCEPT ![Sup] = [step |-> "swap", lost |-> 0]]
  BY DEF check_export_worker_exit, StartReconcile, fanVars, cntVars
<1>1. rc' \in [Actors -> Reconciling]
  BY <1>0, Records DEF PipelineInv, Typed, PlaceTypes
<1>2. DataTypes'
  BY <1>0 DEF PipelineInv, Typed, DataTypes
<1>3. SlotTypes'
  BY <1>0 DEF PipelineInv, Typed, SlotTypes
<1>4. PlaceTypes'
  BY <1>0, <1>1 DEF PipelineInv, Typed, PlaceTypes
<1>5. Locks'
  BY <1>0 DEF PipelineInv, Locks
<1>6. Stages'
  BY <1>0, Names DEF PipelineInv, Typed, PlaceTypes, Stages, Ready
<1>7. Tallies'
  BY <1>0, Names DEF PipelineInv, Typed, PlaceTypes, Tallies
<1>8. /\ \A x \in Events : pc'[x] = pc[x] /\ (InChan(x)' => InChan(x))
      /\ \A i, j \in 1..Len(chan') : chan'[i] \in Events /\ chan'[i] = chan'[j] => i = j
  BY <1>0 DEF InChan, PipelineInv, Worker
<1>9. (\A b \in Actors \ {Sup} : rc'[b] = rc[b]) /\ rc'[Sup].lost >= rc[Sup].lost
  BY <1>0, Names DEF PipelineInv, Typed, PlaceTypes, Tallies, Ready
<1> QED
  BY <1>0, <1>2, <1>3, <1>4, <1>5, <1>6, <1>7, <1>8, <1>9, ControlStep

LEMMA BeginStep ==
    ASSUME PipelineInv, ~LateRecords, BeginShutdown PROVE PipelineInv'
<1>0. /\ UNCHANGED <<pending, held, accepted, maybe, queued, chan, alive, handle, lock, wk, tries, rc, ack, timed_out,
                     crashes, dropped, unknown, rejected>>
      /\ pc[Ctl] = "run" /\ Ready(Ctl) /\ pc' = [pc EXCEPT ![Ctl] = "ensure1"]
      /\ \A e \in Events : pc[e] \in {"new", "done"} /\ Ready(e)
  BY DEF BeginShutdown, At, Goto, fanVars, slotVars, cntVars
<1>2. DataTypes'
  BY <1>0 DEF PipelineInv, Typed, DataTypes
<1>3. SlotTypes'
  BY <1>0 DEF PipelineInv, Typed, SlotTypes
<1>4. PlaceTypes'
  BY <1>0, Names DEF PipelineInv, Typed, PlaceTypes, ControllerPc
<1>5. Locks'
  BY <1>0, Names DEF PipelineInv, Typed, PlaceTypes, Locks
<1>6. Stages'
  BY <1>0, Names DEF PipelineInv, Typed, PlaceTypes, Stages, Ready, Over
<1>7. Tallies'
  BY <1>0, Names DEF PipelineInv, Typed, PlaceTypes, Tallies
<1>8. /\ \A x \in Events : pc'[x] = pc[x] /\ (InChan(x)' => InChan(x))
      /\ \A i, j \in 1..Len(chan') : chan'[i] \in Events /\ chan'[i] = chan'[j] => i = j
  BY <1>0, Names DEF InChan, PipelineInv, Worker, Typed, PlaceTypes
<1>9. (\A b \in Actors \ {Ctl} : rc'[b] = rc[b]) /\ rc'[Ctl].lost >= rc[Ctl].lost
  BY <1>0, Names DEF PipelineInv, Typed, PlaceTypes, Reconciling
<1> QED
  BY <1>0, <1>2, <1>3, <1>4, <1>5, <1>6, <1>7, <1>8, <1>9, ControlStep

\* The shutdown code goes from one place to another, and may send a command
\* or start a reconciliation on the way.
LEMMA MoveStep ==
    ASSUME PipelineInv, NEW l \in ControllerPc, Ready(Ctl), pc' = [pc EXCEPT ![Ctl] = l],
           UNCHANGED <<pending, held, accepted, maybe, queued, alive, handle, lock, wk, tries, crashes,
                       dropped, unknown, rejected>>,
           pc[Ctl] \notin {"run", "spawn1", "spawn2", "drop", "halt", "stopped"},
           l \notin {"run", "drop", "halt", "stopped"},
           l \in Over => ~alive, pc[Ctl] = "join" => ~alive,
           rc' = rc \/ rc' = [rc EXCEPT ![Ctl] = [step |-> "swap", lost |-> 0]],
           chan' = chan \/ (alive /\ Len(chan) < Capacity /\ \E c \in Commands : chan' = Append(chan, c)),
           ack' \in {"none", "waiting", "ok", "err", "gone"}, timed_out' \in BOOLEAN
    PROVE  PipelineInv'
<1>1. rc' \in [Actors -> Reconciling]
  BY Records DEF PipelineInv, Typed, PlaceTypes
<1>2. /\ chan' \in Seq(Events \cup Commands) /\ Len(chan') <= Capacity /\ (~alive => chan' = chan)
      /\ \A x \in Events : InChan(x)' => InChan(x)
      /\ \A i, j \in 1..Len(chan') : chan'[i] \in Events /\ chan'[i] = chan'[j] => i = j
  <2>1. CASE chan' = chan
    BY <2>1 DEF InChan, PipelineInv, Worker, Typed, SlotTypes
  <2>2. ASSUME alive, Len(chan) < Capacity, NEW c \in Commands, chan' = Append(chan, c)
        PROVE  /\ chan' \in Seq(Events \cup Commands) /\ Len(chan') <= Capacity
               /\ \A x \in Events : InChan(x)' => InChan(x)
               /\ \A i, j \in 1..Len(chan') : chan'[i] \in Events /\ chan'[i] = chan'[j] => i = j
    <3>1. /\ chan' \in Seq(Events \cup Commands) /\ Len(chan') = Len(chan) + 1 /\ Len(chan) \in Nat
          /\ \A i \in 1..Len(chan) : chan'[i] = chan[i]
          /\ chan'[Len(chan) + 1] = c
          /\ \A y : InChan(y)' => InChan(y) \/ y = c
      BY <2>2, SentOff DEF PipelineInv, Typed, SlotTypes
    <3>2. c \notin Events
      BY Names
    <3>3. \A i \in 1..Len(chan') : i \in 1..Len(chan) \/ i = Len(chan) + 1
      BY <3>1
    <3>4. \A i, j \in 1..Len(chan') : chan'[i] \in Events /\ chan'[i] = chan'[j] => i = j
      BY <3>1, <3>2, <3>3 DEF PipelineInv, Worker
    <3> QED
      BY <2>2, <3>1, <3>2, <3>4, Names
  <2> QED
    BY <2>1, <2>2
<1>3. DataTypes'
  BY DEF PipelineInv, Typed, DataTypes
<1>4. SlotTypes'
  BY <1>2 DEF PipelineInv, Typed, SlotTypes
<1>5. PlaceTypes'
  BY <1>1, Names DEF PipelineInv, Typed, PlaceTypes
<1>6. Locks'
  BY Names DEF PipelineInv, Typed, PlaceTypes, Locks
<1>7. Stages'
  BY Names DEF PipelineInv, Typed, PlaceTypes, Stages, Ready
<1>8. Tallies'
  BY Names DEF PipelineInv, Typed, PlaceTypes, Tallies, Ready
<1>9. \A x \in Events : pc'[x] = pc[x]
  BY Names DEF PipelineInv, Typed, PlaceTypes
<1>10. (\A b \in Actors \ {Ctl} : rc'[b] = rc[b]) /\ rc'[Ctl].lost >= rc[Ctl].lost
  BY Names DEF PipelineInv, Typed, PlaceTypes, Tallies, Ready, Reconciling
<1> QED
  BY <1>2, <1>3, <1>4, <1>5, <1>6, <1>7, <1>8, <1>9, <1>10, ControlStep

LEMMA SwapQueuedStep ==
    ASSUME PipelineInv, SwapQueued PROVE PipelineInv'
<1>0. /\ UNCHANGED <<pending, held, accepted, maybe, chan, alive, handle, lock, wk, tries, ack, timed_out,
                     crashes, dropped, unknown, rejected>>
      /\ pc[Ctl] = "swap" /\ Ready(Ctl) /\ pc' = [pc EXCEPT ![Ctl] = "drop"] /\ queued' = 0
      /\ rc' = [rc EXCEPT ![Ctl] = [rc[Ctl] EXCEPT !.lost = queued]]
  BY DEF SwapQueued, At, Goto, fanVars, slotVars, cntVars, PipelineInv, Typed, PlaceTypes
<1>1. /\ queued \in 0..(UsizeModulus - 1) /\ queued \in 0..(2 * UsizeModulus) /\ rc[Ctl] \in Reconciling
      /\ rc[Ctl].step = "none" /\ rc[Ctl].lost = 0
  BY <1>0, Names DEF PipelineInv, Typed, DataTypes, PlaceTypes, Tallies, Ready
<1>2. /\ [rc[Ctl] EXCEPT !.lost = queued] \in Reconciling
      /\ [rc[Ctl] EXCEPT !.lost = queued].step = "none" /\ [rc[Ctl] EXCEPT !.lost = queued].lost = queued
  BY <1>1 DEF Reconciling
<1>3. /\ rc' \in [Actors -> Reconciling] /\ rc'[Ctl].step = "none" /\ rc'[Ctl].lost = queued
      /\ \A b \in Actors \ {Ctl} : rc'[b] = rc[b]
  BY <1>0, <1>2, Names DEF PipelineInv, Typed, PlaceTypes
<1>4. DataTypes'
  BY <1>0, Names DEF PipelineInv, Typed, DataTypes
<1>5. SlotTypes'
  BY <1>0 DEF PipelineInv, Typed, SlotTypes
<1>6. PlaceTypes'
  BY <1>0, <1>3, Names DEF PipelineInv, Typed, PlaceTypes, ControllerPc
<1>7. Locks'
  BY <1>0, Names DEF PipelineInv, Typed, PlaceTypes, Locks
<1>8. Stages'
  BY <1>0, <1>3, Names DEF PipelineInv, Typed, PlaceTypes, Stages, Ready, Over
<1>9. Tallies'
  BY <1>0, <1>1, <1>3, Names DEF PipelineInv, Typed, PlaceTypes, Tallies
<1>10. /\ \A x \in Events : pc'[x] = pc[x] /\ (InChan(x)' => InChan(x))
       /\ \A i, j \in 1..Len(chan') : chan'[i] \in Events /\ chan'[i] = chan'[j] => i = j
  BY <1>0, Names DEF InChan, PipelineInv, Worker, Typed, PlaceTypes
<1>11. rc'[Ctl].lost >= rc[Ctl].lost
  BY <1>1, <1>3
<1> QED
  BY <1>0, <1>3, <1>4, <1>5, <1>6, <1>7, <1>8, <1>9, <1>10, <1>11, ControlStep

LEMMA HaltStep ==
    ASSUME PipelineInv, stop_background_tasks PROVE PipelineInv'
<1>0. /\ UNCHANGED <<pending, held, accepted, maybe, queued, chan, alive, handle, lock, wk, tries, rc, ack, timed_out,
                     crashes, dropped, unknown, rejected>>
      /\ pc[Ctl] = "halt" /\ Ready(Ctl) /\ Ready(Sup)
      /\ pc' = [pc EXCEPT ![Ctl] = "stopped", ![Sup] = "stopped"]
  BY DEF stop_background_tasks, At, fanVars, slotVars, cntVars
<1>1. /\ pc' \in [Actors -> ProducerPc \cup ControllerPc] /\ pc'[Ctl] = "stopped" /\ pc'[Sup] = "stopped"
      /\ \A x \in Events : pc'[x] = pc[x]
  BY <1>0, Names DEF PipelineInv, Typed, PlaceTypes, ControllerPc
<1>2. DataTypes'
  BY <1>0 DEF PipelineInv, Typed, DataTypes
<1>3. SlotTypes'
  BY <1>0 DEF PipelineInv, Typed, SlotTypes
<1>4. PlaceTypes'
  BY <1>0, <1>1 DEF PipelineInv, Typed, PlaceTypes, ControllerPc
<1>5. Locks'
  BY <1>0, <1>1 DEF PipelineInv, Locks
<1>6. Stages'
  BY <1>0, <1>1 DEF PipelineInv, Stages, Ready, Over
<1>7. Tallies'
  BY <1>0, <1>1 DEF PipelineInv, Tallies
<1>8. /\ \A x \in Events : InChan(x)' => InChan(x)
      /\ \A i, j \in 1..Len(chan') : chan'[i] \in Events /\ chan'[i] = chan'[j] => i = j
  BY <1>0 DEF InChan, PipelineInv, Worker
<1>9. (\A b \in Actors \ {Ctl} : rc'[b] = rc[b]) /\ rc'[Ctl].lost >= rc[Ctl].lost
  BY <1>0, Names DEF PipelineInv, Typed, PlaceTypes, Reconciling
<1> QED
  BY <1>0, <1>1, <1>2, <1>3, <1>4, <1>5, <1>6, <1>7, <1>8, <1>9, ControlStep

LEMMA TakeStep ==
    ASSUME PipelineInv, TakeHandle PROVE PipelineInv'
<1> DEFINE l == IF handle THEN "join" ELSE "fallback3"
<1>0. /\ UNCHANGED <<pending, held, accepted, queued, lock, tries, rc, timed_out, crashes, dropped, unknown, rejected>>
      /\ pc[Ctl] = "take" /\ Ready(Ctl) /\ handle' = FALSE /\ pc' = [pc EXCEPT ![Ctl] = l]
      /\ l \in {"join", "fallback3"} /\ (l = "fallback3" => ~alive)
  BY DEF TakeHandle, At, Goto, cntVars, PipelineInv, Locks
<1> HIDE DEF l
<1>1. \A x \in Events : pc'[x] = pc[x]
  BY <1>0, Names DEF PipelineInv, Typed, PlaceTypes
<1>2. Tallies'
  BY <1>0, Names DEF PipelineInv, Typed, PlaceTypes, Tallies
<1>3. CASE wk.pc # "count" /\ WorkerEnds
  <2>1. alive' = FALSE /\ chan' = <<>> /\ wk' = IdleWorker /\ ack' \in {ack, "gone"}
    BY <1>3 DEF WorkerEnds
  <2>2. SlotTypes'
    <3>1. /\ chan' \in Seq(Events \cup Commands) /\ Len(chan') <= Capacity
          /\ wk' \in [pc : {"idle", "count", "send", "command"}, ev : Events \cup Commands \cup {NoEvent}]
      BY <2>1, Records, Names
    <3> QED
      BY <1>0, <2>1, <3>1 DEF PipelineInv, Typed, SlotTypes
  <2>3. PlaceTypes'
    BY <1>0, <2>1, Names DEF PipelineInv, Typed, PlaceTypes, ControllerPc
  <2>4. Typed' /\ Producers' /\ Worker' /\ Trackers' /\ LossesCounted'
    BY <1>0, <1>1, <1>3, <2>2, <2>3, EndStep
  <2>5. Locks'
    BY <1>0, <2>1, Names DEF PipelineInv, Typed, PlaceTypes, Locks
  <2>6. Stages'
    BY <1>0, <1>1, <2>1, Names DEF PipelineInv, Typed, PlaceTypes, Stages, Ready, Over
  <2> QED
    BY <1>2, <2>4, <2>5, <2>6 DEF PipelineInv
<1>4. CASE UNCHANGED <<alive, chan, wk, maybe, ack>>
  <2>1. DataTypes'
    BY <1>0, <1>4 DEF PipelineInv, Typed, DataTypes
  <2>2. SlotTypes'
    BY <1>0, <1>4 DEF PipelineInv, Typed, SlotTypes
  <2>3. PlaceTypes'
    BY <1>0, <1>4, Names DEF PipelineInv, Typed, PlaceTypes, ControllerPc
  <2>4. Locks'
    BY <1>0, <1>4, Names DEF PipelineInv, Typed, PlaceTypes, Locks
  <2>5. Stages'
    BY <1>0, <1>1, <1>4, Names DEF PipelineInv, Typed, PlaceTypes, Stages, Ready, Over
  <2>6. /\ \A x \in Events : InChan(x)' => InChan(x)
        /\ \A i, j \in 1..Len(chan') : chan'[i] \in Events /\ chan'[i] = chan'[j] => i = j
    BY <1>4 DEF InChan, PipelineInv, Worker
  <2>7. (\A b \in Actors \ {Ctl} : rc'[b] = rc[b]) /\ rc'[Ctl].lost >= rc[Ctl].lost
    BY <1>0, Names DEF PipelineInv, Typed, PlaceTypes, Reconciling
  <2> QED
    BY <1>0, <1>1, <1>2, <1>4, <2>1, <2>2, <2>3, <2>4, <2>5, <2>6, <2>7, ControlStep
<1> QED
  BY <1>3, <1>4 DEF TakeHandle

\* drop_pending_records, once no worker runs: what was neither delivered nor
\* reported is counted.
LEMMA PendingLost ==
    ASSUME PipelineInv, ~alive, NEW x \in Events
    PROVE  Untraced(pending[x]) \/ x \in Reached \/ x \in LostPending(pending, held, {})
<1> DEFINE t == pending[x]
           q == SyncTracker(t, x, held, {})
<1>1. /\ t \in Tracker /\ held \in [Sinks -> SUBSET Events]
      /\ Sound(t, x \in held[s1], x \in Reached, BeingSent(x))
  BY DEF PipelineInv, Typed, DataTypes, Trackers
<1>2. ~BeingSent(x)
  BY DEF PipelineInv, Typed, SlotTypes, BeingSent, IdleWorker
<1>3. x \in LostPending(pending, held, {}) <=> CountsAsLoss(q) /\ ~q.delivered
  BY DEF LostPending, sync_pending_records_with_buffers
<1> HIDE DEF t
<1>4. (~t.present => t = Absent) /\ (t.buffered_by # {} => x \in held[s1])
  BY <1>1 DEF Sound
<1>5. Alike(q, t) /\ (q.buffered_by # {} <=> x \in held[s1])
  BY <1>1, <1>4, SyncOne
<1> HIDE DEF q
<1>6. Untraced(t) \/ x \in Reached \/ (CountsAsLoss(q) /\ ~q.delivered)
  BY <1>1, <1>2, <1>4, <1>5 DEF Untraced, Sound, CountsAsLoss, Alike
<1> QED
  BY <1>3, <1>6 DEF t

LEMMA DropPendingStep ==
    ASSUME PipelineInv, DropPending PROVE PipelineInv'
<1> DEFINE X == LostPending(pending, held, {})
<1>0. /\ UNCHANGED <<accepted, maybe, queued, chan, alive, handle, lock, wk, tries, ack, timed_out,
                     crashes, unknown, rejected>>
      /\ pc[Ctl] = "drop" /\ Ready(Ctl) /\ pc' = [pc EXCEPT ![Ctl] = "halt"]
      /\ pending' = NoRecords /\ held' = [s \in Sinks |-> {}]
      /\ rc' = [rc EXCEPT ![Ctl] = NotReconciling]
      /\ dropped' = Saturating(dropped, rc[Ctl].lost + Cardinality(X))
  BY DEF DropPending, At, Goto, slotVars
<1>1. /\ ~alive /\ \A x \in Events : ~BeingSent(x) /\ ~BeingSent(x)'
      /\ \A x \in Events : Untraced(pending[x]) \/ x \in Reached \/ x \in X
  <2>1. ~alive
    BY <1>0 DEF PipelineInv, Stages, Over
  <2>2. \A x \in Events : ~BeingSent(x) /\ ~BeingSent(x)'
    BY <1>0, <2>1 DEF PipelineInv, Typed, SlotTypes, BeingSent, IdleWorker
  <2> QED
    BY <2>1, <2>2, PendingLost
<1>2. X \in SUBSET Events /\ Cardinality(X) \in Nat
  <2>1. X \in SUBSET Events
    BY DEF LostPending
  <2> HIDE DEF X
  <2> QED
    BY <2>1, EventSets
<1> HIDE DEF X
<1>3. /\ dropped \in Nat /\ unknown \in Nat /\ rejected \in Nat /\ rc \in [Actors -> Reconciling]
      /\ rc[Ctl].lost \in Nat
  BY Names DEF PipelineInv, Typed, DataTypes, PlaceTypes, Reconciling
<1>4. dropped' \in Nat /\ (dropped' = dropped + (rc[Ctl].lost + Cardinality(X)) \/ dropped' = 2 * UsizeModulus)
  <2>1. rc[Ctl].lost + Cardinality(X) \in Nat
    BY <1>2, <1>3
  <2> QED
    BY <1>0, <1>3, <2>1, Capped
<1>5. /\ pending' \in [Events -> Tracker] /\ held' \in [Sinks -> SUBSET Events] /\ held'[s1] = {}
      /\ \A x \in Events : pending'[x] = Absent
  BY <1>0, BlankFields, OneSink DEF NoRecords
<1>6. /\ rc' \in [Actors -> Reconciling] /\ rc'[Ctl] = NotReconciling /\ \A b \in Actors \ {Ctl} : rc'[b] = rc[b]
      /\ pc' \in [Actors -> ProducerPc \cup ControllerPc] /\ pc'[Ctl] = "halt"
      /\ \A b \in Actors \ {Ctl} : pc'[b] = pc[b]
  BY <1>0, Records, Names DEF PipelineInv, Typed, PlaceTypes, ControllerPc
<1>7. Typed'
  <2>1. DataTypes'
    BY <1>0, <1>4, <1>5 DEF PipelineInv, Typed, DataTypes
  <2>2. SlotTypes'
    BY <1>0 DEF PipelineInv, Typed, SlotTypes
  <2>3. PlaceTypes'
    BY <1>0, <1>6, Names DEF PipelineInv, Typed, PlaceTypes, ControllerPc
  <2> QED
    BY <2>1, <2>2, <2>3 DEF Typed
<1>8. Producers'
  <2>1. \A x \in Events : /\ pc'[x] = pc[x] /\ (Ready(x) => Ready(x)')
                          /\ InChan(x)' => InChan(x)
                          /\ wk.ev # x => wk'.ev # x
    BY <1>0, <1>6, Names DEF Ready, InChan
  <2>2. \A x \in Events : Unsent(x) => /\ pending'[x] = pending[x] \/ pending'[x] = Absent
                                       /\ x \notin held'[s1] /\ x \notin Reached'
    BY <1>0, <1>5 DEF Unsent, Reached
  <2> QED
    BY <1>0, <2>1, <2>2, ProducersKept
<1>9. Worker'
  BY <1>0, <1>5 DEF PipelineInv, Worker, InChan
<1>10. Locks'
  BY <1>0, <1>1, <1>6, Names DEF PipelineInv, Locks
<1>11. Stages'
  BY <1>0, <1>1, <1>5, <1>6, Names DEF PipelineInv, Stages, Ready, NotReconciling
<1>12. Tallies'
  BY <1>0, <1>6, Names DEF PipelineInv, Tallies, NotReconciling
<1>13. Trackers' /\ LossesCounted'
  <2>1. \A x \in Events : Sound(pending'[x], x \in held'[s1], x \in Reached', BeingSent(x)')
    BY <1>1, <1>5, BlankFields DEF Sound
  <2>2. \A x \in Events : /\ Untraced(pending'[x]) => Untraced(pending[x]) \/ x \in Reached' \/ x \in X
                          /\ pc[x] \in Unnoted => pc'[x] \in Unnoted \/ ~Untraced(pending'[x])
                          /\ x \in Reached => x \in Reached'
    BY <1>0, <1>1, <1>6, Names DEF Reached
  <2>3. /\ Cardinality(Pool) \in Nat /\ Cardinality(Pool') \in Nat /\ rc'[Ctl].lost = 0
        /\ Cardinality(Pool') + rc[Ctl].lost = Cardinality(Pool) + rc'[Ctl].lost
    <3>1. (\A b \in Actors \ {Ctl} : rc'[b].lost = rc[b].lost) /\ rc'[Ctl].lost = 0
      BY <1>6 DEF NotReconciling
    <3> QED
      BY <1>3, <1>6, <3>1, Names, PoolChanges DEF Pool
  <2>4. \/ dropped + unknown + rejected + Cardinality(Pool) + Cardinality(X)
            <= dropped' + unknown' + rejected' + Cardinality(Pool')
        \/ dropped' = 2 * UsizeModulus \/ unknown' = 2 * UsizeModulus
    BY <1>0, <1>2, <1>3, <1>4, <2>3
  <2> QED
    BY <1>2, <1>7, <2>1, <2>2, <2>4, DataStep
<1> QED
  BY <1>7, <1>8, <1>9, <1>10, <1>11, <1>12, <1>13 DEF PipelineInv

LEMMA MarkInflightStep ==
    ASSUME PipelineInv, MarkInflight PROVE PipelineInv'
<1>1. /\ pending' = mark_inflight_unknown(pending)
      /\ unknown' = Saturating(unknown, Cardinality(NewlyUnknown(pending)))
      /\ UNCHANGED <<held, accepted, maybe, queued, chan, alive, handle, lock, wk, tries, ack, timed_out, crashes, rejected>>
      /\ pc[Ctl] = "mark" /\ pc' = [pc EXCEPT ![Ctl] = "take"] /\ rc' = rc /\ dropped' = dropped
  BY DEF MarkInflight, At, Goto, slotVars
<1> QED
  BY <1>1, Names, MarkedStep

\* What a move of the shutdown code leaves alone.
Still == UNCHANGED <<pending, held, accepted, maybe, queued, alive, handle, lock, wk, tries, crashes,
                     dropped, unknown, rejected>>

\* Its moves that send a command, read the answer or give up on it.
LEMMA TalkStep ==
    ASSUME PipelineInv, NEW at, NEW next, NEW c \in Commands, At(at),
           <<at, next, c>> \in {<<"flush1", "fallback1", "wait1">>, <<"flush2", "fallback2", "wait2">>, <<"stop", "take", "wait3">>},
           SendCommand(c) \/ CommandRefused(next)
    PROVE  PipelineInv'
<1>1. /\ pc[Ctl] = at /\ Ready(Ctl)
      /\ \/ at = "flush1" /\ next = "fallback1" /\ c = "wait1"
         \/ at = "flush2" /\ next = "fallback2" /\ c = "wait2"
         \/ at = "stop" /\ next = "take" /\ c = "wait3"
  BY DEF At
<1>2. ack \in {"none", "waiting", "ok", "err", "gone"} /\ timed_out \in BOOLEAN
  BY DEF PipelineInv, Typed, PlaceTypes
<1>3. CASE SendCommand(c)
  <2>1. /\ Still /\ pc' = [pc EXCEPT ![Ctl] = c] /\ rc' = rc /\ alive /\ Len(chan) < Capacity /\ chan' = Append(chan, c)
        /\ ack' = "waiting" /\ timed_out' = timed_out
    BY <1>3 DEF SendCommand, Goto, Still, fanVars, cntVars
  <2>2. c \in ControllerPc /\ c \notin {"run", "drop", "halt", "stopped"} /\ c \notin Over
    BY <1>1 DEF ControllerPc, Commands, Over
  <2> QED
    BY <1>1, <1>2, <2>1, <2>2, MoveStep DEF Still
<1>4. CASE CommandRefused(next)
  <2>1. /\ Still /\ pc' = [pc EXCEPT ![Ctl] = next] /\ rc' = [rc EXCEPT ![Ctl] = [step |-> "swap", lost |-> 0]]
        /\ chan' = chan /\ ack' = ack /\ timed_out' = timed_out
    BY <1>4 DEF CommandRefused, Goto, StartReconcile, Still, fanVars, slotVars, cntVars
  <2>2. next \in ControllerPc /\ next \notin {"run", "drop", "halt", "stopped"} /\ next \notin Over
    BY <1>1 DEF ControllerPc, Over
  <2> QED
    BY <1>1, <1>2, <2>1, <2>2, MoveStep DEF Still
<1> QED
  BY <1>3, <1>4

LEMMA AnswerStep ==
    ASSUME PipelineInv, NEW at, NEW next, At(at),
           <<at, next>> \in {<<"wait1", "ensure2">>, <<"wait2", "stop">>, <<"wait3", "take">>},
           Acknowledged(next) \/ NotAcknowledged(next)
    PROVE  PipelineInv'
<1>1. /\ pc[Ctl] = at /\ Ready(Ctl)
      /\ \/ at = "wait1" /\ next = "ensure2"
         \/ at = "wait2" /\ next = "stop"
         \/ at = "wait3" /\ next = "take"
  BY DEF At
<1>2. timed_out \in BOOLEAN
  BY DEF PipelineInv, Typed, PlaceTypes
<1>3. /\ Still /\ pc' = [pc EXCEPT ![Ctl] = next] /\ chan' = chan /\ ack' = "none" /\ timed_out' = timed_out
      /\ rc' = rc \/ rc' = [rc EXCEPT ![Ctl] = [step |-> "swap", lost |-> 0]]
  BY DEF Acknowledged, NotAcknowledged, Goto, StartReconcile, Still, fanVars, slotVars, cntVars
<1>4. next \in ControllerPc /\ next \notin {"run", "drop", "halt", "stopped"} /\ next \notin Over
  BY <1>1 DEF ControllerPc, Over
<1> QED
  BY <1>1, <1>2, <1>3, <1>4, MoveStep DEF Still

\* Its other moves.
LEMMA PlainMove ==
    ASSUME PipelineInv, NEW l, Ready(Ctl), Still, UNCHANGED <<chan, rc, ack>>, timed_out' \in BOOLEAN,
           pc' = [pc EXCEPT ![Ctl] = l],
           \/ pc[Ctl] \in {"stop", "wait3"} /\ l \in {"take", "mark"}
           \/ pc[Ctl] = "join" /\ ~alive /\ l \in {"swap", "fallback3"}
    PROVE  PipelineInv'
<1>1. ack \in {"none", "waiting", "ok", "err", "gone"}
  BY DEF PipelineInv, Typed, PlaceTypes
<1>2. /\ l \in ControllerPc /\ l \notin {"run", "drop", "halt", "stopped"} /\ (l \in Over => ~alive)
      /\ pc[Ctl] \notin {"run", "spawn1", "spawn2", "drop", "halt", "stopped"} /\ (pc[Ctl] = "join" => ~alive)
  BY DEF ControllerPc, Over
<1> QED
  BY <1>1, <1>2, MoveStep DEF Still

LEMMA FlushDistributedStep ==
    ASSUME PipelineInv, NEW ensure, NEW spawn, NEW flush, NEW wait, NEW fallback, NEW next,
           <<ensure, spawn, flush, wait, fallback, next>> \in
               {<<"ensure1", "spawn1", "flush1", "wait1", "fallback1", "ensure2">>,
                <<"ensure2", "spawn2", "flush2", "wait2", "fallback2", "stop">>},
           flush_distributed(ensure, spawn, flush, wait, fallback, next)
    PROVE  PipelineInv'
<1>1. /\ \/ ensure = "ensure1" /\ spawn = "spawn1" /\ flush = "flush1" /\ wait = "wait1" /\ fallback = "fallback1" /\ next = "ensure2"
         \/ ensure = "ensure2" /\ spawn = "spawn2" /\ flush = "flush2" /\ wait = "wait2" /\ fallback = "fallback2" /\ next = "stop"
      /\ wait \in Commands
  BY DEF Commands
<1>2. Calls(Ctl, ensure, spawn, flush)
  BY <1>1 DEF Calls
<1>3. CASE At(ensure) /\ ensure_export_worker_started(Ctl, spawn, flush)
  BY <1>2, <1>3, Names, EnsureStep DEF At
<1>4. CASE pc[Ctl] = spawn /\ Spawn(Ctl, flush)
  BY <1>2, <1>4, Names, SpawnStep
<1>5. CASE At(flush) /\ (SendCommand(wait) \/ CommandRefused(fallback))
  <2>1. <<flush, fallback, wait>> \in
            {<<"flush1", "fallback1", "wait1">>, <<"flush2", "fallback2", "wait2">>, <<"stop", "take", "wait3">>}
    BY <1>1
  <2> QED
    BY <1>1, <1>5, <2>1, TalkStep
<1>6. CASE At(wait) /\ (Acknowledged(next) \/ NotAcknowledged(next))
  <2>1. <<wait, next>> \in {<<"wait1", "ensure2">>, <<"wait2", "stop">>, <<"wait3", "take">>}
    BY <1>1
  <2> QED
    BY <1>6, <2>1, AnswerStep
<1>7. CASE At(fallback) /\ FallbackFlush(next)
  <2>1. <<fallback, next>> \in {<<"fallback1", "ensure2">>, <<"fallback2", "stop">>, <<"fallback3", "swap">>}
    BY <1>1
  <2> QED
    BY <1>7, <2>1, FallbackStep
<1> QED
  BY <1>3, <1>4, <1>5, <1>6, <1>7 DEF flush_distributed

LEMMA FinalizeStep ==
    ASSUME PipelineInv, finalize_distributed_shutdown PROVE PipelineInv'
<1>0. timed_out \in BOOLEAN
  BY DEF PipelineInv, Typed, PlaceTypes
<1>1. CASE flush_distributed("ensure2", "spawn2", "flush2", "wait2", "fallback2", "stop")
  BY <1>1, FlushDistributedStep
<1>2. CASE AskToStop
  <2>1. CASE At("stop") /\ (SendCommand("wait3") \/ CommandRefused("take"))
    <3>1. "wait3" \in Commands
      BY DEF Commands
    <3> QED
      BY <2>1, <3>1, TalkStep
  <2>2. CASE At("stop") /\ Goto(Ctl, "take")
             /\ UNCHANGED <<fanVars, queued, slotVars, wk, tries, rc, ack, timed_out, crashes, cntVars>>
    <3>1. /\ Ready(Ctl) /\ Still /\ UNCHANGED <<chan, rc, ack, timed_out>> /\ pc' = [pc EXCEPT ![Ctl] = "take"]
          /\ pc[Ctl] = "stop"
      BY <2>2 DEF At, Goto, Still, fanVars, slotVars, cntVars
    <3> QED
      BY <1>0, <3>1, PlainMove
  <2> QED
    BY <1>2, <2>1, <2>2 DEF AskToStop
<1>3. CASE At("wait3") /\ ack = "ok" /\ Goto(Ctl, "take")
           /\ UNCHANGED <<fanVars, queued, slotVars, wk, tries, rc, ack, timed_out, crashes, cntVars>>
  <2>1. /\ Ready(Ctl) /\ Still /\ UNCHANGED <<chan, rc, ack, timed_out>> /\ pc' = [pc EXCEPT ![Ctl] = "take"]
        /\ pc[Ctl] = "wait3"
    BY <1>3 DEF At, Goto, Still, fanVars, slotVars, cntVars
  <2> QED
    BY <1>0, <2>1, PlainMove
<1>4. CASE At("wait3") /\ NotAcknowledged("take")
  BY <1>4, AnswerStep
<1>5. CASE StopTimesOut
  <2>1. /\ Ready(Ctl) /\ Still /\ UNCHANGED <<chan, rc, ack>> /\ timed_out' = TRUE /\ pc' = [pc EXCEPT ![Ctl] = "mark"]
        /\ pc[Ctl] = "wait3"
    BY <1>5 DEF StopTimesOut, At, Goto, Still, fanVars, slotVars, cntVars
  <2> QED
    BY <2>1, PlainMove
<1>6. CASE Join
  <2>1. PICK l \in {"swap", "fallback3"} : pc' = [pc EXCEPT ![Ctl] = l]
    BY <1>6 DEF Join, Goto
  <2>2. /\ Ready(Ctl) /\ Still /\ UNCHANGED <<chan, rc, ack, timed_out>> /\ pc[Ctl] = "join" /\ ~alive
    BY <1>6 DEF Join, At, Still, fanVars, slotVars, cntVars
  <2> QED
    BY <1>0, <2>1, <2>2, PlainMove
<1>7. CASE At("fallback3") /\ FallbackFlush("swap")
  BY <1>7, FallbackStep
<1> QED
  BY <1>1, <1>2, <1>3, <1>4, <1>5, <1>6, <1>7, MarkInflightStep, TakeStep, SwapQueuedStep, DropPendingStep
     DEF finalize_distributed_shutdown

LEMMA ShutdownStep ==
    ASSUME PipelineInv, execute_shutdown PROVE PipelineInv'
  BY FlushDistributedStep, FinalizeStep, HaltStep, ReconcileStep, Names DEF execute_shutdown

LEMMA SupervisorStep ==
    ASSUME PipelineInv, run_worker_supervisor PROVE PipelineInv'
  BY ExitStep, StaleFlushStep, ReconcileStep, Names DEF run_worker_supervisor

LEMMA PipelineStep ==
    ASSUME ~LateRecords, PipelineInv, [Next]_vars PROVE PipelineInv'
<1>1. CASE Next
  BY <1>1, ProducerStep, WorkerStep, PanicStep, SupervisorStep, BeginStep, ShutdownStep DEF Next
<1>2. CASE UNCHANGED vars
  <2>1. UNCHANGED <<pending, held, accepted, maybe, queued, chan, alive, handle, lock, wk, pc, tries, rc, ack, timed_out,
                    crashes, dropped, unknown, rejected>>
    BY <1>2 DEF vars, fanVars, slotVars, cntVars
  <2>2. Typed' /\ Producers' /\ Worker' /\ Locks' /\ Stages' /\ Tallies'
    BY <2>1 DEF PipelineInv, Typed, DataTypes, SlotTypes, PlaceTypes, Producers, Unsent, Reached, InChan, Ready,
                Worker, Locks, Stages, Tallies
  <2>3. Trackers' /\ LossesCounted'
    BY <2>1 DEF PipelineInv, Trackers, LossesCounted, Gone, Pool, Reached, BeingSent
  <2> QED
    BY <2>2, <2>3 DEF PipelineInv
<1> QED
  BY <1>1, <1>2

LEMMA PipelineStart ==
    ASSUME Init PROVE PipelineInv
<1>1. /\ pending = NoRecords /\ held = [s \in Sinks |-> {}] /\ queued = 0
      /\ chan = <<>> /\ alive = FALSE /\ handle = FALSE /\ lock = Nobody /\ wk = IdleWorker
      /\ tries = [e \in Events |-> 0] /\ rc = [a \in Actors |-> NotReconciling]
      /\ ack = "none" /\ timed_out = FALSE /\ crashes = 0
      /\ dropped = 0 /\ unknown = 0 /\ rejected = 0 /\ accepted = {} /\ maybe = {}
  BY DEF Init
<1>2. /\ pc \in [Actors -> ProducerPc \cup ControllerPc] /\ (\A e \in Events : pc[e] = "new")
      /\ pc[Ctl] = "run" /\ pc[Sup] = "run"
  BY Names DEF Init, ProducerPc, ControllerPc
<1>3. /\ \A e \in Events : pending[e] = Absent /\ tries[e] = 0 /\ ~InChan(e) /\ wk.ev # e /\ ~BeingSent(e)
      /\ held[s1] = {} /\ Reached = {} /\ \A a \in Actors : rc[a].step = "none" /\ rc[a].lost = 0
  BY <1>1, OneSink, Names DEF NoRecords, InChan, IdleWorker, BeingSent, Reached, NotReconciling
<1>4. Typed
  <2>1. DataTypes
    BY <1>1, BlankFields, Names DEF DataTypes, NoRecords
  <2>2. SlotTypes
    <3>1. chan \in Seq(Events \cup Commands) /\ Len(chan) = 0
      BY <1>1, Records
    <3>2. wk \in [pc : {"idle", "count", "send", "command"}, ev : Events \cup Commands \cup {NoEvent}]
      BY <1>1, Records
    <3>3. Len(chan) <= Capacity
      BY <3>1, Names
    <3> QED
      BY <1>1, <3>1, <3>2, <3>3 DEF SlotTypes
  <2>3. PlaceTypes
    <3>1. rc \in [Actors -> Reconciling]
      BY <1>1, Records
    <3>2. tries \in [Events -> 0..2] /\ crashes \in 0..MaxCrashes
      BY <1>1, PipelineAssumption
    <3>3. (\A e \in Events : pc[e] \in ProducerPc) /\ pc[Ctl] \in ControllerPc /\ pc[Sup] \in {"run", "stopped"}
      BY <1>2 DEF ProducerPc, ControllerPc
    <3>4. ack \in {"none", "waiting", "ok", "err", "gone"} /\ timed_out \in BOOLEAN
      BY <1>1
    <3> QED
      BY <1>2, <3>1, <3>2, <3>3, <3>4 DEF PlaceTypes
  <2> QED
    BY <2>1, <2>2, <2>3 DEF Typed
<1>5. Producers
  <2> SUFFICES ASSUME NEW e \in Events
               PROVE  tries[e] <= 1 /\ Unsent(e) /\ pending[e] = Absent /\ Ready(e)
    BY DEF Producers
  <2>1. Unsent(e)
    BY <1>3 DEF Unsent
  <2> QED
    BY <1>3, <2>1, Names DEF Ready
<1>6. Worker
  BY <1>1, <1>3, Names DEF Worker, InChan, IdleWorker
<1>7. Locks /\ Stages /\ Tallies
  BY <1>1, <1>2, <1>3, Names DEF Locks, Stages, Over, Tallies
<1>8. Trackers
  BY <1>3, BlankFields DEF Trackers, Sound
<1>9. LossesCounted
  <2>1. Gone = {} /\ Cardinality({}) = 0
    BY <1>2, FS_EmptySet DEF Gone, Unnoted
  <2> QED
    BY <1>1, <2>1, PoolFinite DEF LossesCounted, Pool
<1> QED
  BY <1>4, <1>5, <1>6, <1>7, <1>8, <1>9 DEF PipelineInv

\* What PipelineInv says of a state in which the shutdown has ended.
LEMMA PipelineEnd ==
    ASSUME PipelineInv PROVE TypeOK /\ NoSilentLoss /\ CleanStop
<1>1. TypeOK
  <2>1. \A i \in 1..Len(chan) : chan[i] \in Events \cup Commands
    BY DEF PipelineInv, Typed, SlotTypes
  <2>2. \A e \in Events : pc[e] \in ProducerPc /\ tries[e] \in 0..2
    BY DEF PipelineInv, Typed, PlaceTypes
  <2>3. \A a \in Actors : rc[a].step \in {"none", "swap", "drop", "mark"}
    BY DEF PipelineInv, Typed, PlaceTypes, Reconciling
  <2> QED
    BY <2>1, <2>2, <2>3 DEF PipelineInv, Typed, DataTypes, SlotTypes, PlaceTypes, TypeOK
<1>2. CleanStop
  BY DEF PipelineInv, Typed, SlotTypes, Stages, Over, CleanStop, AllDone
<1>3. NoSilentLoss
  <2> SUFFICES ASSUME AllDone PROVE Cardinality(Lost) <= dropped + rejected + unknown
    BY DEF NoSilentLoss
  <2>1. \A e \in Events : ~pending[e].present
    BY BlankFields DEF AllDone, PipelineInv, Stages, NoRecords
  <2>2. Lost \subseteq Gone /\ Gone \in SUBSET Events
    BY <2>1 DEF Lost, Gone, Reached, Untraced, Unnoted
  <2>3. \A a \in Actors : rc[a].step = "none"
    BY DEF AllDone, PipelineInv, Stages, Ready, Actors
  <2>4. \A a \in Actors : rc[a].lost = 0
    BY <2>3 DEF AllDone, PipelineInv, Tallies
  <2>5. Pool = {}
    BY <2>4 DEF Pool, PoolOf
  <2>6. Cardinality(Pool) = 0
    BY <2>5, FS_EmptySet
  <2>7. IsFiniteSet(Gone) /\ Cardinality(Gone) \in Nat /\ Cardinality(Lost) \in Nat
    BY <2>2, EventSets, PipelineAssumption, FS_CardinalityType
  <2>8. Cardinality(Lost) <= Cardinality(Gone)
    BY <2>2, <2>7, FS_Subset
  <2> QED
    BY <2>6, <2>7, <2>8 DEF PipelineInv, LossesCounted, Typed, DataTypes
<1> QED
  BY <1>1, <1>2, <1>3

\* The invariant of the pipeline, whatever the interleaving of the tasks that
\* record, the worker, its panics, the supervisor and execute_shutdown, provided
\* that no task is inside record when the shutdown starts.
THEOREM PipelineInvariant == ~LateRecords /\ Spec => []PipelineInv
<1> SUFFICES ASSUME ~LateRecords PROVE Spec => []PipelineInv
  OBVIOUS
<1>1. Init => PipelineInv
  BY PipelineStart
<1>2. PipelineInv /\ [Next]_vars => PipelineInv'
  BY PipelineStep
<1> QED
  BY <1>1, <1>2, PTL DEF Spec

\* When execute_shutdown has ended, export_dropped, export_rejected and
\* export_unknown together count at least the recorded events that never
\* arrived, for every number of events, queue capacity and number of panics:
\* the depth counter, the trackers and the channel, each updated on its own,
\* lose no event between them.
THEOREM NoLossIsSilent == ~LateRecords /\ Spec => []NoSilentLoss
<1>1. PipelineInv => NoSilentLoss
  BY PipelineEnd
<1> QED
  BY <1>1, PipelineInvariant, PTL

\* execute_shutdown leaves no worker, no command or record in the channel and
\* no tracker or buffered event behind, and the queue, the counters and the
\* health registry keep to their bounds on the way, whatever the tasks report.
THEOREM ShutdownLeavesNothing == ~LateRecords /\ Spec /\ HealthSpec => []StopsClean
<1>1. PipelineInv /\ ReportInv => StopsClean
  BY PipelineEnd DEF ReportInv, StopsClean
<1> QED
  BY <1>1, PipelineInvariant, ReportsInvariant, PTL
=============================================================================
