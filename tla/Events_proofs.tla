--------------------------- MODULE Events_proofs ----------------------------
(***************************************************************************)
(* Proofs about Events for every host, any number of lines, any sizes of   *)
(* rings, batches and arrays, and any number of edges: both ways of an     *)
(* edge are intact, the hosts deal with each edge once and in order, the   *)
(* level is never behind the events, a hold time is never an ended         *)
(* press's, and a button's notes do not refuse each other.                 *)
(***************************************************************************)
EXTENDS Events, SequenceTheorems, FiniteSetTheorems,
        WellFoundedInduction, TLAPS

AnyEdge == [line : Nat, num : Nat]
-----------------------------------------------------------------------------
(* The invariant *)

Note    == [line : Nat, off : Nat]
Message == [line : Nat, num : Nat, ok : BOOLEAN, press : Nat]

PathType ==
  /\ setup \in Setups /\ now \in Nat
  /\ edges \in [Lines -> Seq(Nat)] /\ kq \in [Lines -> Seq(AnyEdge)]
  /\ spc \in {"poll", "level", "levelLast", "since", "ev", "tev"} /\ batch \in Seq(AnyEdge)
  /\ level \in [Lines -> Nat] /\ btnSince \in [Buttons -> Nat]
  /\ ev \in Seq(AnyEdge) /\ tev \in Seq(AnyEdge)
  /\ evLost \in [Lines -> Nat] /\ tevLost \in [Lines -> Nat]

AudioType ==
  /\ held \in Seq(AnyEdge) /\ polled \in Seq(AnyEdge)
  /\ block \in Nat /\ again \in {FALSE, TRUE} /\ applied \in [Jacks -> Nat]

HostType ==
  /\ hpc \in {"idle", "drain", "events", "level", "levelLast", "since", "answer"}
  /\ got \in Seq(AnyEdge) /\ seen \in Nat /\ since \in Nat /\ asked \in Nat /\ asof \in Nat
  /\ cycle \in Nat /\ midi \in Seq(Note) /\ handled \in Seq(Message)

TypeOK == PathType /\ AudioType /\ HostType

\* The edges of line l that gpio_poll has taken from the kernel.
Fetched(l) == Len(edges[l]) - Len(kq[l])

\* Each line's edges come one after another, and the kernel has the latest of them.
Kernel ==
  \A l \in Lines :
    /\ \A n \in DOMAIN edges[l] : edges[l][n] <= now
    /\ \A m, n \in DOMAIN edges[l] : m <= n => edges[l][m] <= edges[l][n]
    /\ Len(kq[l]) <= Len(edges[l])
    /\ \A i \in DOMAIN kq[l] : kq[l][i] = Edge(l, Fetched(l) + i)

\* Queues hold edges that were taken; a host's are published too.
Real(q) == \A i \in DOMAIN q : q[i].line \in Lines /\ q[i].num \in 1 .. Fetched(q[i].line)
Published(q) ==
  \A i \in DOMAIN q : q[i].line \in Lines /\ q[i].num \in 1 .. level[q[i].line]

Queues ==
  /\ Real(batch) /\ Real(tev) /\ Real(held)
  /\ Published(ev) /\ Published(polled) /\ Published(got) /\ Published(Dealt)
  /\ \A l \in Lines : level[l] <= Fetched(l)

\* The edges of the batch that are still to be stored.
Stored == spc \in {"since", "ev", "tev"}
ToStore == {i \in DOMAIN batch : i > 1 \/ ~ Stored}

\* The batch goes on where each line's level is, edge by edge, and ends with the last
\* edge taken of each line.
Batch ==
  /\ spc = "poll" <=> batch = <<>>
  /\ Stored => level[Head(batch).line] = Head(batch).num
  /\ spc \in {"levelLast", "since"} => Head(batch).line \in Buttons
  /\ spc = "tev" => Head(batch).line \in Jacks
  /\ \A l \in Lines : InOrder(l, batch)
  /\ \A i \in ToStore : LET e == batch[i] IN
       /\ level[e.line] < e.num
       /\ e.num = level[e.line] + 1 \/ \E j \in 1 .. i - 1 : batch[j] = Edge(e.line, e.num - 1)
  /\ \A l \in Lines : level[l] = Fetched(l)
                      \/ \E i \in DOMAIN batch : batch[i] = Edge(l, Fetched(l))

\* The time of press that goes with the n-th edge.
PressTime(b, n) == IF Active(n) THEN edges[b][n] ELSE 0

\* The edge that btnSince is of: the last one published, but for the one in hand.
SinceNum(b) == IF spc = "levelLast" /\ Head(batch).line = b THEN level[b] + 1
               ELSE WhollyPublished(b)

Times == \A b \in Buttons : btnSince[b] = PressTime(b, SinceNum(b))

\* The two ways of an edge.
Drained == polled \o (Dealt \o got)
EvWay   == Drained \o (ev \o Left)
TevWay  == held \o (tev \o batch)

\* Hosts that make messages pass over the jacks' edges.
EvIntact ==
  \A l \in Lines :
    /\ InOrder(l, EvWay)
    /\ l \in Buttons \/ setup.host \notin {"pd", "jack"}
         => Count(l, EvWay) + evLost[l] = Fetched(l)

TevIntact ==
  \A l \in Jacks :
    /\ InOrder(l, TevWay)
    /\ applied[l] + Count(l, TevWay) + tevLost[l] = Fetched(l)
    /\ tevLost[l] = 0 => \A i \in DOMAIN TevWay : TevWay[i].line = l => applied[l] < TevWay[i].num

\* Each host has variables of its own.
Hosts ==
  /\ setup.host # "render" => polled = <<>>
  /\ setup.host \notin {"pd", "jack"} => handled = <<>> /\ got = <<>>
  /\ setup.host # "jack" => midi = <<>>
  /\ hpc \in {"drain", "events"} => setup.host \in {"pd", "jack"}
  /\ hpc \in {"level", "levelLast", "since", "answer"} => setup.host \in {"pd", "reader"}
  /\ hpc = "idle" => got = <<>>
  /\ hpc = "drain" => midi = <<>>

\* What tt_button_held_ms has loaded, and whom for.
Asking ==
  /\ hpc \in {"level", "levelLast", "since", "answer"} =>
       /\ asked \in Buttons /\ asof <= WhollyPublished(asked)
       /\ setup.host = "pd" => got # <<>> /\ Head(got).line = asked
  /\ hpc \in {"levelLast", "answer"} /\ since > 0 =>
       \E p \in DOMAIN edges[asked] : p >= asof /\ Active(p) /\ edges[asked][p] = since

\* No note of this cycle is after the frame of a later edge of its button.
Notes ==
  \A i \in DOMAIN midi, j \in DOMAIN got :
    midi[i].line = got[j].line => midi[i].off <= Offset(got[j])

IInv ==
  /\ TypeOK /\ Kernel /\ Queues /\ Batch /\ Times /\ EvIntact /\ TevIntact
  /\ Hosts /\ Asking /\ Notes
-----------------------------------------------------------------------------
(* Sequences of edges: how many there are of a line, and in which order *)

\* The places of line l in q.
Places(l, q) == {i \in 1 .. Len(q) : q[i].line = l}

\* The count of a line is that of its places, which are finitely many.
LEMMA CountIs ==
  ASSUME NEW q \in Seq(AnyEdge), NEW l
  PROVE  /\ Count(l, q) = Cardinality(Places(l, q))
         /\ IsFiniteSet(Places(l, q))
         /\ Count(l, q) \in Nat
<1>1. DOMAIN q = 1 .. Len(q) /\ Len(q) \in Nat
  OBVIOUS
<1>2. Count(l, q) = Cardinality(Places(l, q))
  BY <1>1, Zenon DEF Count, Places
<1>3. IsFiniteSet(1 .. Len(q)) /\ Places(l, q) \in SUBSET (1 .. Len(q))
  BY <1>1, FS_Interval DEF Places
<1>4. IsFiniteSet(Places(l, q))
  BY <1>3, FS_Subset, Zenon
<1> QED
  BY <1>2, <1>4, FS_CardinalityType, Zenon

\* There is no edge in an empty queue.
LEMMA CountEmpty == \A l : Count(l, <<>>) = 0
<1>1. \A l : {i \in DOMAIN <<>> : <<>>[i].line = l} = {}
  OBVIOUS
<1> QED
  BY <1>1, FS_EmptySet, Zenon DEF Count

\* A queue of one edge.
LEMMA CountOne ==
  ASSUME NEW e \in AnyEdge, NEW l
  PROVE  Count(l, <<e>>) = IF e.line = l THEN 1 ELSE 0
<1>1. {i \in DOMAIN <<e>> : <<e>>[i].line = l} = IF e.line = l THEN {1} ELSE {}
  OBVIOUS
<1> QED
  BY <1>1, FS_EmptySet, FS_Singleton, Zenon DEF Count

\* The counts of two queues add up.
LEMMA CountConcat ==
  ASSUME NEW s \in Seq(AnyEdge), NEW t \in Seq(AnyEdge), NEW l
  PROVE  Count(l, s \o t) = Count(l, s) + Count(l, t)
<1> DEFINE m == Len(s)
           A == Places(l, s)
           B == Places(l, t)
           C == {i \in m + 1 .. m + Len(t) : t[i - m].line = l}
           f == [i \in B |-> i + m]
<1>1. m \in Nat /\ Len(t) \in Nat /\ s \o t \in Seq(AnyEdge) /\ Len(s \o t) = m + Len(t)
  OBVIOUS
<1>2. Places(l, s \o t) = A \cup C
  <2>1. \A i \in 1 .. m + Len(t) : (s \o t)[i] = IF i <= m THEN s[i] ELSE t[i - m]
    BY ConcatProperties
  <2> QED
    BY <1>1, <2>1 DEF Places
<1>3. A \cap C = {}
  BY <1>1 DEF Places
<1>4. f \in Bijection(B, C)
  <2>1. f \in [B -> C]
    BY <1>1 DEF Places
  <2>2. \A i, j \in B : f[i] = f[j] => i = j
    BY <1>1 DEF Places
  <2>3. \A c \in C : \E i \in B : f[i] = c
    <3> SUFFICES ASSUME NEW c \in C PROVE \E i \in B : f[i] = c
      OBVIOUS
    <3>1. c - m \in B /\ (c - m) + m = c
      BY <1>1 DEF Places
    <3> QED
      BY <3>1
  <2> HIDE DEF f, B, C
  <2> QED
    BY <2>1, <2>2, <2>3, Zenon DEF Bijection, Injection, Surjection, IsInjective
<1>5. IsFiniteSet(A) /\ Count(l, s) = Cardinality(A) /\ Count(l, s) \in Nat
      /\ IsFiniteSet(B) /\ Count(l, t) = Cardinality(B) /\ Count(l, t) \in Nat
      /\ Count(l, s \o t) = Cardinality(Places(l, s \o t))
  BY <1>1, CountIs
<1> HIDE DEF A, B, C, f
<1>6. ExistsBijection(B, C)
  BY <1>4, Zenon DEF ExistsBijection
<1>7. IsFiniteSet(C) /\ Cardinality(C) = Cardinality(B)
  BY <1>5, <1>6, FS_Bijection, Zenon
<1>8. Cardinality(A \cup C) = Cardinality(A) + Cardinality(C) - Cardinality(A \cap C)
  BY <1>5, <1>7, FS_Union, Zenon
<1>9. Cardinality(A \cap C) = 0
  BY <1>3, FS_EmptySet, Zenon
<1> QED
  BY <1>2, <1>5, <1>7, <1>8, <1>9

\* The order of a concatenation.
LEMMA OrderConcat ==
  ASSUME NEW s \in Seq(AnyEdge), NEW t \in Seq(AnyEdge), NEW l
  PROVE  InOrder(l, s \o t) <=>
           /\ InOrder(l, s) /\ InOrder(l, t)
           /\ \A i \in 1 .. Len(s), j \in 1 .. Len(t) :
                s[i].line = l /\ t[j].line = l => s[i].num < t[j].num
<1> DEFINE m == Len(s)
           k == Len(t)
           w == s \o t
<1>1. m \in Nat /\ k \in Nat /\ DOMAIN s = 1 .. m /\ DOMAIN t = 1 .. k
      /\ DOMAIN w = 1 .. m + k
  OBVIOUS
<1>2. \A i \in 1 .. m + k : w[i] = IF i <= m THEN s[i] ELSE t[i - m]
  BY ConcatProperties
<1>3. /\ \A i \in 1 .. m : i \in 1 .. m + k /\ w[i] = s[i]
      /\ \A j \in 1 .. k : j + m \in 1 .. m + k /\ w[j + m] = t[j]
  BY <1>1, <1>2
<1> HIDE DEF w, m, k
<1>4. ASSUME InOrder(l, w)
      PROVE  /\ InOrder(l, s) /\ InOrder(l, t)
             /\ \A i \in 1 .. m, j \in 1 .. k :
                  s[i].line = l /\ t[j].line = l => s[i].num < t[j].num
  <2>1. \A i, j \in 1 .. m + k : i < j /\ w[i].line = l /\ w[j].line = l => w[i].num < w[j].num
    BY <1>1, <1>4, Zenon DEF InOrder
  <2>2. InOrder(l, s)
    BY <1>1, <1>3, <2>1, Zenon DEF InOrder
  <2>3. InOrder(l, t)
    <3> SUFFICES ASSUME NEW i \in 1 .. k, NEW j \in 1 .. k, i < j, t[i].line = l, t[j].line = l
                 PROVE  t[i].num < t[j].num
      BY <1>1, Zenon DEF InOrder
    <3>1. i + m < j + m
      BY <1>1
    <3> QED
      BY <1>3, <2>1, <3>1, Zenon
  <2>4. ASSUME NEW i \in 1 .. m, NEW j \in 1 .. k, s[i].line = l, t[j].line = l
        PROVE  s[i].num < t[j].num
    <3>1. i < j + m
      BY <1>1
    <3> QED
      BY <1>3, <2>1, <2>4, <3>1, Zenon
  <2> QED
    BY <2>2, <2>3, <2>4
<1>5. ASSUME InOrder(l, s), InOrder(l, t),
             \A i \in 1 .. m, j \in 1 .. k :
               s[i].line = l /\ t[j].line = l => s[i].num < t[j].num
      PROVE  InOrder(l, w)
  <2> SUFFICES ASSUME NEW i \in 1 .. m + k, NEW j \in 1 .. m + k, i < j,
                      w[i].line = l, w[j].line = l
               PROVE  w[i].num < w[j].num
    BY <1>1, Zenon DEF InOrder
  <2>1. CASE j <= m
    <3>1. i \in 1 .. m /\ j \in 1 .. m /\ w[i] = s[i] /\ w[j] = s[j]
      BY <1>1, <1>2, <2>1
    <3> QED
      BY <1>1, <1>5, <3>1, Zenon DEF InOrder
  <2>2. CASE i <= m /\ m < j
    <3>1. i \in 1 .. m /\ j - m \in 1 .. k /\ w[i] = s[i] /\ w[j] = t[j - m]
      BY <1>1, <1>2, <2>2
    <3> QED
      BY <1>5, <3>1, Zenon
  <2>3. CASE m < i
    <3>1. i - m \in 1 .. k /\ j - m \in 1 .. k /\ i - m < j - m
          /\ w[i] = t[i - m] /\ w[j] = t[j - m]
      BY <1>1, <1>2, <2>3
    <3> QED
      BY <1>1, <1>5, <3>1, Zenon DEF InOrder
  <2> QED
    BY <1>1, <2>1, <2>2, <2>3
<1> QED
  BY <1>4, <1>5 DEF w, m, k

\* The first of t moves to the end of s, and the way they make together is the same.
LEMMA Move ==
  ASSUME NEW s \in Seq(AnyEdge), NEW t \in Seq(AnyEdge), t # <<>>
  PROVE  /\ Head(t) \in AnyEdge /\ Tail(t) \in Seq(AnyEdge) /\ Head(t) = t[1]
         /\ t = <<Head(t)>> \o Tail(t)
         /\ Append(s, Head(t)) \in Seq(AnyEdge)
         /\ Append(s, Head(t)) \o Tail(t) = s \o t
<1>1. Head(t) \in AnyEdge /\ Tail(t) \in Seq(AnyEdge) /\ Head(t) = t[1]
  OBVIOUS
<1>2. t = <<Head(t)>> \o Tail(t)
  <2>1. Len(t) >= 1 /\ Len(<<Head(t)>> \o Tail(t)) = Len(t)
    BY <1>1
  <2>2. \A i \in 1 .. Len(t) : t[i] = (<<Head(t)>> \o Tail(t))[i]
    BY <1>1, <2>1
  <2> QED
    BY <1>1, <2>1, <2>2, SeqEqual
<1>3. Append(s, Head(t)) = s \o <<Head(t)>> /\ Append(s, Head(t)) \in Seq(AnyEdge)
  BY <1>1, AppendIsConcat, AppendProperties
<1>4. <<Head(t)>> \in Seq(AnyEdge)
  BY <1>1
<1>5. (s \o <<Head(t)>>) \o Tail(t) = s \o (<<Head(t)>> \o Tail(t))
  BY <1>1, <1>4, ConcatAssociative
<1> QED
  BY <1>1, <1>2, <1>3, <1>5, Zenon

\* What is in v is in w too.
Within(v, w) == \A i \in 1 .. Len(v) : \E j \in 1 .. Len(w) : v[i] = w[j]

\* An edge is dropped between s and t.
LEMMA Drop ==
  ASSUME NEW s \in Seq(AnyEdge), NEW t \in Seq(AnyEdge), NEW e \in AnyEdge, NEW l
  PROVE  /\ Count(l, s \o (<<e>> \o t)) =
              Count(l, s \o t) + (IF e.line = l THEN 1 ELSE 0)
         /\ InOrder(l, s \o (<<e>> \o t)) => InOrder(l, s \o t)
         /\ Within(s \o t, s \o (<<e>> \o t))
<1>1. <<e>> \in Seq(AnyEdge) /\ <<e>> \o t \in Seq(AnyEdge) /\ s \o t \in Seq(AnyEdge)
      /\ Len(<<e>>) = 1 /\ Len(s) \in Nat /\ Len(t) \in Nat /\ Len(<<e>> \o t) = 1 + Len(t)
      /\ Len(s \o t) = Len(s) + Len(t) /\ Len(s \o (<<e>> \o t)) = Len(s) + 1 + Len(t)
  OBVIOUS
<1>2. Count(l, s) \in Nat /\ Count(l, t) \in Nat
      /\ Count(l, <<e>>) = IF e.line = l THEN 1 ELSE 0
  BY CountIs, CountOne
<1>3. /\ Count(l, s \o (<<e>> \o t)) = Count(l, s) + Count(l, <<e>> \o t)
      /\ Count(l, <<e>> \o t) = Count(l, <<e>>) + Count(l, t)
      /\ Count(l, s \o t) = Count(l, s) + Count(l, t)
  BY <1>1, CountConcat, ZenonT(40)
<1>4. \A i \in 1 .. Len(t) : t[i] = (<<e>> \o t)[1 + i] /\ 1 + i \in 1 .. Len(<<e>> \o t)
  BY <1>1, ConcatProperties
<1>5. ASSUME InOrder(l, s \o (<<e>> \o t)) PROVE InOrder(l, s \o t)
  <2>1. /\ InOrder(l, s) /\ InOrder(l, <<e>> \o t)
        /\ \A i \in 1 .. Len(s), j \in 1 .. Len(<<e>> \o t) :
             s[i].line = l /\ (<<e>> \o t)[j].line = l => s[i].num < (<<e>> \o t)[j].num
    BY <1>1, <1>5, OrderConcat, Zenon
  <2>2. InOrder(l, t)
    BY <1>1, <2>1, OrderConcat, Zenon
  <2>3. \A i \in 1 .. Len(s), j \in 1 .. Len(t) :
          s[i].line = l /\ t[j].line = l => s[i].num < t[j].num
    BY <1>4, <2>1, Zenon
  <2> QED
    BY <2>1, <2>2, <2>3, OrderConcat, Zenon
<1>6. Within(s \o t, s \o (<<e>> \o t))
  <2> SUFFICES ASSUME NEW i \in 1 .. Len(s) + Len(t)
               PROVE  \E j \in 1 .. Len(s) + 1 + Len(t) : (s \o t)[i] = (s \o (<<e>> \o t))[j]
    BY <1>1 DEF Within
  <2>1. CASE i <= Len(s)
    <3>1. i \in 1 .. Len(s) + 1 + Len(t)
      BY <1>1
    <3>2. (s \o t)[i] = s[i] /\ (s \o (<<e>> \o t))[i] = s[i]
      BY <1>1, <2>1, <3>1, ConcatProperties
    <3> QED
      BY <3>1, <3>2
  <2>2. CASE i > Len(s)
    <3>1. i - Len(s) \in 1 .. Len(t) /\ i + 1 \in 1 .. Len(s) + 1 + Len(t)
      BY <1>1, <2>2
    <3>2. (s \o t)[i] = t[i - Len(s)]
      BY <1>1, <2>2, ConcatProperties
    <3>3. (s \o (<<e>> \o t))[i + 1] = (<<e>> \o t)[i + 1 - Len(s)]
      BY <1>1, <2>2, <3>1, ConcatProperties
    <3>4. i + 1 - Len(s) = 1 + (i - Len(s))
      BY <1>1
    <3> QED
      BY <1>4, <3>1, <3>2, <3>3, <3>4
  <2> QED
    BY <1>1, <2>1, <2>2
<1> QED
  BY <1>2, <1>3, <1>5, <1>6

\* A sequence around one of its places.
LEMMA Around ==
  ASSUME NEW q \in Seq(AnyEdge), NEW i \in 1 .. Len(q)
  PROVE  /\ SubSeq(q, 1, i - 1) \in Seq(AnyEdge) /\ SubSeq(q, i + 1, Len(q)) \in Seq(AnyEdge)
         /\ q[i] \in AnyEdge
         /\ Len(SubSeq(q, 1, i - 1)) = i - 1
         /\ \A j \in 1 .. i - 1 : SubSeq(q, 1, i - 1)[j] = q[j]
         /\ q = SubSeq(q, 1, i - 1) \o (<<q[i]>> \o SubSeq(q, i + 1, Len(q)))
         /\ RemoveAt(q, i) = SubSeq(q, 1, i - 1) \o SubSeq(q, i + 1, Len(q))
<1> DEFINE a == SubSeq(q, 1, i - 1)
           b == SubSeq(q, i + 1, Len(q))
<1>1. Len(q) \in Nat /\ i - 1 \in Nat /\ i + 1 \in Nat /\ q[i] \in AnyEdge
  OBVIOUS
<1>2. a \in Seq(AnyEdge) /\ Len(a) = i - 1 /\ \A j \in 1 .. i - 1 : a[j] = q[j]
  BY <1>1, SubSeqProperties
<1>3. b \in Seq(AnyEdge) /\ Len(b) = Len(q) - i /\ \A j \in 1 .. Len(q) - i : b[j] = q[i + j]
  BY <1>1, SubSeqProperties
<1> HIDE DEF a, b
<1> DEFINE r == <<q[i]>> \o b
<1>4. r \in Seq(AnyEdge) /\ Len(r) = 1 + (Len(q) - i) /\ r[1] = q[i]
      /\ \A j \in 2 .. 1 + (Len(q) - i) : r[j] = b[j - 1]
  <2>1. <<q[i]>> \in Seq(AnyEdge) /\ Len(<<q[i]>>) = 1 /\ <<q[i]>>[1] = q[i]
    BY <1>1
  <2>2. r \in Seq(AnyEdge) /\ Len(r) = 1 + Len(b)
        /\ \A j \in 1 .. 1 + Len(b) : r[j] = IF j <= 1 THEN <<q[i]>>[j] ELSE b[j - 1]
    BY <1>3, <2>1, ConcatProperties
  <2> HIDE DEF r
  <2> QED
    BY <1>1, <1>3, <2>1, <2>2
<1> HIDE DEF r
<1>5. q = a \o r
  <2>1. a \o r \in Seq(AnyEdge) /\ Len(a \o r) = Len(q)
        /\ \A j \in 1 .. Len(q) : (a \o r)[j] = IF j <= i - 1 THEN a[j] ELSE r[j - (i - 1)]
    BY <1>1, <1>2, <1>4, ConcatProperties
  <2>2. ASSUME NEW j \in 1 .. Len(q) PROVE q[j] = (a \o r)[j]
    <3>1. CASE j <= i - 1
      BY <1>1, <1>2, <2>1, <3>1
    <3>2. CASE j = i
      BY <1>1, <1>4, <2>1, <3>2
    <3>3. CASE j > i
      <4>1. j - (i - 1) \in 2 .. 1 + (Len(q) - i) /\ j - (i - 1) - 1 = j - i
            /\ j - i \in 1 .. Len(q) - i /\ i + (j - i) = j /\ ~ (j <= i - 1)
        BY <1>1, <3>3
      <4> QED
        BY <1>3, <1>4, <2>1, <4>1
    <3>4. j <= i - 1 \/ j = i \/ j > i
      BY <1>1
    <3> QED
      BY <3>1, <3>2, <3>3, <3>4, Zenon
  <2> QED
    BY <2>1, <2>2, SeqEqual
<1> QED
  BY <1>1, <1>2, <1>3, <1>5, Zenon DEF a, b, r, RemoveAt

-----------------------------------------------------------------------------
(* Induction: a set that has 0, and with a number its successor, has all. *)

\* Counting up to N, by the least number left out.
LEMMA Upto ==
  ASSUME NEW N \in Nat, NEW S, 0 \in S, \A n \in 0 .. N - 1 : n \in S => n + 1 \in S
  PROVE  \A n \in 0 .. N : n \in S
<1> DEFINE Rest == {n \in 0 .. N : n \notin S}
<1> SUFFICES ASSUME Rest # {} PROVE FALSE
  OBVIOUS
<1>1. Rest \subseteq Nat
  OBVIOUS
<1>2. PICK d \in Rest : \A e \in Rest : ~ (<<e, d>> \in OpToRel(<, Nat))
  <2> HIDE DEF Rest
  <2> QED
    BY <1>1, NatLessThanWellFounded, WFMin, Zenon
<1>3. d \in 1 .. N /\ d - 1 \in 0 .. N - 1 /\ (d - 1) + 1 = d /\ d \notin S
  <2>1. d \in 0 .. N /\ d \notin S
    OBVIOUS
  <2>2. d # 0
    BY <2>1, Zenon
  <2> QED
    BY <2>1, <2>2
<1>4. d - 1 \notin S
  BY <1>3, Zenon
<1>5. d - 1 \in Rest /\ d - 1 < d /\ d - 1 \in Nat /\ d \in Nat
  BY <1>3, <1>4
<1>6. <<d - 1, d>> \in OpToRel(<, Nat)
  <2> HIDE DEF Rest
  <2> QED
    BY <1>5 DEF OpToRel
<1> QED
  BY <1>2, <1>5, <1>6, Zenon

\* What TLC computes of a recursive definition: each value from the one before.
LEMMA TakenStep ==
  ASSUME setup.jacks + setup.buttons \in Nat
  PROVE  \A l \in 0 .. setup.jacks + setup.buttons :
           Taken[l] = IF l = 0 THEN <<>>
                      ELSE Taken[l - 1] \o SubSeq(kq[l], 1, Share(l, Len(Taken[l - 1])))
<1> DEFINE N == setup.jacks + setup.buttons
           Value(g, l) == IF l = 0 THEN <<>>
                          ELSE g[l - 1] \o SubSeq(kq[l], 1, Share(l, Len(g[l - 1])))
           S == {n \in Nat : \E g : g = [l \in 0 .. n |-> Value(g, l)]}
<1>1. 0 \in S
  <2> DEFINE g == [l \in 0 .. 0 |-> <<>>]
  <2>1. g = [l \in 0 .. 0 |-> Value(g, l)]
    OBVIOUS
  <2> HIDE DEF g, Value
  <2> QED
    BY <2>1
<1>2. ASSUME NEW n \in 0 .. N - 1, n \in S PROVE n + 1 \in S
  <2>1. PICK g : g = [l \in 0 .. n |-> Value(g, l)]
    BY <1>2
  <2> DEFINE h == [l \in 0 .. n + 1 |-> IF l = n + 1 THEN Value(g, l) ELSE g[l]]
  <2>2. ASSUME NEW l \in 0 .. n + 1 PROVE h[l] = Value(h, l)
    <3>1. l # 0 => h[l - 1] = g[l - 1]
      OBVIOUS
    <3>2. Value(h, l) = Value(g, l)
      <4> HIDE DEF h
      <4> QED
        BY <3>1, Zenon
    <3>3. CASE l = n + 1
      BY <3>2, <3>3
    <3>4. CASE l \in 0 .. n
      <4>1. g[l] = Value(g, l)
        <5> HIDE DEF Value
        <5> QED
          BY <2>1, <3>4
      <4>2. h[l] = g[l]
        BY <3>4
      <4> QED
        BY <3>2, <4>1, <4>2, Zenon
    <3> QED
      BY <3>3, <3>4
  <2>3. h = [l \in 0 .. n + 1 |-> Value(h, l)]
    <3>1. h = [l \in 0 .. n + 1 |-> h[l]]
      OBVIOUS
    <3> HIDE DEF h, Value
    <3> QED
      BY <2>2, <3>1
  <2> HIDE DEF h, Value
  <2> QED
    BY <2>3
<1>3. N \in S
  <2> HIDE DEF S
  <2>1. \A n \in 0 .. N : n \in S
    BY <1>1, <1>2, Upto
  <2> QED
    BY <2>1
<1>4. Taken = CHOOSE g : g = [l \in 0 .. N |-> Value(g, l)]
  BY DEF Taken
<1>5. Taken = [l \in 0 .. N |-> Value(Taken, l)]
  <2>1. \E g : g = [l \in 0 .. N |-> Value(g, l)]
    <3> HIDE DEF Value, N
    <3> QED
      BY <1>3
  <2> HIDE DEF Value, N
  <2> QED
    BY <1>4, <2>1
<1>6. \A l \in 0 .. N : Taken[l] = Value(Taken, l)
  <2> HIDE DEF Value, N
  <2> QED
    BY <1>5
<1> QED
  BY <1>6

-----------------------------------------------------------------------------
(* What gpio_poll takes *)

\* What it takes of line l.
Portion(l) == Share(l, Len(Taken[l - 1]))

\* After line m it has the next edges of each line up to that.
TakenUpTo(m) ==
  LET q == Taken[m] IN
  /\ q \in Seq(AnyEdge) /\ Len(q) <= BatchMax
  /\ \A i \in 1 .. Len(q) :
       /\ q[i].line \in 1 .. m
       /\ q[i].num \in Fetched(q[i].line) + 1 .. Fetched(q[i].line) + Portion(q[i].line)
  /\ \A l \in 1 .. m : \A n \in Fetched(l) + 1 .. Fetched(l) + Portion(l) :
       \E i \in 1 .. Len(q) : q[i] = Edge(l, n)
  /\ \A l \in 1 .. m : Portion(l) \in 0 .. Len(kq[l])
  /\ \A l \in Lines : InOrder(l, q) /\ Count(l, q) = IF l <= m THEN Portion(l) ELSE 0

\* The lines, and what the assumption on the setups says of them.
LEMMA NumLines ==
  ASSUME setup \in Setups
  PROVE  /\ setup.jacks \in Nat /\ setup.buttons \in Nat
         /\ setup.jacks + setup.buttons \in Nat /\ setup.jacks + setup.buttons >= 1
         /\ Lines = 1 .. setup.jacks + setup.buttons /\ Lines \subseteq Nat
         /\ Jacks \subseteq Lines /\ Buttons \subseteq Lines
         /\ \A l \in Lines : l \in Buttons <=> l \notin Jacks
         /\ setup.period \in Nat /\ setup.period >= 1
         /\ setup.host \in {"render", "pd", "jack", "reader"}
<1>1. setup.jacks \in Nat /\ setup.buttons \in Nat /\ setup.jacks + setup.buttons >= 1
      /\ setup.period \in Nat \ {0} /\ setup.host \in {"render", "pd", "jack", "reader"}
  BY SetupAssumption
<1> QED
  BY <1>1 DEF Lines, Jacks, Buttons

\* The first n of what the kernel has of line l.
LEMMA FromKernel ==
  ASSUME PathType, Kernel, NEW l \in Lines, NEW n \in 0 .. Len(kq[l])
  PROVE  LET p == SubSeq(kq[l], 1, n) IN
         /\ p \in Seq(AnyEdge) /\ Len(p) = n
         /\ \A i \in 1 .. n : p[i] = Edge(l, Fetched(l) + i)
         /\ \A k \in Lines : InOrder(k, p) /\ Count(k, p) = IF k = l THEN n ELSE 0
<1> DEFINE p == SubSeq(kq[l], 1, n)
           F == Fetched(l)
<1>1. kq[l] \in Seq(AnyEdge) /\ Len(kq[l]) \in Nat /\ n \in Nat /\ n <= Len(kq[l])
      /\ edges[l] \in Seq(Nat)
  BY DEF PathType
<1>2. F \in Nat
  <2>1. Len(kq[l]) <= Len(edges[l])
    BY Zenon DEF Kernel
  <2> QED
    BY <1>1, <2>1 DEF Fetched
<1>3. \A i \in 1 .. Len(kq[l]) : kq[l][i] = Edge(l, F + i)
  <2>1. \A i \in DOMAIN kq[l] : kq[l][i] = Edge(l, F + i)
    BY Zenon DEF Kernel
  <2>2. DOMAIN kq[l] = 1 .. Len(kq[l])
    BY <1>1
  <2> QED
    BY <2>1, <2>2, Zenon
<1>4. p \in Seq(AnyEdge) /\ Len(p) = n /\ \A i \in 1 .. n : p[i] = kq[l][i]
  BY <1>1, SubSeqProperties
<1>5. DOMAIN p = 1 .. n
  BY <1>4
<1> HIDE DEF p, F
<1>6. \A i \in 1 .. n : p[i] = Edge(l, F + i) /\ p[i].line = l /\ p[i].num = F + i
  <2> SUFFICES ASSUME NEW i \in 1 .. n
               PROVE  p[i] = Edge(l, F + i) /\ p[i].line = l /\ p[i].num = F + i
    OBVIOUS
  <2>1. i \in 1 .. Len(kq[l])
    BY <1>1
  <2>2. p[i] = Edge(l, F + i)
    BY <1>3, <1>4, <2>1
  <2> QED
    BY <2>2 DEF Edge
<1>7. ASSUME NEW k \in Lines
      PROVE  InOrder(k, p) /\ Count(k, p) = IF k = l THEN n ELSE 0
  <2>1. InOrder(k, p)
    BY <1>1, <1>2, <1>5, <1>6 DEF InOrder
  <2>2. Places(k, p) = IF k = l THEN 1 .. n ELSE {}
    BY <1>4, <1>6 DEF Places
  <2>3. Cardinality(1 .. n) = n
    BY <1>1, FS_Interval
  <2>4. Count(k, p) = Cardinality(Places(k, p))
    BY <1>4, CountIs
  <2>5. CASE k = l
    BY <2>1, <2>2, <2>3, <2>4, <2>5
  <2>6. CASE k # l
    BY <2>1, <2>2, <2>4, <2>6, FS_EmptySet
  <2> QED
    BY <2>5, <2>6
<1> QED
  BY <1>4, <1>6, <1>7 DEF p, F

\* gpio_poll takes the next edges of each line, as far as the batch goes.
LEMMA TakenIs ==
  ASSUME PathType, Kernel
  PROVE  \A m \in 0 .. setup.jacks + setup.buttons : TakenUpTo(m)
<1> DEFINE N == setup.jacks + setup.buttons
           S == {m \in Nat : TakenUpTo(m)}
<1>1. setup \in Setups /\ N \in Nat /\ Lines = 1 .. N /\ BatchMax \in Nat
      /\ \A l \in Lines : kq[l] \in Seq(AnyEdge) /\ edges[l] \in Seq(Nat)
  BY NumLines, LimitAssumption DEF PathType
<1>2. \A l \in 0 .. N : Taken[l] = IF l = 0 THEN <<>>
                                    ELSE Taken[l - 1] \o SubSeq(kq[l], 1, Portion(l))
  BY <1>1, TakenStep DEF Portion
<1>3. \A l \in Lines : Fetched(l) \in Nat /\ Len(kq[l]) \in Nat
  <2>1. \A l \in Lines : Len(kq[l]) <= Len(edges[l])
    BY Zenon DEF Kernel
  <2> QED
    BY <1>1, <2>1 DEF Fetched
<1>4. TakenUpTo(0)
  <2>1. Taken[0] = <<>>
    BY <1>1, <1>2
  <2>2. <<>> \in Seq(AnyEdge) /\ Len(<<>>) = 0
    OBVIOUS
  <2>3. \A l \in Lines : InOrder(l, <<>>) /\ Count(l, <<>>) = 0 /\ ~ (l <= 0)
    BY <1>1, CountEmpty DEF InOrder
  <2> QED
    BY <1>1, <2>1, <2>2, <2>3 DEF TakenUpTo
<1>5. ASSUME NEW m \in 0 .. N - 1, TakenUpTo(m) PROVE TakenUpTo(m + 1)
  <2> DEFINE q == Taken[m]
             k == m + 1
             n == Portion(k)
             p == SubSeq(kq[k], 1, n)
             w == q \o p
             F == Fetched(k)
  <2>1. k \in Lines /\ k \in 0 .. N /\ k # 0 /\ k - 1 = m /\ m \in Nat
    BY <1>1
  <2>2. Taken[k] = w
    BY <1>2, <2>1
  <2>3. /\ q \in Seq(AnyEdge) /\ Len(q) \in Nat /\ Len(q) <= BatchMax
        /\ \A i \in 1 .. Len(q) :
             /\ q[i].line \in 1 .. m
             /\ q[i].num \in Fetched(q[i].line) + 1 .. Fetched(q[i].line) + Portion(q[i].line)
        /\ \A l \in 1 .. m : \A j \in Fetched(l) + 1 .. Fetched(l) + Portion(l) :
             \E i \in 1 .. Len(q) : q[i] = Edge(l, j)
        /\ \A l \in 1 .. m : Portion(l) \in 0 .. Len(kq[l])
        /\ \A l \in Lines : InOrder(l, q) /\ Count(l, q) = IF l <= m THEN Portion(l) ELSE 0
    BY <1>5 DEF TakenUpTo
  <2>4. n = Least(Len(kq[k]), BatchMax - Len(q))
    BY <2>1 DEF Portion, Share
  <2>5. n \in 0 .. Len(kq[k]) /\ n <= BatchMax - Len(q) /\ n \in Nat
    BY <1>1, <1>3, <2>1, <2>3, <2>4, SMTT(30) DEF Least
  <2>6. /\ p \in Seq(AnyEdge) /\ Len(p) = n
        /\ \A i \in 1 .. n : p[i] = Edge(k, F + i)
        /\ \A l \in Lines : InOrder(l, p) /\ Count(l, p) = IF l = k THEN n ELSE 0
    BY <2>1, <2>5, FromKernel
  <2>7. F \in Nat
    BY <1>3, <2>1
  <2> HIDE DEF q, n, p, F
  <2>8. w \in Seq(AnyEdge) /\ Len(w) = Len(q) + n
        /\ \A i \in 1 .. Len(q) + n : w[i] = IF i <= Len(q) THEN q[i] ELSE p[i - Len(q)]
    BY <2>3, <2>6, ConcatProperties
  <2>9. \A i \in 1 .. n : p[i].line = k /\ p[i].num = F + i
    BY <2>6 DEF Edge
  <2>10. \A l \in Lines : InOrder(l, w) /\ Count(l, w) = IF l <= k THEN Portion(l) ELSE 0
    <3> SUFFICES ASSUME NEW l \in Lines
                 PROVE  InOrder(l, w) /\ Count(l, w) = IF l <= k THEN Portion(l) ELSE 0
      OBVIOUS
    <3>1. \A i \in 1 .. Len(q), j \in 1 .. Len(p) : ~ (q[i].line = l /\ p[j].line = l)
      BY <2>1, <2>3, <2>6, <2>9
    <3>2. InOrder(l, w)
      BY <2>3, <2>6, <3>1, OrderConcat, Zenon
    <3>3. Count(l, w) = Count(l, q) + Count(l, p)
      BY <2>3, <2>6, CountConcat
    <3>4. Count(l, q) = (IF l <= m THEN Portion(l) ELSE 0) /\ Count(l, p) = IF l = k THEN n ELSE 0
      BY <2>3, <2>6
    <3>5. CASE l <= m
      <4>1. l \in 1 .. m /\ l # k /\ l <= k
        BY <1>1, <2>1, <3>5
      <4>2. Portion(l) \in Nat
        BY <1>1, <1>3, <2>3, <4>1
      <4> QED
        BY <3>2, <3>3, <3>4, <3>5, <4>1, <4>2
    <3>6. CASE l = k
      <4>1. ~ (l <= m) /\ l <= k
        BY <2>1, <3>6
      <4> QED
        BY <2>5, <3>2, <3>3, <3>4, <3>6, <4>1 DEF n
    <3>7. CASE l > k
      <4>1. ~ (l <= m) /\ l # k /\ ~ (l <= k)
        BY <1>1, <2>1, <3>7
      <4> QED
        BY <3>2, <3>3, <3>4, <4>1
    <3> QED
      BY <1>1, <2>1, <3>5, <3>6, <3>7
  <2>11. \A i \in 1 .. Len(w) :
           /\ w[i].line \in 1 .. k
           /\ w[i].num \in Fetched(w[i].line) + 1 .. Fetched(w[i].line) + Portion(w[i].line)
    <3> SUFFICES ASSUME NEW i \in 1 .. Len(q) + n
                 PROVE  /\ w[i].line \in 1 .. k
                        /\ w[i].num \in Fetched(w[i].line) + 1
                                       .. Fetched(w[i].line) + Portion(w[i].line)
      BY <2>8
    <3>1. CASE i <= Len(q)
      <4>1. i \in 1 .. Len(q) /\ w[i] = q[i]
        BY <2>3, <2>5, <2>8, <3>1
      <4>2. q[i].line \in 1 .. k
        BY <2>1, <2>3, <4>1
      <4> QED
        BY <2>3, <4>1, <4>2, Zenon
    <3>2. CASE i > Len(q)
      <4>1. i - Len(q) \in 1 .. n /\ w[i] = p[i - Len(q)]
        BY <2>3, <2>5, <2>8, <3>2
      <4>2. w[i].line = k /\ w[i].num = F + (i - Len(q))
        BY <2>9, <4>1, Zenon
      <4>3. F + (i - Len(q)) \in F + 1 .. F + n
        BY <2>3, <2>5, <2>7, <4>1
      <4>4. k \in 1 .. k
        BY <2>1
      <4> QED
        BY <4>2, <4>3, <4>4, Zenon DEF F, n
    <3>3. i <= Len(q) \/ i > Len(q)
      BY <2>3, <2>5
    <3> QED
      BY <3>1, <3>2, <3>3, Zenon
  <2>12. \A l \in 1 .. k : \A j \in Fetched(l) + 1 .. Fetched(l) + Portion(l) :
           \E i \in 1 .. Len(w) : w[i] = Edge(l, j)
    <3> SUFFICES ASSUME NEW l \in 1 .. k, NEW j \in Fetched(l) + 1 .. Fetched(l) + Portion(l)
                 PROVE  \E i \in 1 .. Len(w) : w[i] = Edge(l, j)
      OBVIOUS
    <3>1. CASE l = k
      <4>1. j \in F + 1 .. F + n
        BY <3>1 DEF F, n
      <4>2. j - F \in 1 .. n /\ F + (j - F) = j
        BY <2>5, <2>7, <4>1
      <4>3. p[j - F] = Edge(k, j)
        BY <2>6, <4>2
      <4>4. Len(q) + (j - F) \in 1 .. Len(w) /\ w[Len(q) + (j - F)] = p[j - F]
        BY <2>3, <2>5, <2>8, <4>2
      <4> QED
        BY <3>1, <4>3, <4>4
    <3>2. CASE l # k
      <4>1. l \in 1 .. m
        BY <2>1, <3>2
      <4>2. PICK i \in 1 .. Len(q) : q[i] = Edge(l, j)
        BY <2>3, <4>1
      <4>3. i \in 1 .. Len(w) /\ w[i] = q[i]
        BY <2>3, <2>5, <2>8
      <4> QED
        BY <4>2, <4>3
    <3> QED
      BY <3>1, <3>2
  <2>13. \A l \in 1 .. k : Portion(l) \in 0 .. Len(kq[l])
    <3> SUFFICES ASSUME NEW l \in 1 .. k PROVE Portion(l) \in 0 .. Len(kq[l])
      OBVIOUS
    <3>1. CASE l = k
      BY <2>5, <3>1 DEF n
    <3>2. CASE l # k
      <4>1. l \in 1 .. m
        BY <2>1, <3>2
      <4> QED
        BY <2>3, <4>1
    <3> QED
      BY <3>1, <3>2
  <2>14. Len(w) <= BatchMax
    BY <1>1, <2>3, <2>5, <2>8
  <2> HIDE DEF w, k
  <2>15. TakenUpTo(k)
    BY <2>2, <2>8, <2>10, <2>11, <2>12, <2>13, <2>14, Zenon DEF TakenUpTo
  <2> QED
    BY <2>15 DEF k
<1>6. \A m \in 0 .. N : m \in S
  <2>1. 0 \in S
    BY <1>4
  <2>2. \A m \in 0 .. N - 1 : m \in S => m + 1 \in S
    BY <1>1, <1>5
  <2> HIDE DEF S, N
  <2> QED
    BY <1>1, <2>1, <2>2, Upto
<1> QED
  BY <1>6

-----------------------------------------------------------------------------
(* The steps *)

\* The steps of the lines and the sampling thread leave the hosts alone, and the
\* hosts' steps all else but the ring they read.
LEMMA Steps ==
  ASSUME [Next]_vars
  PROVE  \/ Tick /\ UNCHANGED <<audio, polled, poller>>
         \/ (\E l \in Lines : Happen(l)) /\ UNCHANGED <<audio, polled, poller>>
         \/ PollHal /\ UNCHANGED <<audio, polled, poller>>
         \/ StoreLevel /\ UNCHANGED <<audio, polled, poller>>
         \/ StoreSince /\ UNCHANGED <<audio, polled, poller>>
         \/ PushEv /\ UNCHANGED <<audio, polled, poller>>
         \/ PushTev /\ UNCHANGED <<audio, polled, poller>>
         \/ Audio /\ UNCHANGED <<now, kernel, sampler, poller>>
         \/ Host /\ UNCHANGED <<now, kernel, sampler, tev, audio, polled>>
         \/ UNCHANGED vars
<1>1. ASSUME Audio PROVE UNCHANGED <<now, kernel, sampler>>
  BY <1>1 DEF Audio, PollEvents, TriggerBlock, DrainHeld, StartLevels, PlaceEdge, BlockDone
<1>2. ASSUME Host PROVE UNCHANGED <<now, kernel, sampler, tev>>
  BY <1>2 DEF Host, Wake, DrainOne, DrainDone, Skip, AllDone, SendPress, AskRelease,
              SendNote, Ask, LoadLevel, LoadSince, Answer
<1>3. CASE PathNext /\ UNCHANGED <<audio, polled, poller>>
  BY <1>3 DEF PathNext, HandleEvents
<1>4. CASE Audio /\ UNCHANGED poller
  BY <1>1, <1>4
<1>5. CASE Host /\ UNCHANGED <<audio, polled>>
  BY <1>2, <1>5
<1> QED
  BY <1>3, <1>4, <1>5 DEF Next

\* The setup never changes, and the lines with it.
LEMMA SetupStays ==
  ASSUME [Next]_vars
  PROVE  /\ setup' = setup /\ Lines' = Lines /\ Jacks' = Jacks /\ Buttons' = Buttons
         /\ Window' = Window
<1>1. setup' = setup
  BY Steps DEF vars, path, kernel, Tick, Happen, PollHal, StoreLevel, StoreSince,
               PushEv, PushTev
<1> QED
  BY <1>1 DEF Lines, Jacks, Buttons, Window

\* What gpio_poll leaves in the kernel and what it returns.
LEMMA PollHalIs ==
  ASSUME PathType, Kernel, PollHal
  PROVE  /\ edges' = edges /\ level' = level /\ now' = now /\ setup' = setup
         /\ kq' \in [Lines -> Seq(AnyEdge)] /\ batch' \in Seq(AnyEdge)
         /\ \A l \in Lines :
              /\ Fetched(l) \in Nat /\ Fetched(l)' \in Nat /\ Fetched(l) <= Fetched(l)'
              /\ Len(kq'[l]) <= Len(edges[l])
              /\ \A i \in 1 .. Len(kq'[l]) : kq'[l][i] = Edge(l, Fetched(l)' + i)
              /\ InOrder(l, batch') /\ Count(l, batch') = Fetched(l)' - Fetched(l)
              /\ \A n \in Fetched(l) + 1 .. Fetched(l)' :
                   \E i \in 1 .. Len(batch') : batch'[i] = Edge(l, n)
         /\ \A i \in 1 .. Len(batch') :
              /\ batch'[i].line \in Lines
              /\ \A l \in Lines : batch'[i].line = l
                                 => batch'[i].num \in Fetched(l) + 1 .. Fetched(l)'
<1> DEFINE N == setup.jacks + setup.buttons
<1>1. setup \in Setups /\ N \in Nat /\ Lines = 1 .. N
      /\ \A l \in Lines : kq[l] \in Seq(AnyEdge) /\ edges[l] \in Seq(Nat)
  BY NumLines DEF PathType
<1>2. /\ edges' = edges /\ level' = level /\ now' = now /\ setup' = setup
      /\ batch' = Taken[N]
      /\ kq' = [l \in Lines |-> SubSeq(kq[l], Portion(l) + 1, Len(kq[l]))]
  BY DEF PollHal, Portion
<1>3. TakenUpTo(N)
  BY <1>1, TakenIs
<1>4. \A l \in Lines :
        /\ Len(kq[l]) <= Len(edges[l])
        /\ \A i \in 1 .. Len(kq[l]) : kq[l][i] = Edge(l, Fetched(l) + i)
  <2> SUFFICES ASSUME NEW l \in Lines
               PROVE  /\ Len(kq[l]) <= Len(edges[l])
                      /\ \A i \in 1 .. Len(kq[l]) : kq[l][i] = Edge(l, Fetched(l) + i)
    OBVIOUS
  <2>1. DOMAIN kq[l] = 1 .. Len(kq[l])
    BY <1>1
  <2> QED
    BY <2>1, Zenon DEF Kernel
<1>5. ASSUME NEW l \in Lines
      PROVE  /\ kq'[l] \in Seq(AnyEdge)
             /\ Fetched(l) \in Nat /\ Fetched(l)' = Fetched(l) + Portion(l)
             /\ Portion(l) \in Nat
             /\ Len(kq'[l]) <= Len(edges[l])
             /\ \A i \in 1 .. Len(kq'[l]) : kq'[l][i] = Edge(l, Fetched(l)' + i)
  <2> DEFINE n == Portion(l)
             k == kq[l]
             p == SubSeq(k, n + 1, Len(k))
             F == Fetched(l)
  <2>1. n \in 0 .. Len(k) /\ k \in Seq(AnyEdge) /\ Len(k) \in Nat
    BY <1>1, <1>3 DEF TakenUpTo
  <2>2. kq'[l] = p
    BY <1>2
  <2>3. /\ F = Len(edges[l]) - Len(k) /\ Fetched(l)' = Len(edges[l]) - Len(kq'[l])
        /\ Len(edges[l]) \in Nat /\ Len(k) <= Len(edges[l]) /\ F \in Nat
    <3>1. F = Len(edges[l]) - Len(k) /\ Fetched(l)' = Len(edges[l]) - Len(kq'[l])
      BY <1>2, Zenon DEF Fetched
    <3>2. Len(edges[l]) \in Nat /\ Len(k) <= Len(edges[l])
      BY <1>1, <1>4
    <3> QED
      BY <2>1, <3>1, <3>2
  <2>4. \A i \in 1 .. Len(k) : k[i] = Edge(l, F + i)
    BY <1>4
  <2> HIDE DEF n, k, F
  <2>5. p \in Seq(AnyEdge) /\ Len(p) = Len(k) - n
        /\ \A i \in 1 .. Len(k) - n : p[i] = k[n + i]
    BY <2>1, SubSeqProperties
  <2> HIDE DEF p
  <2>6. \A i \in 1 .. Len(p) : p[i] = Edge(l, F + n + i)
    <3> SUFFICES ASSUME NEW i \in 1 .. Len(k) - n PROVE p[i] = Edge(l, F + n + i)
      BY <2>5
    <3>1. n + i \in 1 .. Len(k)
      BY <2>1
    <3>2. F + (n + i) = F + n + i
      <4>1. n \in Int /\ i \in Int /\ F \in Int
        BY <2>1, <2>3
      <4> QED
        BY <4>1
    <3>3. p[i] = Edge(l, F + (n + i))
      BY <2>4, <2>5, <3>1
    <3> QED
      BY <3>2, <3>3
  <2>7. Fetched(l)' = F + n /\ F \in Nat /\ Len(p) <= Len(edges[l])
    BY <2>1, <2>2, <2>3, <2>5
  <2> QED
    BY <2>1, <2>2, <2>5, <2>6, <2>7 DEF F, n
<1>6. kq' \in [Lines -> Seq(AnyEdge)]
  BY <1>2, <1>5
<1>7. ASSUME NEW l \in Lines
      PROVE  /\ Fetched(l) <= Fetched(l)' /\ Fetched(l)' \in Nat
             /\ InOrder(l, batch') /\ Count(l, batch') = Fetched(l)' - Fetched(l)
             /\ \A n \in Fetched(l) + 1 .. Fetched(l)' :
                  \E i \in 1 .. Len(batch') : batch'[i] = Edge(l, n)
  <2>1. l \in 1 .. N /\ l <= N
    BY <1>1
  <2>2. InOrder(l, batch') /\ Count(l, batch') = Portion(l)
    BY <1>2, <1>3, <2>1, Zenon DEF TakenUpTo
  <2>3. \A n \in Fetched(l) + 1 .. Fetched(l) + Portion(l) :
          \E i \in 1 .. Len(batch') : batch'[i] = Edge(l, n)
    BY <1>2, <1>3, <2>1, Zenon DEF TakenUpTo
  <2>4. /\ Fetched(l) \in Nat /\ Portion(l) \in Nat
        /\ Fetched(l)' = Fetched(l) + Portion(l)
    BY <1>5
  <2> QED
    BY <2>2, <2>3, <2>4
<1>8. ASSUME NEW i \in 1 .. Len(batch')
      PROVE  /\ batch'[i].line \in Lines
             /\ \A l \in Lines : batch'[i].line = l
                                => batch'[i].num \in Fetched(l) + 1 .. Fetched(l)'
  <2>1. /\ batch'[i].line \in 1 .. N
        /\ batch'[i].num \in Fetched(batch'[i].line) + 1
                           .. Fetched(batch'[i].line) + Portion(batch'[i].line)
    BY <1>2, <1>3, Zenon DEF TakenUpTo
  <2>2. \A l \in Lines : Fetched(l)' = Fetched(l) + Portion(l)
    BY <1>5
  <2> QED
    BY <1>1, <2>1, <2>2
<1>9. batch' \in Seq(AnyEdge)
  BY <1>2, <1>3 DEF TakenUpTo
<1> QED
  BY <1>2, <1>5, <1>6, <1>7, <1>8, <1>9

\* The edge in hand.
LEMMA InHand ==
  ASSUME PathType, Queues, Batch, spc # "poll"
  PROVE  /\ batch # <<>> /\ Len(batch) >= 1 /\ Len(batch) \in Nat
         /\ Head(batch) = batch[1] /\ Head(batch) \in AnyEdge
         /\ Head(batch) = Edge(Head(batch).line, Head(batch).num)
         /\ Head(batch).line \in Lines
         /\ Head(batch).num \in 1 .. Fetched(Head(batch).line)
         /\ Tail(batch) \in Seq(AnyEdge) /\ Len(Tail(batch)) = Len(batch) - 1
         /\ \A i \in 1 .. Len(batch) - 1 : Tail(batch)[i] = batch[i + 1]
         /\ batch = <<Head(batch)>> \o Tail(batch)
<1>1. batch \in Seq(AnyEdge) /\ batch # <<>>
  BY Zenon DEF PathType, Batch
<1>2. /\ Len(batch) >= 1 /\ Len(batch) \in Nat
      /\ Head(batch) = batch[1] /\ Head(batch) \in AnyEdge
      /\ Tail(batch) \in Seq(AnyEdge) /\ Len(Tail(batch)) = Len(batch) - 1
      /\ \A i \in 1 .. Len(batch) - 1 : Tail(batch)[i] = batch[i + 1]
      /\ 1 \in DOMAIN batch
  BY <1>1
<1>3. Head(batch).line \in Lines /\ Head(batch).num \in 1 .. Fetched(Head(batch).line)
  BY <1>2, Zenon DEF Queues, Real
<1>4. Head(batch) = Edge(Head(batch).line, Head(batch).num)
  BY <1>2 DEF AnyEdge, Edge
<1>5. batch = <<Head(batch)>> \o Tail(batch)
  BY <1>1, Move
<1> QED
  BY <1>1, <1>2, <1>3, <1>4, <1>5

\* An edge that was taken has its time.
LEMMA TimeIs ==
  ASSUME PathType, Kernel, NEW l \in Lines
  PROVE  /\ Fetched(l) \in Nat /\ Fetched(l) <= Len(edges[l])
         /\ Len(edges[l]) \in Nat /\ Len(kq[l]) \in Nat
         /\ DOMAIN edges[l] = 1 .. Len(edges[l])
         /\ \A n \in 1 .. Fetched(l) : n \in 1 .. Len(edges[l]) /\ edges[l][n] \in Nat
         /\ \A m, n \in 1 .. Fetched(l) : m <= n => edges[l][m] <= edges[l][n]
<1>1. edges[l] \in Seq(Nat) /\ kq[l] \in Seq(AnyEdge)
  BY DEF PathType
<1>2. \A m, n \in DOMAIN edges[l] : m <= n => edges[l][m] <= edges[l][n]
  BY Zenon DEF Kernel
<1>3. /\ Len(edges[l]) \in Nat /\ Len(kq[l]) \in Nat /\ DOMAIN edges[l] = 1 .. Len(edges[l])
      /\ \A n \in 1 .. Len(edges[l]) : edges[l][n] \in Nat
  BY <1>1
<1>4. Fetched(l) \in Nat /\ Fetched(l) <= Len(edges[l])
  <2>1. Fetched(l) = Len(edges[l]) - Len(kq[l]) /\ Len(kq[l]) <= Len(edges[l])
    BY Zenon DEF Fetched, Kernel
  <2>2. \A a, b \in Nat : b <= a => a - b \in Nat /\ a - b <= a
    OBVIOUS
  <2> QED
    BY <1>3, <2>1, <2>2, Zenon
<1>5. \A n \in 1 .. Fetched(l) : n \in 1 .. Len(edges[l])
  BY <1>3, <1>4
<1> QED
  BY <1>2, <1>3, <1>4, <1>5

\* The invariant holds at the start.
LEMMA InitHolds == Init => IInv
<1> SUFFICES ASSUME Init PROVE IInv
  OBVIOUS
<1> USE DEF Init, PathInit, AudioInit, HostInit
<1>1. setup \in Setups
  OBVIOUS
<1>2. setup.jacks + setup.buttons \in Nat /\ Lines \subseteq Nat /\ Jacks \subseteq Lines
      /\ Buttons \subseteq Lines
  BY <1>1, NumLines
<1>3. \A S : <<>> \in Seq(S)
  OBVIOUS
<1>4. PathType
  <2>1. [l \in Lines |-> <<>>] \in [Lines -> Seq(Nat)]
        /\ [l \in Lines |-> <<>>] \in [Lines -> Seq(AnyEdge)]
        /\ [l \in Lines |-> 0] \in [Lines -> Nat] /\ [b \in Buttons |-> 0] \in [Buttons -> Nat]
        /\ 1 \in Nat
    BY <1>3
  <2> QED
    BY <1>1, <1>3, <2>1, Zenon DEF PathType
<1>5. AudioType
  <2>1. [l \in Jacks |-> 0] \in [Jacks -> Nat] /\ 0 \in Nat
    OBVIOUS
  <2> QED
    BY <1>3, <2>1, Zenon DEF AudioType
<1>6. HostType
  <2>1. 0 \in Nat
    OBVIOUS
  <2> QED
    BY <1>3, <2>1, Zenon DEF HostType
<1>7. \A l \in Lines : edges[l] = <<>> /\ kq[l] = <<>> /\ level[l] = 0
                       /\ evLost[l] = 0 /\ tevLost[l] = 0 /\ Fetched(l) = 0
  <2>1. Len(<<>>) = 0
    OBVIOUS
  <2> QED
    BY <2>1 DEF Fetched
<1>8. DOMAIN <<>> = {} /\ Dealt = <<>>
  BY DEF Dealt
<1>9. Kernel
  BY <1>7, <1>8 DEF Kernel
<1>10. Queues
  BY <1>7, <1>8 DEF Queues, Real, Published
<1>11. Batch
  <2>1. \A l \in Lines : level[l] = Fetched(l)
    BY <1>7
  <2>2. ToStore = {}
    BY <1>8, Zenon DEF ToStore
  <2>3. \A l \in Lines : InOrder(l, batch)
    BY <1>8, Zenon DEF InOrder
  <2> QED
    BY <2>1, <2>2, <2>3, Zenon DEF Batch, Stored
<1>12. Times
  <2>1. Active(0) = FALSE
    BY DEF Active
  <2>2. \A b \in Buttons : level[b] = 0 /\ btnSince[b] = 0
    BY <1>2, <1>7
  <2>3. spc \notin {"levelLast", "since"}
    OBVIOUS
  <2> QED
    BY <2>1, <2>2, <2>3, Zenon DEF Times, SinceNum, WhollyPublished, PressTime
<1>13. EvIntact /\ TevIntact
  <2>1. Left = <<>>
    BY DEF Left
  <2>2. <<>> \o <<>> = <<>>
    OBVIOUS
  <2>3. EvWay = <<>> /\ TevWay = <<>>
    BY <1>8, <2>1, <2>2, Zenon DEF EvWay, TevWay, Drained
  <2>4. \A l \in Lines : InOrder(l, <<>>) /\ Count(l, <<>>) = 0
    BY <1>8, CountEmpty, Zenon DEF InOrder
  <2>5. EvIntact
    BY <1>7, <2>3, <2>4 DEF EvIntact
  <2>6. TevIntact
    <3> SUFFICES ASSUME NEW l \in Jacks
                 PROVE  /\ InOrder(l, TevWay)
                        /\ applied[l] + Count(l, TevWay) + tevLost[l] = Fetched(l)
                        /\ \A i \in DOMAIN TevWay : TevWay[i].line = l
                                                   => applied[l] < TevWay[i].num
      BY Zenon DEF TevIntact
    <3>1. l \in Lines /\ applied[l] = 0
      BY <1>2
    <3> QED
      BY <1>7, <1>8, <2>3, <2>4, <3>1
  <2> QED
    BY <2>5, <2>6
<1>14. Hosts /\ Asking /\ Notes
  BY <1>8, Zenon DEF Hosts, Asking, Notes
<1> QED
  BY <1>4, <1>5, <1>6, <1>9, <1>10, <1>11, <1>12, <1>13, <1>14 DEF IInv, TypeOK

-----------------------------------------------------------------------------
(* Types *)

\* The edge wholly published is a line's last one, or the one before it.
LEMMA WhollyIs ==
  ASSUME PathType, Kernel, Queues, Batch, NEW b \in Buttons
  PROVE  /\ b \in Lines /\ level[b] \in Nat /\ Fetched(b) \in Nat /\ level[b] <= Fetched(b)
         /\ WhollyPublished(b) \in Nat /\ WhollyPublished(b) <= level[b]
<1>1. b \in Lines
  BY NumLines DEF PathType
<1>2. level[b] \in Nat /\ level[b] <= Fetched(b) /\ Fetched(b) \in Nat
  BY <1>1, TimeIs DEF PathType, Queues
<1>3. CASE spc = "since" /\ Head(batch).line = b
  <2>1. Head(batch).num \in 1 .. Fetched(b)
    BY <1>3, InHand
  <2>2. level[b] = Head(batch).num
    BY <1>3, Zenon DEF Batch, Stored
  <2>3. WhollyPublished(b) = level[b] - 1
    BY <1>3 DEF WhollyPublished
  <2> QED
    BY <1>1, <1>2, <2>1, <2>2, <2>3
<1>4. CASE ~ (spc = "since" /\ Head(batch).line = b)
  BY <1>1, <1>2, <1>4 DEF WhollyPublished
<1> QED
  BY <1>3, <1>4

\* Every step keeps the types of the path.
LEMMA PathTypeStep ==
  ASSUME IInv, [Next]_vars PROVE PathType'
<1> USE DEF PathType
<1>1. PathType /\ Kernel /\ Queues /\ Batch /\ AudioType /\ HostType
  BY DEF IInv, TypeOK
<1>2. setup' = setup /\ Lines' = Lines /\ Buttons' = Buttons
  BY SetupStays
<1>3. Buttons \subseteq Lines /\ Lines \subseteq Nat
  BY <1>1, NumLines
<1>4. CASE Tick
  <2>1. now' \in Nat
    BY <1>1, <1>4 DEF Tick
  <2> QED
    BY <1>1, <1>2, <1>4, <2>1 DEF Tick, kernel, sampler, counts
<1>5. ASSUME NEW l \in Lines, Happen(l) PROVE PathType'
  <2>1. edges' \in [Lines -> Seq(Nat)]
    <3>1. Append(edges[l], now) \in Seq(Nat)
      BY <1>1, AppendProperties
    <3> QED
      BY <1>1, <1>5, <3>1 DEF Happen
  <2>2. kq' \in [Lines -> Seq(AnyEdge)]
    <3>1. Edge(l, Len(edges[l]) + 1) \in AnyEdge
      <4>1. Len(edges[l]) + 1 \in Nat /\ l \in Nat
        BY <1>1, <1>3
      <4> QED
        BY <4>1 DEF Edge, AnyEdge
    <3>2. Append(kq[l], Edge(l, Len(edges[l]) + 1)) \in Seq(AnyEdge)
      BY <1>1, <3>1, AppendProperties
    <3> QED
      BY <1>1, <1>5, <3>2 DEF Happen
  <2> QED
    BY <1>1, <1>2, <1>5, <2>1, <2>2 DEF Happen, sampler, counts
<1>6. CASE PollHal
  <2>1. kq' \in [Lines -> Seq(AnyEdge)] /\ batch' \in Seq(AnyEdge)
    BY <1>1, <1>6, PollHalIs
  <2>2. spc' \in {"poll", "level"}
    BY <1>6 DEF PollHal
  <2> QED
    BY <1>1, <1>2, <1>6, <2>1, <2>2 DEF PollHal, counts
<1>7. CASE StoreLevel
  <2>1. Head(batch) \in AnyEdge /\ Head(batch).num \in Nat
    <3>1. Head(batch) \in AnyEdge
      BY <1>1, <1>7, InHand DEF StoreLevel
    <3> QED
      BY <3>1 DEF AnyEdge
  <2>2. level' \in [Lines -> Nat]
    BY <1>1, <1>7, <2>1 DEF StoreLevel
  <2>3. spc' \in {"ev", "since"}
    BY <1>7 DEF StoreLevel, AfterLevel
  <2> QED
    BY <1>1, <1>2, <1>7, <2>2, <2>3 DEF StoreLevel, kernel, counts
<1>8. CASE StoreSince
  <2>1. Head(batch).line \in Lines /\ Head(batch).num \in 1 .. Fetched(Head(batch).line)
    BY <1>1, <1>8, InHand DEF StoreSince
  <2>2. TimeOf(Head(batch)) \in Nat
    BY <1>1, <2>1, TimeIs DEF TimeOf
  <2>3. btnSince' \in [Buttons -> Nat]
    BY <1>1, <1>8, <2>2 DEF StoreSince
  <2>4. spc' \in {"ev", "levelLast"}
    BY <1>8 DEF StoreSince, AfterSince
  <2> QED
    BY <1>1, <1>2, <1>8, <2>3, <2>4 DEF StoreSince, kernel, counts
<1>9. CASE PushEv
  <2>1. Head(batch) \in AnyEdge /\ Head(batch).line \in Lines /\ Tail(batch) \in Seq(AnyEdge)
    BY <1>1, <1>9, InHand DEF PushEv
  <2>2. ev' \in Seq(AnyEdge) /\ evLost' \in [Lines -> Nat]
    <3>1. Append(ev, Head(batch)) \in Seq(AnyEdge)
      BY <1>1, <2>1, AppendProperties
    <3>2. [evLost EXCEPT ![Head(batch).line] = @ + 1] \in [Lines -> Nat]
      BY <1>1, <2>1, SMTT(30)
    <3> QED
      BY <1>1, <1>9, <3>1, <3>2, Zenon DEF PushEv
  <2>3. spc' \in {"poll", "level", "tev"} /\ batch' \in Seq(AnyEdge)
    BY <1>1, <1>9, <2>1 DEF PushEv, CountEvent
  <2> QED
    BY <1>1, <1>2, <1>9, <2>2, <2>3 DEF PushEv, kernel
<1>10. CASE PushTev
  <2>1. Head(batch) \in AnyEdge /\ Head(batch).line \in Lines /\ Tail(batch) \in Seq(AnyEdge)
    BY <1>1, <1>10, InHand DEF PushTev
  <2>2. tev' \in Seq(AnyEdge) /\ tevLost' \in [Lines -> Nat]
    <3>1. Append(tev, Head(batch)) \in Seq(AnyEdge)
      BY <1>1, <2>1, AppendProperties
    <3>2. [tevLost EXCEPT ![Head(batch).line] = @ + 1] \in [Lines -> Nat]
      BY <1>1, <2>1
    <3> QED
      BY <1>1, <1>10, <3>1, <3>2, Zenon DEF PushTev
  <2>3. spc' \in {"poll", "level"} /\ batch' \in Seq(AnyEdge)
    BY <1>1, <1>10, <2>1 DEF PushTev, CountEvent
  <2> QED
    BY <1>1, <1>2, <1>10, <2>2, <2>3 DEF PushTev, kernel
<1>11. CASE Audio /\ UNCHANGED <<now, kernel, sampler, poller>>
  <2>1. ev' \in Seq(AnyEdge) /\ tev' \in Seq(AnyEdge)
    BY <1>1, <1>11, Move, ZenonT(40)
      DEF Audio, PollEvents, TriggerBlock, DrainHeld, StartLevels, PlaceEdge, BlockDone
  <2> QED
    BY <1>1, <1>2, <1>11, <2>1 DEF kernel, sampler, counts
<1>12. CASE Host /\ UNCHANGED <<now, kernel, sampler, tev, audio, polled>>
  <2>1. ev' \in Seq(AnyEdge)
    BY <1>1, <1>12, Move
       DEF Host, Wake, DrainOne, DrainDone, Skip, AllDone, SendPress, AskRelease, SendNote,
           Ask, LoadLevel, LoadSince, Answer
  <2> QED
    BY <1>1, <1>2, <1>12, <2>1 DEF kernel, sampler, counts
<1>13. CASE UNCHANGED vars
  BY <1>1, <1>2, <1>13 DEF vars, path, kernel, sampler, counts
<1> QED
  BY <1>4, <1>5, <1>6, <1>7, <1>8, <1>9, <1>10, <1>11, <1>12, <1>13, Steps

\* Every step keeps the types of the audio thread.
LEMMA AudioTypeStep ==
  ASSUME IInv, [Next]_vars PROVE AudioType'
<1> USE DEF AudioType
<1>1. PathType /\ AudioType
  BY DEF IInv, TypeOK
<1>2. Jacks' = Jacks
  BY SetupStays
<1>3. CASE UNCHANGED <<audio, polled>>
  BY <1>1, <1>2, <1>3 DEF audio
<1>4. CASE PollEvents
  <2>1. polled' \in Seq(AnyEdge)
    BY <1>1, <1>4, Move DEF PollEvents, PathType
  <2> QED
    BY <1>1, <1>2, <1>4, <2>1 DEF PollEvents, audio
<1>5. CASE TriggerBlock
  BY <1>1, <1>2, <1>5 DEF TriggerBlock
<1>6. CASE DrainHeld
  <2>1. held' \in Seq(AnyEdge)
    BY <1>1, <1>6, Move DEF DrainHeld, PathType
  <2> QED
    BY <1>1, <1>2, <1>6, <2>1 DEF DrainHeld
<1>7. CASE StartLevels
  BY <1>1, <1>2, <1>7 DEF StartLevels
<1>8. CASE PlaceEdge
  <2>1. PICK i \in DOMAIN held : /\ held' = RemoveAt(held, i)
                                /\ applied' = [applied EXCEPT ![held[i].line] = @ + 1]
    BY <1>8 DEF PlaceEdge
  <2>2. i \in 1 .. Len(held)
    BY <1>1
  <2>3. held' \in Seq(AnyEdge)
    <3>1. SubSeq(held, 1, i - 1) \in Seq(AnyEdge) /\ SubSeq(held, i + 1, Len(held)) \in Seq(AnyEdge)
          /\ RemoveAt(held, i) = SubSeq(held, 1, i - 1) \o SubSeq(held, i + 1, Len(held))
      BY <1>1, <2>2, Around
    <3> QED
      BY <2>1, <3>1, ConcatProperties
  <2>4. applied' \in [Jacks -> Nat]
    <3>1. CASE held[i].line \in Jacks
      BY <1>1, <2>1, <3>1
    <3>2. CASE held[i].line \notin Jacks
      <4>1. applied' = applied
        BY <1>1, <2>1, <3>2
      <4> QED
        BY <1>1, <4>1
    <3> QED
      BY <3>1, <3>2
  <2> QED
    BY <1>1, <1>2, <1>8, <2>3, <2>4 DEF PlaceEdge
<1>9. CASE BlockDone
  <2>1. block' \in Nat
    BY <1>1, <1>9 DEF BlockDone
  <2> QED
    BY <1>1, <1>2, <1>9, <2>1 DEF BlockDone
<1> QED
  BY <1>3, <1>4, <1>5, <1>6, <1>7, <1>8, <1>9, Steps DEF Audio, vars, audio

\* The edges dealt with are those of the history, in its order.
LEMMA DealtIs ==
  ASSUME HostType
  PROVE  /\ Dealt \in Seq(AnyEdge) /\ Len(Dealt) = Len(handled)
         /\ DOMAIN Dealt = 1 .. Len(handled) /\ DOMAIN handled = 1 .. Len(handled)
         /\ \A i \in 1 .. Len(handled) :
              Dealt[i].line = handled[i].line /\ Dealt[i].num = handled[i].num
<1>1. handled \in Seq(Message) /\ DOMAIN handled = 1 .. Len(handled) /\ Len(handled) \in Nat
  BY DEF HostType
<1>2. \A i \in 1 .. Len(handled) : Edge(handled[i].line, handled[i].num) \in AnyEdge
  <2>1. \A i \in 1 .. Len(handled) : handled[i] \in Message
    BY <1>1
  <2> QED
    BY <2>1 DEF Message, Edge, AnyEdge
<1>3. Dealt = [i \in 1 .. Len(handled) |-> Edge(handled[i].line, handled[i].num)]
  BY <1>1, Zenon DEF Dealt
<1>4. Dealt \in Seq(AnyEdge) /\ Len(Dealt) = Len(handled) /\ DOMAIN Dealt = 1 .. Len(handled)
  BY <1>1, <1>2, <1>3
<1>5. \A i \in 1 .. Len(handled) :
        Dealt[i].line = handled[i].line /\ Dealt[i].num = handled[i].num
  BY <1>3 DEF Edge
<1> QED
  BY <1>1, <1>4, <1>5

\* Every step keeps the types of the host.
LEMMA HostTypeStep ==
  ASSUME IInv, [Next]_vars PROVE HostType'
<1> USE DEF HostType
<1>1. PathType /\ Kernel /\ Queues /\ Batch /\ HostType /\ Asking
  BY DEF IInv, TypeOK
<1>2. Buttons \subseteq Nat /\ Buttons \subseteq Lines
  BY <1>1, NumLines DEF PathType
<1>3. CASE UNCHANGED poller
  BY <1>1, <1>3 DEF poller, asking
<1>4. ASSUME NEW e, NEW ok \in BOOLEAN, NEW press \in Nat, e \in AnyEdge
      PROVE  Deal(e, ok, press) \in Seq(Message)
  <2>1. [line |-> e.line, num |-> e.num, ok |-> ok, press |-> press] \in Message
    BY <1>4 DEF AnyEdge, Message
  <2> QED
    BY <1>1, <2>1, AppendProperties DEF Deal
<1>5. CASE Wake
  BY <1>1, <1>5 DEF Wake, asking
<1>6. CASE DrainOne
  <2>1. got' \in Seq(AnyEdge)
    BY <1>1, <1>6, Move DEF DrainOne, PathType
  <2> QED
    BY <1>1, <1>6, <2>1 DEF DrainOne, asking
<1>7. CASE DrainDone
  BY <1>1, <1>7 DEF DrainDone, asking
<1>8. CASE Skip
  <2>1. got' \in Seq(AnyEdge)
    BY <1>1, <1>8, Move DEF Skip
  <2> QED
    BY <1>1, <1>8, <2>1 DEF Skip, asking
<1>9. CASE AllDone
  <2>1. cycle' \in Nat
    BY <1>1, <1>9 DEF AllDone
  <2> QED
    BY <1>1, <1>9, <2>1 DEF AllDone, asking
<1>10. CASE SendPress
  <2>1. got' \in Seq(AnyEdge) /\ Head(got) \in AnyEdge
    BY <1>1, <1>10, Move DEF SendPress
  <2>2. handled' \in Seq(Message)
    BY <1>4, <1>10, <2>1 DEF SendPress
  <2> QED
    BY <1>1, <1>10, <2>1, <2>2 DEF SendPress, asking
<1>11. CASE AskRelease
  <2>1. asked' \in Nat /\ asof' \in Nat
    <3>1. Head(got).line \in Buttons /\ Question(Head(got).line)
      BY <1>11 DEF AskRelease
    <3>2. PICK b \in Buttons : b = Head(got).line
      BY <3>1
    <3> QED
      BY <1>1, <1>2, <3>1, <3>2, WhollyIs DEF Question
  <2> QED
    BY <1>1, <1>11, <2>1 DEF AskRelease, Question
<1>12. CASE SendNote
  <2>1. got' \in Seq(AnyEdge) /\ Head(got) \in AnyEdge
    BY <1>1, <1>12, Move DEF SendNote
  <2>2. handled' \in Seq(Message)
    <3>1. (~ Refused(Head(got))) \in BOOLEAN /\ 0 \in Nat
      BY Zenon
    <3>2. Deal(Head(got), ~ Refused(Head(got)), 0) \in Seq(Message)
      BY <1>4, <2>1, <3>1, Zenon
    <3> QED
      BY <1>12, <3>2, Zenon DEF SendNote
  <2>3. midi' \in Seq(Note)
    <3>1. Offset(Head(got)) \in Nat /\ Head(got).line \in Nat
      <4>1. Head(got).line \in Nat /\ Head(got).num \in Nat
        BY <2>1 DEF AnyEdge
      <4>2. Head(got).line \in Lines /\ Head(got).num \in 1 .. Fetched(Head(got).line)
        <5>1. 1 \in DOMAIN got /\ Head(got) = got[1]
          BY <1>1, <1>12 DEF SendNote
        <5>2. Head(got).line \in Lines /\ Head(got).num \in 1 .. level[Head(got).line]
          BY <1>1, <5>1, Zenon DEF Queues, Published
        <5>3. level[Head(got).line] <= Fetched(Head(got).line)
              /\ level[Head(got).line] \in Nat /\ Fetched(Head(got).line) \in Nat
          BY <1>1, <5>2, TimeIs DEF Queues, PathType
        <5> QED
          BY <4>1, <5>2, <5>3
      <4>3. TimeOf(Head(got)) \in Nat
        BY <1>1, <4>2, TimeIs DEF TimeOf
      <4>4. setup.period \in Nat /\ setup.period >= 1 /\ Frames \in Nat /\ Frames >= 1
        BY <1>1, NumLines, LimitAssumption DEF PathType
      <4>5. CycleStart \in Nat
        BY <1>1, <4>4 DEF CycleStart, Window
      <4>6. CASE TimeOf(Head(got)) <= CycleStart
        BY <4>1, <4>6 DEF Offset
      <4>7. CASE ~ (TimeOf(Head(got)) <= CycleStart)
        <5>1. TimeOf(Head(got)) - CycleStart \in Nat
          BY <4>3, <4>5, <4>7
        <5>2. (TimeOf(Head(got)) - CycleStart) \div setup.period \in Nat
          BY <4>4, <5>1, Z3
        <5> QED
          BY <4>1, <4>4, <4>7, <5>2 DEF Offset, Least
      <4> QED
        BY <4>6, <4>7
    <3>2. [line |-> Head(got).line, off |-> Offset(Head(got))] \in Note
      BY <3>1 DEF Note
    <3>3. Append(midi, [line |-> Head(got).line, off |-> Offset(Head(got))]) \in Seq(Note)
      BY <1>1, <3>2, AppendProperties
    <3> QED
      BY <1>1, <1>12, <3>3, Zenon DEF SendNote
  <2> QED
    BY <1>1, <1>12, <2>1, <2>2, <2>3 DEF SendNote, asking
<1>13. ASSUME NEW b \in Buttons, Ask(b) PROVE HostType'
  <2>1. asof' \in Nat
    BY <1>1, <1>2, <1>13, WhollyIs DEF Ask, Question
  <2> QED
    BY <1>1, <1>2, <1>13, <2>1 DEF Ask, Question
<1>14. CASE LoadLevel
  <2>1. seen' \in Nat
    BY <1>1, <1>2, <1>14 DEF LoadLevel, Asking, PathType
  <2>2. since' \in Nat
    BY <1>1, <1>14 DEF LoadLevel
  <2>3. hpc' \in {"since", "answer"}
    BY <1>14 DEF LoadLevel
  <2> QED
    BY <1>1, <1>14, <2>1, <2>2, <2>3 DEF LoadLevel
<1>15. CASE LoadSince
  <2>1. since' \in Nat
    BY <1>1, <1>2, <1>15 DEF LoadSince, Asking, PathType
  <2>2. hpc' \in {"levelLast", "answer"}
    BY <1>15 DEF LoadSince
  <2> QED
    BY <1>1, <1>15, <2>1, <2>2 DEF LoadSince
<1>16. CASE Answer
  <2>1. CASE setup.host = "pd"
    <3>1. got # <<>>
      BY <1>1, <1>16, <2>1 DEF Answer, Asking
    <3>2. got' \in Seq(AnyEdge) /\ Head(got) \in AnyEdge
      BY <1>1, <1>16, <2>1, <3>1, Move DEF Answer
    <3>3. handled' \in Seq(Message)
      BY <1>1, <1>4, <1>16, <2>1, <3>2 DEF Answer
    <3> QED
      BY <1>1, <1>16, <2>1, <3>2, <3>3 DEF Answer, asking
  <2>2. CASE setup.host # "pd"
    BY <1>1, <1>16, <2>2 DEF Answer, asking
  <2> QED
    BY <2>1, <2>2
<1>17. UNCHANGED poller \/ Host
  BY Steps DEF vars
<1> QED
  BY <1>3, <1>5, <1>6, <1>7, <1>8, <1>9, <1>10, <1>11, <1>12, <1>13, <1>14, <1>15,
     <1>16, <1>17 DEF Host

-----------------------------------------------------------------------------
(* The kernel, and what only grows *)

\* Every step keeps the kernel's edges in order and after the others.
LEMMA KernelStep ==
  ASSUME IInv, [Next]_vars PROVE Kernel'
<1>1. PathType /\ Kernel
  BY DEF IInv, TypeOK
<1>2. setup' = setup /\ Lines' = Lines
  BY SetupStays
<1>3. CASE UNCHANGED <<now, kernel>>
  BY <1>1, <1>2, <1>3 DEF kernel, Kernel, Fetched
<1>4. CASE Tick
  <2>1. edges' = edges /\ kq' = kq /\ now' = now + 1 /\ now \in Nat
    BY <1>1, <1>4 DEF Tick, kernel, PathType
  <2> SUFFICES ASSUME NEW l \in Lines, NEW n \in DOMAIN edges[l] PROVE edges[l][n] <= now + 1
    BY <1>1, <1>2, <2>1 DEF Kernel, Fetched
  <2>2. edges[l][n] <= now /\ edges[l][n] \in Nat
    BY <1>1 DEF Kernel, PathType
  <2> QED
    BY <2>1, <2>2
<1>5. ASSUME NEW k \in Lines, Happen(k) PROVE Kernel'
  <2> SUFFICES ASSUME NEW l \in Lines
               PROVE  /\ \A n \in DOMAIN edges'[l] : edges'[l][n] <= now'
                      /\ \A m, n \in DOMAIN edges'[l] :
                           m <= n => edges'[l][m] <= edges'[l][n]
                      /\ Len(kq'[l]) <= Len(edges'[l])
                      /\ \A i \in DOMAIN kq'[l] : kq'[l][i] = Edge(l, Fetched(l)' + i)
    BY <1>2, Zenon DEF Kernel
  <2>1. /\ \A n \in DOMAIN edges[l] : edges[l][n] <= now
        /\ \A m, n \in DOMAIN edges[l] : m <= n => edges[l][m] <= edges[l][n]
        /\ Len(kq[l]) <= Len(edges[l])
        /\ \A i \in DOMAIN kq[l] : kq[l][i] = Edge(l, Fetched(l) + i)
    BY <1>1, Zenon DEF Kernel
  <2>2. edges[l] \in Seq(Nat) /\ kq[l] \in Seq(AnyEdge) /\ now \in Nat /\ now' = now
    BY <1>1, <1>5 DEF PathType, Happen
  <2>3. CASE l # k
    <3>1. edges'[l] = edges[l] /\ kq'[l] = kq[l]
      BY <1>1, <1>5, <2>3 DEF Happen, PathType
    <3> QED
      BY <2>1, <2>2, <3>1 DEF Fetched
  <2>4. CASE l = k
    <3> DEFINE m == Len(edges[l])
               h == Len(kq[l])
    <3>1. edges'[l] = Append(edges[l], now) /\ kq'[l] = Append(kq[l], Edge(l, m + 1))
      BY <1>1, <1>5, <2>4 DEF Happen, PathType
    <3>2. m \in Nat /\ h \in Nat /\ Len(edges'[l]) = m + 1 /\ Len(kq'[l]) = h + 1
          /\ DOMAIN edges[l] = 1 .. m /\ DOMAIN kq[l] = 1 .. h
          /\ DOMAIN edges'[l] = 1 .. m + 1 /\ DOMAIN kq'[l] = 1 .. h + 1
      BY <2>2, <3>1
    <3>3. /\ \A n \in 1 .. m : edges'[l][n] = edges[l][n] /\ edges[l][n] \in Nat
          /\ edges'[l][m + 1] = now
          /\ \A i \in 1 .. h : kq'[l][i] = kq[l][i]
          /\ kq'[l][h + 1] = Edge(l, m + 1)
      BY <2>2, <3>1
    <3>4. Fetched(l) = m - h /\ Fetched(l)' = (m + 1) - (h + 1) /\ h <= m
      BY <2>1, <3>2 DEF Fetched
    <3> HIDE DEF m, h
    <3>5. Fetched(l)' = Fetched(l) /\ Fetched(l)' + (h + 1) = m + 1
      BY <3>2, <3>4
    <3>6. \A n \in 1 .. m + 1 : edges'[l][n] <= now
      <4> SUFFICES ASSUME NEW n \in 1 .. m + 1 PROVE edges'[l][n] <= now
        OBVIOUS
      <4>1. CASE n \in 1 .. m
        BY <2>1, <3>2, <3>3, <4>1, Zenon
      <4>2. CASE n = m + 1
        BY <2>2, <3>3, <4>2
      <4> QED
        BY <3>2, <4>1, <4>2
    <3>7. \A a, b \in 1 .. m + 1 : a <= b => edges'[l][a] <= edges'[l][b]
      <4> SUFFICES ASSUME NEW a \in 1 .. m + 1, NEW b \in 1 .. m + 1, a <= b
                   PROVE  edges'[l][a] <= edges'[l][b]
        OBVIOUS
      <4>1. CASE b \in 1 .. m
        <5>1. a \in 1 .. m
          BY <3>2, <4>1
        <5>2. edges[l][a] <= edges[l][b]
          BY <2>1, <3>2, <4>1, <5>1, Zenon
        <5> QED
          BY <3>3, <4>1, <5>1, <5>2, Zenon
      <4>2. CASE b = m + 1
        <5>1. edges'[l][a] <= now
          BY <3>6, Zenon
        <5> QED
          BY <3>3, <4>2, <5>1, Zenon
      <4> QED
        BY <3>2, <4>1, <4>2
    <3>8. ASSUME NEW i \in 1 .. h + 1 PROVE kq'[l][i] = Edge(l, Fetched(l)' + i)
      <4>1. CASE i \in 1 .. h
        BY <2>1, <3>2, <3>3, <3>5, <4>1
      <4>2. CASE i = h + 1
        BY <3>3, <3>5, <4>2
      <4> QED
        BY <3>2, <4>1, <4>2
    <3>9. h + 1 <= m + 1
      BY <3>2, <3>4
    <3> QED
      BY <2>2, <3>2, <3>6, <3>7, <3>8, <3>9
  <2> QED
    BY <2>3, <2>4
<1>6. CASE PollHal
  <2> SUFFICES ASSUME NEW l \in Lines
               PROVE  /\ \A n \in DOMAIN edges[l] : edges[l][n] <= now
                      /\ \A m, n \in DOMAIN edges[l] :
                           m <= n => edges[l][m] <= edges[l][n]
                      /\ Len(kq'[l]) <= Len(edges[l])
                      /\ \A i \in DOMAIN kq'[l] : kq'[l][i] = Edge(l, Fetched(l)' + i)
    <3>1. edges' = edges /\ now' = now
      BY <1>1, <1>6, PollHalIs
    <3> QED
      BY <1>2, <3>1, Zenon DEF Kernel
  <2>1. DOMAIN kq'[l] = 1 .. Len(kq'[l])
    <3>1. kq'[l] \in Seq(AnyEdge)
      BY <1>1, <1>6, PollHalIs
    <3> QED
      BY <3>1
  <2> QED
    BY <1>1, <1>6, <2>1, PollHalIs, Zenon DEF Kernel
<1>7. UNCHANGED <<now, kernel>> \/ Tick \/ (\E l \in Lines : Happen(l)) \/ PollHal
  BY Steps DEF vars, path, StoreLevel, StoreSince, PushEv, PushTev
<1> QED
  BY <1>3, <1>4, <1>5, <1>6, <1>7

\* The edges keep their times, and more are taken of each line.
LEMMA FetchedGrows ==
  ASSUME IInv, [Next]_vars, NEW l \in Lines
  PROVE  /\ Fetched(l) \in Nat /\ Fetched(l)' \in Nat /\ Fetched(l) <= Fetched(l)'
         /\ PollHal \/ Fetched(l)' = Fetched(l)
         /\ UNCHANGED <<edges, kq>> \/ (\E k \in Lines : Happen(k)) => Fetched(l)' = Fetched(l)
<1>1. PathType /\ Kernel
  BY DEF IInv, TypeOK
<1>2. Fetched(l) \in Nat
  BY <1>1, TimeIs
<1>3. ASSUME UNCHANGED <<edges, kq>> PROVE Fetched(l)' = Fetched(l)
  BY <1>3 DEF Fetched
<1>4. ASSUME NEW k \in Lines, Happen(k) PROVE Fetched(l)' = Fetched(l)
  <2>1. CASE l # k
    <3>1. edges'[l] = edges[l] /\ kq'[l] = kq[l]
      BY <1>1, <1>4, <2>1 DEF Happen, PathType
    <3> QED
      BY <3>1 DEF Fetched
  <2>2. CASE l = k
    <3>1. edges'[l] = Append(edges[l], now) /\ kq'[l] = Append(kq[l], Edge(l, Len(edges[l]) + 1))
      BY <1>1, <1>4, <2>2 DEF Happen, PathType
    <3>2. edges[l] \in Seq(Nat) /\ kq[l] \in Seq(AnyEdge)
      BY <1>1 DEF PathType
    <3>3. Len(edges'[l]) = Len(edges[l]) + 1 /\ Len(kq'[l]) = Len(kq[l]) + 1
          /\ Len(edges[l]) \in Nat /\ Len(kq[l]) \in Nat
      BY <3>1, <3>2
    <3>4. \A a, b \in Nat : (a + 1) - (b + 1) = a - b
      OBVIOUS
    <3> QED
      BY <3>3, <3>4, Zenon DEF Fetched
  <2> QED
    BY <2>1, <2>2
<1>5. ASSUME PollHal PROVE Fetched(l)' \in Nat /\ Fetched(l) <= Fetched(l)'
  BY <1>1, <1>5, PollHalIs
<1>6. UNCHANGED <<edges, kq>> \/ (\E k \in Lines : Happen(k)) \/ PollHal
  BY Steps DEF vars, path, kernel, Tick, StoreLevel, StoreSince, PushEv, PushTev
<1> QED
  BY <1>2, <1>3, <1>4, <1>5, <1>6

\* An edge that has happened stays as it is.
LEMMA EdgesStay ==
  ASSUME IInv, [Next]_vars, NEW l \in Lines
  PROVE  /\ Len(edges[l]) \in Nat /\ Len(edges'[l]) \in Nat /\ Len(edges[l]) <= Len(edges'[l])
         /\ DOMAIN edges[l] = 1 .. Len(edges[l]) /\ DOMAIN edges'[l] = 1 .. Len(edges'[l])
         /\ \A n \in 1 .. Len(edges[l]) : n \in 1 .. Len(edges'[l]) /\ edges'[l][n] = edges[l][n]
<1>1. PathType
  BY DEF IInv, TypeOK
<1>2. edges[l] \in Seq(Nat) /\ now \in Nat
  BY <1>1 DEF PathType
<1>3. Len(edges[l]) \in Nat /\ DOMAIN edges[l] = 1 .. Len(edges[l])
  BY <1>2
<1>4. CASE edges' = edges
  BY <1>3, <1>4
<1>5. ASSUME NEW k \in Lines, Happen(k)
      PROVE  edges'[l] = edges[l] \/ edges'[l] = Append(edges[l], now)
  BY <1>1, <1>5 DEF Happen, PathType
<1>6. edges' = edges \/ \E k \in Lines : Happen(k)
  BY Steps DEF vars, path, kernel, Tick, StoreLevel, StoreSince, PushEv, PushTev, PollHal
<1>7. CASE edges'[l] = edges[l]
  BY <1>3, <1>7
<1>8. CASE edges'[l] = Append(edges[l], now)
  <2>1. Len(edges'[l]) = Len(edges[l]) + 1 /\ DOMAIN edges'[l] = 1 .. Len(edges'[l])
        /\ \A n \in 1 .. Len(edges[l]) : edges'[l][n] = edges[l][n]
    BY <1>2, <1>8
  <2> QED
    BY <1>3, <2>1
<1> QED
  BY <1>4, <1>5, <1>6, <1>7, <1>8, Zenon

\* An edge whose level is not stored is the next of its line.
LEMMA NextToStore ==
  ASSUME PathType, Queues, Batch, spc \in {"level", "levelLast"}
  PROVE  LET e == Head(batch) IN
         e = batch[1] /\ e.line \in Lines /\ e.num = level[e.line] + 1
<1> DEFINE e == Head(batch)
<1>1. e = batch[1] /\ e.line \in Lines /\ 1 \in DOMAIN batch
  BY InHand DEF PathType
<1>2. 1 \in ToStore
  BY <1>1 DEF ToStore, Stored
<1>3. e.num = level[e.line] + 1 \/ \E j \in 1 .. 1 - 1 : batch[j] = Edge(e.line, e.num - 1)
  BY <1>1, <1>2, Zenon DEF Batch
<1>4. ~ \E j \in 1 .. 1 - 1 : TRUE
  OBVIOUS
<1> QED
  BY <1>1, <1>3, <1>4, Zenon

\* A line's level becomes the number of its next edge.
LEMMA StoreLevelIs ==
  ASSUME PathType, Queues, Batch, StoreLevel
  PROVE  LET e == Head(batch) IN
         /\ e = batch[1] /\ e.line \in Lines /\ e.num = level[e.line] + 1
         /\ level'[e.line] = e.num
         /\ \A l \in Lines : l # e.line => level'[l] = level[l]
<1> DEFINE e == Head(batch)
<1>1. spc \in {"level", "levelLast"} /\ level' = [level EXCEPT ![e.line] = e.num]
  BY DEF StoreLevel
<1>2. e = batch[1] /\ e.line \in Lines /\ e.num = level[e.line] + 1
  BY <1>1, NextToStore
<1>3. level'[e.line] = e.num /\ \A l \in Lines : l # e.line => level'[l] = level[l]
  BY <1>1, <1>2 DEF PathType
<1> QED
  BY <1>2, <1>3

\* A line's level never goes back, nor beyond what was taken.
LEMMA LevelGrows ==
  ASSUME IInv, [Next]_vars, NEW l \in Lines
  PROVE  /\ level[l] \in Nat /\ level'[l] \in Nat /\ level[l] <= level'[l]
         /\ level'[l] <= Fetched(l)'
<1>1. PathType /\ Queues /\ Batch
  BY DEF IInv, TypeOK
<1>2. /\ level[l] \in Nat /\ level[l] <= Fetched(l)
      /\ Fetched(l) \in Nat /\ Fetched(l)' \in Nat /\ Fetched(l) <= Fetched(l)'
  BY <1>1, FetchedGrows DEF PathType, Queues
<1>3. CASE level' = level
  BY <1>2, <1>3
<1>4. CASE StoreLevel
  <2> DEFINE e == Head(batch)
  <2>1. /\ e.line \in Lines /\ e.num = level[e.line] + 1
        /\ level'[e.line] = e.num
        /\ \A k \in Lines : k # e.line => level'[k] = level[k]
    BY <1>1, <1>4, StoreLevelIs
  <2>2. e.num \in 1 .. Fetched(e.line)
    BY <1>1, <1>4, InHand DEF StoreLevel
  <2> HIDE DEF e
  <2>3. CASE l = e.line
    BY <1>2, <2>1, <2>2, <2>3
  <2>4. CASE l # e.line
    BY <1>2, <2>1, <2>4
  <2> QED
    BY <2>3, <2>4
<1>5. level' = level \/ StoreLevel
  BY Steps DEF vars, path, sampler, Tick, Happen, StoreSince, PushEv, PushTev, PollHal
<1> QED
  BY <1>3, <1>4, <1>5
-----------------------------------------------------------------------------
(* The queues *)

\* What the ends of a sequence and its changes hold was in it before.
LEMMA Ends ==
  ASSUME NEW q \in Seq(AnyEdge)
  PROVE  /\ DOMAIN q = 1 .. Len(q)
         /\ \A e : \A i \in DOMAIN Append(q, e) :
              Append(q, e)[i] = e \/ \E j \in DOMAIN q : Append(q, e)[i] = q[j]
         /\ q # <<>> => \E j \in DOMAIN q : Head(q) = q[j]
         /\ q # <<>> => \A i \in DOMAIN Tail(q) : \E j \in DOMAIN q : Tail(q)[i] = q[j]
         /\ \A k \in DOMAIN q : \A i \in DOMAIN RemoveAt(q, k) :
              \E j \in DOMAIN q : RemoveAt(q, k)[i] = q[j]
<1>1. DOMAIN q = 1 .. Len(q) /\ Len(q) \in Nat
  OBVIOUS
<1>2. ASSUME NEW e, NEW i \in DOMAIN Append(q, e)
      PROVE  Append(q, e)[i] = e \/ \E j \in DOMAIN q : Append(q, e)[i] = q[j]
  <2>1. DOMAIN Append(q, e) = 1 .. Len(q) + 1 /\ Append(q, e)[Len(q) + 1] = e
        /\ \A j \in 1 .. Len(q) : Append(q, e)[j] = q[j]
    OBVIOUS
  <2> QED
    BY <1>1, <2>1
<1>3. ASSUME q # <<>> PROVE \E j \in DOMAIN q : Head(q) = q[j]
  <2>1. 1 \in DOMAIN q /\ Head(q) = q[1]
    BY <1>1, <1>3
  <2> QED
    BY <2>1
<1>4. ASSUME q # <<>>, NEW i \in DOMAIN Tail(q) PROVE \E j \in DOMAIN q : Tail(q)[i] = q[j]
  <2>1. i + 1 \in DOMAIN q /\ Tail(q)[i] = q[i + 1]
    BY <1>1, <1>4
  <2> QED
    BY <2>1
<1>5. ASSUME NEW k \in DOMAIN q, NEW i \in DOMAIN RemoveAt(q, k)
      PROVE  \E j \in DOMAIN q : RemoveAt(q, k)[i] = q[j]
  <2> DEFINE a == SubSeq(q, 1, k - 1)
             b == SubSeq(q, k + 1, Len(q))
  <2>1. k \in 1 .. Len(q) /\ k - 1 \in Nat /\ k + 1 \in Nat
    BY <1>1
  <2>2. RemoveAt(q, k) = a \o b
    BY <2>1, Around
  <2>3. a \in Seq(AnyEdge) /\ Len(a) = k - 1 /\ \A j \in 1 .. k - 1 : a[j] = q[j]
    BY <1>1, <2>1, SubSeqProperties
  <2>4. b \in Seq(AnyEdge) /\ Len(b) = Len(q) - k /\ \A j \in 1 .. Len(q) - k : b[j] = q[k + j]
    BY <1>1, <2>1, SubSeqProperties, SMTT(30)
  <2> HIDE DEF a, b
  <2>5. DOMAIN (a \o b) = 1 .. Len(q) - 1
        /\ \A j \in 1 .. Len(q) - 1 : (a \o b)[j] = IF j <= k - 1 THEN a[j] ELSE b[j - (k - 1)]
    <3>1. /\ a \o b \in Seq(AnyEdge) /\ Len(a \o b) = Len(a) + Len(b)
          /\ \A j \in 1 .. Len(a) + Len(b) :
               (a \o b)[j] = IF j <= Len(a) THEN a[j] ELSE b[j - Len(a)]
      BY <2>3, <2>4, ConcatProperties
    <3>2. Len(a) + Len(b) = Len(q) - 1
      BY <1>1, <2>1, <2>3, <2>4
    <3>3. DOMAIN (a \o b) = 1 .. Len(a \o b)
      BY <3>1
    <3> QED
      BY <2>3, <3>1, <3>2, <3>3, Zenon
  <2>6. i \in 1 .. Len(q) - 1
    BY <2>2, <2>5
  <2>7. CASE i <= k - 1
    <3>1. i \in 1 .. k - 1 /\ i \in 1 .. Len(q)
      BY <1>1, <2>1, <2>6, <2>7
    <3>2. (a \o b)[i] = a[i]
      BY <2>5, <2>6, <2>7, Zenon
    <3> QED
      BY <1>1, <2>2, <2>3, <3>1, <3>2, Zenon
  <2>8. CASE i > k - 1
    <3>1. \A n \in Nat : \A x \in 1 .. n, y \in 1 .. n - 1 :
            y > x - 1 => y - (x - 1) \in 1 .. n - x /\ x + (y - (x - 1)) \in 1 .. n
                         /\ ~ (y <= x - 1)
      OBVIOUS
    <3>2. (a \o b)[i] = b[i - (k - 1)]
      BY <1>1, <2>1, <2>5, <2>6, <2>8, <3>1, Zenon
    <3>3. i - (k - 1) \in 1 .. Len(q) - k /\ k + (i - (k - 1)) \in 1 .. Len(q)
      BY <1>1, <2>1, <2>6, <2>8, <3>1, Zenon
    <3>4. b[i - (k - 1)] = q[k + (i - (k - 1))]
      BY <2>4, <3>3, Zenon
    <3> QED
      BY <1>1, <2>2, <3>2, <3>3, <3>4, Zenon
  <2> QED
    BY <2>1, <2>6, <2>7, <2>8
<1> QED
  BY <1>1, <1>2, <1>3, <1>4, <1>5

\* What one queue has once the first of another is appended.
LEMMA Appended ==
  ASSUME NEW q \in Seq(AnyEdge), NEW r \in Seq(AnyEdge), r # <<>>, NEW w,
         w = Append(q, Head(r))
  PROVE  \A i \in DOMAIN w : \/ \E j \in DOMAIN q : w[i] = q[j]
                            \/ \E j \in DOMAIN r : w[i] = r[j]
<1>1. \A i \in DOMAIN w : w[i] = Head(r) \/ \E j \in DOMAIN q : w[i] = q[j]
  BY Ends
<1>2. \E j \in DOMAIN r : Head(r) = r[j]
  BY Ends
<1> QED
  BY <1>1, <1>2, Zenon

\* An edge dealt with goes from the host's array to its history.
LEMMA DealIs ==
  ASSUME HostType, got # <<>>, NEW ok \in BOOLEAN, NEW press \in Nat,
         handled' = Deal(Head(got), ok, press)
  PROVE  /\ Dealt' = Append(Dealt, Head(got))
         /\ Len(handled) \in Nat /\ DOMAIN handled = 1 .. Len(handled)
         /\ DOMAIN handled' = 1 .. Len(handled) + 1
         /\ \A i \in 1 .. Len(handled) : handled'[i] = handled[i]
         /\ handled'[Len(handled) + 1] =
              [line |-> Head(got).line, num |-> Head(got).num, ok |-> ok, press |-> press]
         /\ handled' # handled /\ Last(handled') = handled'[Len(handled) + 1]
<1> DEFINE m == [line |-> Head(got).line, num |-> Head(got).num, ok |-> ok, press |-> press]
           h == Len(handled)
<1>1. Head(got) \in AnyEdge /\ Head(got) = Edge(Head(got).line, Head(got).num)
  <2>1. Head(got) \in AnyEdge
    BY Move DEF HostType
  <2> QED
    BY <2>1 DEF AnyEdge, Edge
<1>2. handled \in Seq(Message) /\ handled' = Append(handled, m)
  BY DEF HostType, Deal
<1>3. /\ h \in Nat /\ DOMAIN handled = 1 .. h /\ Len(handled') = h + 1
      /\ DOMAIN handled' = 1 .. h + 1
      /\ \A i \in 1 .. h : handled'[i] = handled[i]
      /\ handled'[h + 1] = m
  <2> HIDE DEF m
  <2> QED
    BY <1>2
<1>4. m.line = Head(got).line /\ m.num = Head(got).num
  OBVIOUS
<1> HIDE DEF m, h
<1>5. Dealt' = [i \in 1 .. h + 1 |-> Edge(handled'[i].line, handled'[i].num)]
  BY <1>3, Zenon DEF Dealt
<1>6. Dealt \in Seq(AnyEdge) /\ Len(Dealt) = h
      /\ Dealt = [i \in 1 .. h |-> Edge(handled[i].line, handled[i].num)]
  BY <1>3, DealtIs DEF Dealt, h
<1>7. Dealt' = Append(Dealt, Head(got))
  <2> DEFINE a == Append(Dealt, Head(got))
  <2>1. a \in Seq(AnyEdge) /\ Len(a) = h + 1 /\ a[h + 1] = Head(got)
        /\ \A i \in 1 .. h : a[i] = Dealt[i]
    BY <1>1, <1>3, <1>6, AppendProperties
  <2>2. \A i \in 1 .. h : a[i] = Edge(handled'[i].line, handled'[i].num)
    BY <1>3, <1>6, <2>1
  <2>3. a[h + 1] = Edge(handled'[h + 1].line, handled'[h + 1].num)
    BY <1>1, <1>3, <1>4, <2>1
  <2>4. ASSUME NEW i \in 1 .. h + 1 PROVE a[i] = Edge(handled'[i].line, handled'[i].num)
    <3>1. i \in 1 .. h \/ i = h + 1
      BY <1>3
    <3> QED
      BY <2>2, <2>3, <3>1, Zenon
  <2> HIDE DEF a
  <2>5. a = [i \in 1 .. h + 1 |-> a[i]]
    BY <2>1
  <2>6. a = [i \in 1 .. h + 1 |-> Edge(handled'[i].line, handled'[i].num)]
    BY <2>4, <2>5
  <2> QED
    BY <1>5, <2>6 DEF a
<1>8. handled' # handled
  <2>1. h + 1 # h
    BY <1>3
  <2>2. Len(handled) = h
    BY DEF h
  <2> QED
    BY <1>3, <2>1, <2>2, Zenon
<1>9. Last(handled') = handled'[h + 1]
  BY <1>3 DEF Last
<1> QED
  BY <1>3, <1>7, <1>8, <1>9 DEF m, h

\* What a host's step does to the edges that it gets and deals with.
LEMMA HostMoves ==
  ASSUME HostType, Asking, Host
  PROVE  \/ UNCHANGED <<ev, got, handled>>
         \/ ev # <<>> /\ ev' = Tail(ev) /\ got' = Append(got, Head(ev)) /\ handled' = handled
         \/ Head(got).line \notin Buttons /\ got # <<>> /\ got' = Tail(got)
            /\ UNCHANGED <<ev, handled>> /\ hpc = "events"
         \/ got # <<>> /\ got' = Tail(got) /\ ev' = ev
            /\ \E ok \in BOOLEAN, press \in Nat : handled' = Deal(Head(got), ok, press)
<1>1. CASE Wake \/ DrainDone \/ AllDone \/ AskRelease \/ (\E b \in Buttons : Ask(b))
           \/ LoadLevel \/ LoadSince
  BY <1>1 DEF Wake, DrainDone, AllDone, AskRelease, Ask, LoadLevel, LoadSince
<1>2. CASE DrainOne
  BY <1>2 DEF DrainOne
<1>3. CASE Skip
  BY <1>3 DEF Skip
<1>4. 0 \in Nat /\ TRUE \in BOOLEAN
  OBVIOUS
<1>5. CASE SendPress
  BY <1>4, <1>5, Zenon DEF SendPress
<1>6. CASE SendNote
  <2>1. (~ Refused(Head(got))) \in BOOLEAN
    BY Zenon
  <2> QED
    BY <1>4, <1>6, <2>1, Zenon DEF SendNote
<1>7. CASE Answer
  <2>1. CASE setup.host = "pd"
    <3>1. got # <<>> /\ since \in Nat
      BY <1>7, <2>1, Zenon DEF Answer, Asking, HostType
    <3> QED
      BY <1>4, <1>7, <2>1, <3>1, Zenon DEF Answer
  <2>2. CASE setup.host # "pd"
    BY <1>7, <2>2 DEF Answer
  <2> QED
    BY <2>1, <2>2
<1> QED
  BY <1>1, <1>2, <1>3, <1>5, <1>6, <1>7 DEF Host

\* Every step keeps the queues to the edges taken or published.
LEMMA QueuesStep ==
  ASSUME IInv, [Next]_vars PROVE Queues'
<1>1. PathType /\ AudioType /\ HostType /\ Kernel /\ Queues /\ Batch /\ Asking
  BY DEF IInv, TypeOK
<1>2. Lines' = Lines
  BY SetupStays
<1>3. ASSUME NEW l \in Lines, NEW n \in 1 .. Fetched(l) PROVE n \in 1 .. Fetched(l)'
  BY <1>3, FetchedGrows
<1>4. ASSUME NEW l \in Lines, NEW n \in 1 .. level[l] PROVE n \in 1 .. level'[l]
  BY <1>4, LevelGrows
<1>5. \A l \in Lines : level'[l] <= Fetched(l)'
  BY LevelGrows
<1>6. Real(batch) /\ Real(tev) /\ Real(held)
      /\ Published(ev) /\ Published(polled) /\ Published(got) /\ Published(Dealt)
  BY <1>1 DEF Queues
<1>7. batch \in Seq(AnyEdge) /\ tev \in Seq(AnyEdge) /\ held \in Seq(AnyEdge)
      /\ ev \in Seq(AnyEdge) /\ polled \in Seq(AnyEdge) /\ got \in Seq(AnyEdge)
      /\ Dealt \in Seq(AnyEdge)
  BY <1>1, DealtIs DEF PathType, AudioType, HostType
<1>8. Real(batch)'
  <2>1. CASE batch' = batch
    BY <1>2, <1>3, <1>6, <2>1 DEF Real, Fetched
  <2>2. CASE batch # <<>> /\ batch' = Tail(batch)
    <3>1. \A i \in DOMAIN batch' : \E j \in DOMAIN batch : batch'[i] = batch[j]
      BY <1>7, <2>2, Ends, Zenon
    <3> QED
      BY <1>2, <1>3, <1>6, <3>1, Zenon DEF Real, Fetched
  <2>3. CASE PollHal
    <3>1. ASSUME NEW i \in DOMAIN batch'
          PROVE  \E l \in Lines : batch'[i].line = l /\ batch'[i].num \in 1 .. Fetched(l)'
      <4>1. DOMAIN batch' = 1 .. Len(batch')
        BY <1>1, <2>3, PollHalIs
      <4>2. /\ batch'[i].line \in Lines
            /\ \A l \in Lines : batch'[i].line = l
                               => batch'[i].num \in Fetched(l) + 1 .. Fetched(l)'
        BY <1>1, <2>3, <4>1, PollHalIs
      <4>3. \A l \in Lines : Fetched(l) \in Nat /\ Fetched(l)' \in Nat
        BY FetchedGrows
      <4> QED
        BY <4>2, <4>3
    <3> QED
      BY <1>2, <3>1, Zenon DEF Real, Fetched
  <2>4. batch' = batch \/ (batch # <<>> /\ batch' = Tail(batch)) \/ PollHal
    BY <1>1, InHand, Steps
       DEF vars, path, sampler, Tick, Happen, StoreLevel, StoreSince, PushEv, PushTev, CountEvent
  <2> QED
    BY <2>1, <2>2, <2>3, <2>4
<1>9. Real(tev)'
  <2>1. CASE tev' = tev
    BY <1>2, <1>3, <1>6, <2>1 DEF Real, Fetched
  <2>2. CASE batch # <<>> /\ tev' = Append(tev, Head(batch))
    <3>1. \A w : w = Append(tev, Head(batch)) =>
           \A i \in DOMAIN w : \/ \E j \in DOMAIN tev : w[i] = tev[j]
                              \/ \E j \in DOMAIN batch : w[i] = batch[j]
      BY <1>7, <2>2, Appended
    <3>2. \A i \in DOMAIN tev' : \/ \E j \in DOMAIN tev : tev'[i] = tev[j]
                                 \/ \E j \in DOMAIN batch : tev'[i] = batch[j]
      BY <2>2, <3>1
    <3> QED
      BY <1>2, <1>3, <1>6, <3>2, Zenon DEF Real, Fetched
  <2>3. CASE tev # <<>> /\ tev' = Tail(tev)
    <3>1. \A i \in DOMAIN tev' : \E j \in DOMAIN tev : tev'[i] = tev[j]
      BY <1>7, <2>3, Ends, Zenon
    <3> QED
      BY <1>2, <1>3, <1>6, <3>1, Zenon DEF Real, Fetched
  <2>4. \/ tev' = tev \/ (batch # <<>> /\ tev' = Append(tev, Head(batch)))
        \/ tev # <<>> /\ tev' = Tail(tev)
    BY <1>1, InHand, Steps
       DEF vars, path, sampler, Tick, Happen, PollHal, StoreLevel, StoreSince, PushEv, PushTev,
           Audio, PollEvents, TriggerBlock, DrainHeld, StartLevels, PlaceEdge, BlockDone
  <2> QED
    BY <2>1, <2>2, <2>3, <2>4
<1>10. Real(held)'
  <2>1. CASE held' = held
    BY <1>2, <1>3, <1>6, <2>1 DEF Real, Fetched
  <2>2. CASE tev # <<>> /\ held' = Append(held, Head(tev))
    <3>1. \A w : w = Append(held, Head(tev)) =>
           \A i \in DOMAIN w : \/ \E j \in DOMAIN held : w[i] = held[j]
                              \/ \E j \in DOMAIN tev : w[i] = tev[j]
      BY <1>7, <2>2, Appended
    <3>2. \A i \in DOMAIN held' : \/ \E j \in DOMAIN held : held'[i] = held[j]
                                  \/ \E j \in DOMAIN tev : held'[i] = tev[j]
      BY <2>2, <3>1
    <3> QED
      BY <1>2, <1>3, <1>6, <3>2, Zenon DEF Real, Fetched
  <2>3. ASSUME NEW k \in DOMAIN held, held' = RemoveAt(held, k) PROVE Real(held)'
    <3>1. \A i \in DOMAIN held' : \E j \in DOMAIN held : held'[i] = held[j]
      BY <1>7, <2>3, Ends, Zenon
    <3> QED
      BY <1>2, <1>3, <1>6, <3>1, Zenon DEF Real, Fetched
  <2>4. \/ held' = held \/ (tev # <<>> /\ held' = Append(held, Head(tev)))
        \/ \E k \in DOMAIN held : held' = RemoveAt(held, k)
    BY Steps DEF vars, audio, Audio, PollEvents, TriggerBlock, DrainHeld, StartLevels,
                 PlaceEdge, BlockDone
  <2> QED
    BY <2>1, <2>2, <2>3, <2>4
<1>11. Published(ev)'
  <2>1. CASE ev' = ev
    BY <1>2, <1>4, <1>6, <2>1 DEF Published
  <2>2. CASE PushEv /\ ev' = Append(ev, Head(batch))
    <3>1. spc = "ev" /\ Stored
      BY <2>2 DEF PushEv, Stored
    <3>2. Head(batch).line \in Lines /\ Head(batch).num \in 1 .. Fetched(Head(batch).line)
      BY <1>1, <3>1, InHand
    <3>3. level[Head(batch).line] = Head(batch).num /\ level[Head(batch).line] \in Nat
      BY <1>1, <3>1, <3>2 DEF Batch, PathType
    <3>4. Head(batch).num \in 1 .. level[Head(batch).line]
      BY <3>2, <3>3
    <3>5. \A w : w = Append(ev, Head(batch)) =>
            \A i \in DOMAIN w : w[i] = Head(batch) \/ \E j \in DOMAIN ev : w[i] = ev[j]
      BY <1>7, Ends
    <3>6. \A i \in DOMAIN ev' : ev'[i] = Head(batch) \/ \E j \in DOMAIN ev : ev'[i] = ev[j]
      BY <2>2, <3>5
    <3> QED
      BY <1>2, <1>4, <1>6, <3>2, <3>4, <3>6, Zenon DEF Published
  <2>3. CASE ev # <<>> /\ ev' = Tail(ev)
    <3>1. \A i \in DOMAIN ev' : \E j \in DOMAIN ev : ev'[i] = ev[j]
      BY <1>7, <2>3, Ends, Zenon
    <3> QED
      BY <1>2, <1>4, <1>6, <3>1, Zenon DEF Published
  <2>4. \/ ev' = ev \/ (PushEv /\ ev' = Append(ev, Head(batch)))
        \/ ev # <<>> /\ ev' = Tail(ev)
    BY <1>1, HostMoves, Steps
       DEF vars, path, Tick, Happen, PollHal, StoreLevel, StoreSince, PushEv, PushTev,
           Audio, PollEvents, TriggerBlock, DrainHeld, StartLevels, PlaceEdge, BlockDone
  <2> QED
    BY <2>1, <2>2, <2>3, <2>4
<1>12. Published(polled)'
  <2>1. CASE polled' = polled
    BY <1>2, <1>4, <1>6, <2>1 DEF Published
  <2>2. CASE ev # <<>> /\ polled' = Append(polled, Head(ev))
    <3>1. \A w : w = Append(polled, Head(ev)) =>
           \A i \in DOMAIN w : \/ \E j \in DOMAIN polled : w[i] = polled[j]
                              \/ \E j \in DOMAIN ev : w[i] = ev[j]
      BY <1>7, <2>2, Appended
    <3>2. \A i \in DOMAIN polled' : \/ \E j \in DOMAIN polled : polled'[i] = polled[j]
                                    \/ \E j \in DOMAIN ev : polled'[i] = ev[j]
      BY <2>2, <3>1
    <3> QED
      BY <1>2, <1>4, <1>6, <3>2, Zenon DEF Published
  <2>3. polled' = polled \/ (ev # <<>> /\ polled' = Append(polled, Head(ev)))
    BY Steps DEF vars, Audio, PollEvents, TriggerBlock, DrainHeld, StartLevels, PlaceEdge,
                 BlockDone
  <2> QED
    BY <2>1, <2>2, <2>3
<1>13. UNCHANGED poller \/ Host
  BY Steps DEF vars
<1>14. Published(got)'
  <2>1. CASE got' = got
    BY <1>2, <1>4, <1>6, <2>1 DEF Published
  <2>2. CASE ev # <<>> /\ got' = Append(got, Head(ev))
    <3>1. \A w : w = Append(got, Head(ev)) =>
           \A i \in DOMAIN w : \/ \E j \in DOMAIN got : w[i] = got[j]
                              \/ \E j \in DOMAIN ev : w[i] = ev[j]
      BY <1>7, <2>2, Appended
    <3>2. \A i \in DOMAIN got' : \/ \E j \in DOMAIN got : got'[i] = got[j]
                                 \/ \E j \in DOMAIN ev : got'[i] = ev[j]
      BY <2>2, <3>1
    <3> QED
      BY <1>2, <1>4, <1>6, <3>2, Zenon DEF Published
  <2>3. CASE got # <<>> /\ got' = Tail(got)
    <3>1. \A i \in DOMAIN got' : \E j \in DOMAIN got : got'[i] = got[j]
      BY <1>7, <2>3, Ends, Zenon
    <3> QED
      BY <1>2, <1>4, <1>6, <3>1, Zenon DEF Published
  <2> QED
    BY <1>1, <1>13, <2>1, <2>2, <2>3, HostMoves DEF poller
<1>15. Published(Dealt)'
  <2>1. CASE handled' = handled
    <3>1. Dealt' = Dealt
      BY <2>1, Zenon DEF Dealt
    <3> QED
      BY <1>2, <1>4, <1>6, <3>1 DEF Published
  <2>2. ASSUME got # <<>>, NEW ok \in BOOLEAN, NEW press \in Nat,
               handled' = Deal(Head(got), ok, press)
        PROVE  Published(Dealt)'
    <3>1. Dealt' = Append(Dealt, Head(got))
      BY <1>1, <2>2, DealIs
    <3>2. \A w : w = Append(Dealt, Head(got)) =>
           \A i \in DOMAIN w : \/ \E j \in DOMAIN Dealt : w[i] = Dealt[j]
                              \/ \E j \in DOMAIN got : w[i] = got[j]
      BY <1>7, <2>2, Appended
    <3>3. \A i \in DOMAIN Dealt' : \/ \E j \in DOMAIN Dealt : Dealt'[i] = Dealt[j]
                                   \/ \E j \in DOMAIN got : Dealt'[i] = got[j]
      BY <2>2, <3>2, <3>1
    <3> QED
      BY <1>2, <1>4, <1>6, <3>3, Zenon DEF Published
  <2> QED
    BY <1>1, <1>13, <2>1, <2>2, HostMoves DEF poller
<1> QED
  BY <1>2, <1>5, <1>8, <1>9, <1>10, <1>11, <1>12, <1>14, <1>15 DEF Queues, Fetched
-----------------------------------------------------------------------------
(* The batch *)

\* A new batch goes on where the one before it ended.
LEMMA BatchPolled ==
  ASSUME PathType, Queues, Batch, Kernel, PollHal, Lines' = Lines PROVE Batch'
<1>1. /\ edges' = edges /\ level' = level
      /\ spc = "poll" /\ spc' = (IF batch' = <<>> THEN "poll" ELSE "level")
  BY DEF PollHal
<1>2. batch' \in Seq(AnyEdge) /\ DOMAIN batch' = 1 .. Len(batch') /\ Len(batch') \in Nat
  BY PollHalIs
<1>3. batch = <<>> /\ DOMAIN <<>> = {}
  <2>1. spc = "poll" <=> batch = <<>>
    BY Zenon DEF Batch
  <2> QED
    BY <1>1, <2>1
<1>4. ASSUME NEW l \in Lines PROVE level[l] = Fetched(l) /\ level[l] \in Nat
  <2>1. level[l] = Fetched(l) \/ \E i \in DOMAIN batch : batch[i] = Edge(l, Fetched(l))
    BY Zenon DEF Batch
  <2> QED
    BY <1>3, <2>1 DEF PathType
<1>5. \A l \in Lines :
        /\ Fetched(l) \in Nat /\ Fetched(l)' \in Nat /\ Fetched(l) <= Fetched(l)'
        /\ InOrder(l, batch')
        /\ \A n \in Fetched(l) + 1 .. Fetched(l)' :
             \E i \in 1 .. Len(batch') : batch'[i] = Edge(l, n)
  BY PollHalIs
<1>6. ToStore' = 1 .. Len(batch') /\ ~ Stored'
  BY <1>1, <1>2 DEF ToStore, Stored
<1>7. ASSUME NEW i \in 1 .. Len(batch')
      PROVE  /\ level'[batch'[i].line] < batch'[i].num
             /\ \/ batch'[i].num = level'[batch'[i].line] + 1
                \/ \E j \in 1 .. i - 1 : batch'[j] = Edge(batch'[i].line, batch'[i].num - 1)
  <2>1. PICK l \in Lines : batch'[i].line = l
    BY PollHalIs
  <2>2. PICK n \in Fetched(l) + 1 .. Fetched(l)' : batch'[i].num = n
    BY <2>1, PollHalIs
  <2>3. level'[l] = Fetched(l) /\ Fetched(l) \in Nat /\ Fetched(l)' \in Nat
    BY <1>1, <1>4, <1>5
  <2>4. CASE n = Fetched(l) + 1
    BY <2>1, <2>2, <2>3, <2>4
  <2>5. CASE n # Fetched(l) + 1
    <3>1. n - 1 \in Fetched(l) + 1 .. Fetched(l)' /\ Fetched(l) < n /\ n - 1 \in Nat
      BY <2>3, <2>5
    <3>2. PICK j \in 1 .. Len(batch') : batch'[j] = Edge(l, n - 1)
      BY <1>5, <3>1
    <3>3. batch'[j].line = l /\ batch'[j].num = n - 1
      BY <3>2 DEF Edge
    <3>4. \A a, b \in DOMAIN batch' :
            a < b /\ batch'[a].line = l /\ batch'[b].line = l => batch'[a].num < batch'[b].num
      BY <1>5, Zenon DEF InOrder
    <3>5. ~ (i < j)
      <4>1. i < j => n < n - 1
        BY <1>2, <2>1, <2>2, <3>3, <3>4
      <4> QED
        BY <3>1, <4>1
    <3>6. i # j
      BY <2>2, <3>1, <3>3
    <3>7. j \in 1 .. i - 1
      BY <1>2, <3>5, <3>6
    <3> QED
      BY <2>1, <2>2, <2>3, <3>1, <3>2, <3>7
  <2> QED
    BY <2>4, <2>5
<1>8. ASSUME NEW l \in Lines
      PROVE  level'[l] = Fetched(l)' \/ \E i \in DOMAIN batch' : batch'[i] = Edge(l, Fetched(l)')
  <2>1. CASE Fetched(l)' = Fetched(l)
    BY <1>1, <1>4, <2>1
  <2>2. CASE Fetched(l)' # Fetched(l)
    <3>1. Fetched(l)' \in Fetched(l) + 1 .. Fetched(l)'
      BY <1>5, <2>2
    <3> QED
      BY <1>2, <1>5, <3>1, Zenon
  <2> QED
    BY <2>1, <2>2
<1>9. spc' = "poll" <=> batch' = <<>>
  BY <1>1
<1>10. spc' \notin {"levelLast", "since"} /\ spc' # "tev"
  BY <1>1
<1> QED
  BY <1>5, <1>6, <1>7, <1>8, <1>9, <1>10, Zenon DEF Batch, Fetched

\* The batch's first edge is stored.
LEMMA BatchStored ==
  ASSUME PathType, Kernel, Queues, Batch, StoreLevel, Lines' = Lines, Buttons' = Buttons,
         kq' = kq, edges' = edges
  PROVE  Batch'
<1> DEFINE e == Head(batch)
<1>1. spc \in {"level", "levelLast"} /\ batch' = batch /\ spc' = AfterLevel
  BY DEF StoreLevel
<1>2. /\ e = batch[1] /\ e.line \in Lines /\ e.num = level[e.line] + 1
      /\ level'[e.line] = e.num
      /\ \A l \in Lines : l # e.line => level'[l] = level[l]
  BY StoreLevelIs
<1>3. /\ batch # <<>> /\ e.num \in 1 .. Fetched(e.line)
      /\ Len(batch) \in Nat /\ Len(batch) >= 1
  BY <1>1, InHand
<1>4. DOMAIN batch = 1 .. Len(batch) /\ batch \in Seq(AnyEdge)
  BY DEF PathType
<1> HIDE DEF e
<1>6. spc' \in {"ev", "since"} /\ (spc' = "since" => e.line \in Buttons)
  BY <1>1 DEF AfterLevel, e
<1>7. \A l \in Lines : Fetched(l)' = Fetched(l)
  BY DEF Fetched
<1>8. ToStore' = 2 .. Len(batch) /\ ToStore = 1 .. Len(batch)
  BY <1>1, <1>3, <1>4, <1>6 DEF ToStore, Stored
<1>9. \A l \in Lines : InOrder(l, batch)
  BY Zenon DEF Batch
<1>10. ASSUME NEW i \in 2 .. Len(batch)
       PROVE  /\ level'[batch[i].line] < batch[i].num
              /\ \/ batch[i].num = level'[batch[i].line] + 1
                 \/ \E j \in 1 .. i - 1 : batch[j] = Edge(batch[i].line, batch[i].num - 1)
  <2>1. i \in 1 .. Len(batch) /\ 1 \in 1 .. Len(batch) /\ 1 < i
    BY <1>3
  <2>2. batch[i].line \in Lines
    BY <1>4, <2>1, Zenon DEF Queues, Real
  <2>3. /\ level[batch[i].line] < batch[i].num
        /\ \/ batch[i].num = level[batch[i].line] + 1
           \/ \E j \in 1 .. i - 1 : batch[j] = Edge(batch[i].line, batch[i].num - 1)
    BY <1>8, <2>1, Zenon DEF Batch
  <2>4. CASE batch[i].line # e.line
    BY <1>2, <2>2, <2>3, <2>4, Zenon
  <2>5. CASE batch[i].line = e.line
    <3>1. e.num < batch[i].num
      BY <1>2, <1>4, <1>9, <2>1, <2>5, Zenon DEF InOrder
    <3>2. level[e.line] \in Nat
      BY <1>2 DEF PathType
    <3>3. batch[i].num # level[batch[i].line] + 1
      BY <1>2, <2>5, <3>1, <3>2
    <3> QED
      BY <1>2, <2>3, <2>5, <3>1, <3>3, Zenon
  <2> QED
    BY <2>4, <2>5
<1>11. ASSUME NEW l \in Lines
       PROVE  level'[l] = Fetched(l) \/ \E i \in DOMAIN batch : batch[i] = Edge(l, Fetched(l))
  <2>1. level[l] = Fetched(l) \/ \E i \in DOMAIN batch : batch[i] = Edge(l, Fetched(l))
    BY Zenon DEF Batch
  <2>2. CASE l # e.line
    BY <1>2, <2>1, <2>2, Zenon
  <2>3. CASE l = e.line
    <3>1. level[l] \in Nat /\ Fetched(l) \in Nat
      BY TimeIs DEF PathType
    <3>2. level[l] # Fetched(l)
      BY <1>2, <1>3, <2>3, <3>1
    <3> QED
      BY <2>1, <3>2, Zenon
  <2> QED
    BY <2>2, <2>3
<1>12. spc' \in {"ev", "since"} /\ Head(batch') = e /\ spc' # "poll" /\ spc' # "tev"
  BY <1>1, <1>6 DEF e
<1>13. spc' \in {"levelLast", "since"} => e.line \in Buttons
  BY <1>6
<1> QED
  BY <1>1, <1>2, <1>3, <1>7, <1>8, <1>9, <1>10, <1>11, <1>12, <1>13, ZenonT(40) DEF Batch

\* The batch's first edge is done with.
LEMMA BatchRest ==
  ASSUME PathType, Queues, Batch, Stored, CountEvent, Lines' = Lines,
         kq' = kq, edges' = edges, level' = level
  PROVE  Batch'
<1> DEFINE e == Head(batch)
<1>1. batch' = Tail(batch) /\ spc' = IF batch' = <<>> THEN "poll" ELSE "level"
  BY DEF CountEvent
<1>2. spc # "poll"
  BY DEF Stored
<1>3. /\ Len(batch) >= 1 /\ Len(batch) \in Nat /\ e = batch[1]
      /\ e = Edge(e.line, e.num) /\ e.line \in Lines
      /\ batch' \in Seq(AnyEdge) /\ Len(batch') = Len(batch) - 1
      /\ \A i \in 1 .. Len(batch) - 1 : batch'[i] = batch[i + 1]
  BY <1>1, <1>2, InHand
<1>4. DOMAIN batch = 1 .. Len(batch) /\ DOMAIN batch' = 1 .. Len(batch) - 1
      /\ batch \in Seq(AnyEdge)
  BY <1>3 DEF PathType
<1>5. level[e.line] = e.num
  BY Zenon DEF Batch
<1> HIDE DEF e
<1>6. \A l \in Lines : Fetched(l)' = Fetched(l)
  BY DEF Fetched
<1>7. ToStore' = 1 .. Len(batch) - 1 /\ ToStore = 2 .. Len(batch) /\ ~ Stored'
  BY <1>1, <1>3, <1>4 DEF ToStore, Stored
<1>8. ASSUME NEW l \in Lines PROVE InOrder(l, batch')
  <2>1. InOrder(l, batch)
    BY Zenon DEF Batch
  <2> SUFFICES ASSUME NEW i \in 1 .. Len(batch) - 1, NEW j \in 1 .. Len(batch) - 1, i < j,
                      batch'[i].line = l, batch'[j].line = l
               PROVE  batch'[i].num < batch'[j].num
    BY <1>4, Zenon DEF InOrder
  <2>2. i + 1 \in DOMAIN batch /\ j + 1 \in DOMAIN batch /\ i + 1 < j + 1
    BY <1>3, <1>4
  <2> QED
    BY <1>3, <2>1, <2>2, Zenon DEF InOrder
<1>9. ASSUME NEW i \in 1 .. Len(batch) - 1
      PROVE  /\ level[batch'[i].line] < batch'[i].num
             /\ \/ batch'[i].num = level[batch'[i].line] + 1
                \/ \E j \in 1 .. i - 1 : batch'[j] = Edge(batch'[i].line, batch'[i].num - 1)
  <2>1. i + 1 \in 2 .. Len(batch) /\ batch'[i] = batch[i + 1] /\ i + 1 \in 1 .. Len(batch)
        /\ (i + 1) - 1 = i
    BY <1>3
  <2>2. /\ level[batch[i + 1].line] < batch[i + 1].num
        /\ \/ batch[i + 1].num = level[batch[i + 1].line] + 1
           \/ \E j \in 1 .. (i + 1) - 1 : batch[j] = Edge(batch[i + 1].line, batch[i + 1].num - 1)
    BY <1>7, <2>1, Zenon DEF Batch
  <2>3. batch'[i].num \in Nat
    <3>1. batch'[i] \in AnyEdge
      BY <1>3
    <3> QED
      BY <3>1 DEF AnyEdge
  <2>4. ASSUME NEW j \in 1 .. i, batch[j] = Edge(batch'[i].line, batch'[i].num - 1)
        PROVE  \/ batch'[i].num = level[batch'[i].line] + 1
               \/ \E k \in 1 .. i - 1 : batch'[k] = Edge(batch'[i].line, batch'[i].num - 1)
    <3>1. CASE j = 1
      <4>1. e.line = batch'[i].line /\ e.num = batch'[i].num - 1
        BY <1>3, <2>4, <3>1 DEF Edge
      <4> QED
        BY <1>5, <2>3, <4>1
    <3>2. CASE j > 1
      <4>1. j - 1 \in 1 .. i - 1 /\ j - 1 \in 1 .. Len(batch) - 1 /\ (j - 1) + 1 = j
        BY <1>3, <3>2
      <4>2. batch'[j - 1] = batch[j]
        BY <1>3, <4>1
      <4> QED
        BY <2>4, <4>1, <4>2
    <3> QED
      BY <3>1, <3>2
  <2> QED
    BY <2>1, <2>2, <2>4, Zenon
<1>10. ASSUME NEW l \in Lines
       PROVE  level[l] = Fetched(l) \/ \E i \in DOMAIN batch' : batch'[i] = Edge(l, Fetched(l))
  <2>1. level[l] = Fetched(l) \/ \E i \in DOMAIN batch : batch[i] = Edge(l, Fetched(l))
    BY Zenon DEF Batch
  <2>2. ASSUME NEW i \in DOMAIN batch, batch[i] = Edge(l, Fetched(l))
        PROVE  level[l] = Fetched(l) \/ \E j \in DOMAIN batch' : batch'[j] = Edge(l, Fetched(l))
    <3>1. CASE i = 1
      <4>1. e.line = l /\ e.num = Fetched(l)
        BY <1>3, <2>2, <3>1 DEF Edge
      <4> QED
        BY <1>5, <4>1
    <3>2. CASE i # 1
      <4>1. i - 1 \in 1 .. Len(batch) - 1 /\ (i - 1) + 1 = i
        BY <1>3, <1>4, <3>2
      <4>2. batch'[i - 1] = batch[i]
        BY <1>3, <4>1
      <4> QED
        BY <1>4, <2>2, <4>1, <4>2
    <3> QED
      BY <3>1, <3>2
  <2> QED
    BY <2>1, <2>2
<1>11. (spc' = "poll" <=> batch' = <<>>) /\ spc' \notin {"levelLast", "since"} /\ spc' # "tev"
  BY <1>1
<1> QED
  BY <1>4, <1>6, <1>7, <1>8, <1>9, <1>10, <1>11, Zenon DEF Batch

\* Every step keeps the batch going on where the levels are.
LEMMA BatchStep ==
  ASSUME IInv, [Next]_vars PROVE Batch'
<1>1. PathType /\ Kernel /\ Queues /\ Batch
  BY DEF IInv, TypeOK
<1>2. Lines' = Lines /\ Jacks' = Jacks /\ Buttons' = Buttons
  BY SetupStays
<1>3. ASSUME UNCHANGED <<batch, level>>, Stored <=> Stored', spc = "poll" <=> spc' = "poll",
             spc' \in {"levelLast", "since"} => Head(batch).line \in Buttons,
             spc' = "tev" => spc = "tev" \/ Head(batch).line \in Jacks, ~ PollHal
      PROVE  Batch'
  <2>1. \A l \in Lines : Fetched(l)' = Fetched(l)
    BY <1>3, FetchedGrows
  <2>2. ToStore' = ToStore
    BY <1>3, Zenon DEF ToStore
  <2>3. ASSUME NEW l \in Lines
        PROVE  level'[l] = Fetched(l)' \/ \E i \in DOMAIN batch' : batch'[i] = Edge(l, Fetched(l)')
    <3>1. level[l] = Fetched(l) \/ \E i \in DOMAIN batch : batch[i] = Edge(l, Fetched(l))
      BY <1>1, Zenon DEF Batch
    <3> QED
      BY <1>3, <2>1, <3>1, Zenon
  <2> QED
    BY <1>1, <1>2, <1>3, <2>2, <2>3, Zenon DEF Batch
<1>4. CASE PollHal
  BY <1>1, <1>2, <1>4, BatchPolled
<1>5. CASE StoreLevel
  <2>1. kq' = kq /\ edges' = edges
    BY <1>5 DEF StoreLevel, kernel
  <2> QED
    BY <1>1, <1>2, <1>5, <2>1, BatchStored
<1>6. CASE UNCHANGED sampler /\ ~ PollHal
  <2>1. UNCHANGED <<spc, batch, level>>
    BY <1>6 DEF sampler
  <2>2. spc' \in {"levelLast", "since"} => Head(batch).line \in Buttons
    BY <1>1, <2>1, Zenon DEF Batch
  <2> QED
    BY <1>3, <1>6, <2>1, <2>2, Zenon DEF Stored
<1>7. CASE StoreSince
  <2>1. /\ \/ spc = "since" /\ spc' = "ev"
           \/ spc = "level" /\ spc' = "levelLast"
        /\ UNCHANGED <<batch, level>> /\ Head(batch).line \in Buttons
    BY <1>7 DEF StoreSince, AfterSince
  <2>2. (Stored <=> Stored') /\ ~ PollHal
    BY <2>1 DEF Stored, PollHal
  <2> QED
    BY <1>3, <2>1, <2>2
<1>8. CASE PushEv
  <2>1. spc = "ev" /\ UNCHANGED <<kq, edges, level>> /\ Stored /\ ~ PollHal
    BY <1>8 DEF PushEv, kernel, Stored, PollHal
  <2>2. CASE Head(batch).line \in Jacks
    <3>1. spc' = "tev" /\ batch' = batch
      BY <1>8, <2>2 DEF PushEv
    <3>2. Stored'
      BY <3>1 DEF Stored
    <3> QED
      BY <1>3, <2>1, <2>2, <3>1, <3>2
  <2>3. CASE Head(batch).line \notin Jacks
    <3>1. CountEvent
      BY <1>8, <2>3 DEF PushEv
    <3> QED
      BY <1>1, <1>2, <2>1, <3>1, BatchRest
  <2> QED
    BY <2>2, <2>3
<1>9. CASE PushTev
  <2>1. spc = "tev" /\ UNCHANGED <<kq, edges, level>> /\ Stored /\ CountEvent
    BY <1>9 DEF PushTev, kernel, Stored
  <2> QED
    BY <1>1, <1>2, <2>1, BatchRest
<1>10. UNCHANGED sampler \/ PollHal \/ StoreLevel \/ StoreSince \/ PushEv \/ PushTev
  BY Steps DEF vars, path, Tick, Happen
<1> QED
  BY <1>4, <1>5, <1>6, <1>7, <1>8, <1>9, <1>10
-----------------------------------------------------------------------------
(* The time of press *)

\* The edge that btnSince is of was taken, and is not before one wholly published.
LEMMA SinceNumIs ==
  ASSUME PathType, Kernel, Queues, Batch, NEW b \in Buttons
  PROVE  /\ b \in Lines /\ SinceNum(b) \in 0 .. Fetched(b) /\ WhollyPublished(b) <= SinceNum(b)
         /\ level[b] \in Nat /\ Fetched(b) \in Nat /\ WhollyPublished(b) \in Nat
<1>1. /\ b \in Lines /\ level[b] \in Nat /\ Fetched(b) \in Nat /\ level[b] <= Fetched(b)
      /\ WhollyPublished(b) \in Nat /\ WhollyPublished(b) <= level[b]
  BY WhollyIs
<1>2. CASE spc = "levelLast" /\ Head(batch).line = b
  <2>1. Head(batch).num \in 1 .. Fetched(b)
    BY <1>2, InHand
  <2>2. Head(batch).num = level[b] + 1
    BY <1>2, NextToStore
  <2>3. SinceNum(b) = level[b] + 1
    BY <1>2 DEF SinceNum
  <2> QED
    BY <1>1, <2>1, <2>2, <2>3
<1>3. CASE ~ (spc = "levelLast" /\ Head(batch).line = b)
  <2>1. SinceNum(b) = WhollyPublished(b)
    BY <1>3 DEF SinceNum
  <2> QED
    BY <1>1, <2>1
<1> QED
  BY <1>2, <1>3

\* What is wholly published stays so.
LEMMA WhollyGrows ==
  ASSUME IInv, [Next]_vars, NEW b \in Buttons
  PROVE  WhollyPublished(b)' \in Nat /\ WhollyPublished(b) <= WhollyPublished(b)'
<1>1. PathType /\ Kernel /\ Queues /\ Batch
  BY DEF IInv, TypeOK
<1>2. /\ level[b] \in Nat /\ b \in Lines
      /\ WhollyPublished(b) \in Nat /\ WhollyPublished(b) <= level[b]
  BY <1>1, WhollyIs
<1>3. CASE UNCHANGED sampler
  BY <1>2, <1>3 DEF sampler, WhollyPublished
<1>4. CASE PollHal \/ PushEv \/ PushTev
  <2>1. spc # "since" /\ spc' # "since" /\ level' = level
    BY <1>4 DEF PollHal, PushEv, PushTev, CountEvent
  <2> QED
    BY <1>2, <2>1 DEF WhollyPublished
<1>5. CASE StoreLevel
  <2> DEFINE e == Head(batch)
  <2>1. spc # "since" /\ batch' = batch
    BY <1>5 DEF StoreLevel
  <2>2. /\ level'[e.line] = level[e.line] + 1
        /\ \A l \in Lines : l # e.line => level'[l] = level[l]
    BY <1>1, <1>5, StoreLevelIs
  <2>3. WhollyPublished(b) = level[b]
    BY <2>1 DEF WhollyPublished
  <2>4. WhollyPublished(b)' = IF spc' = "since" /\ e.line = b THEN level'[b] - 1 ELSE level'[b]
    BY <2>1 DEF WhollyPublished
  <2> HIDE DEF e
  <2>5. CASE b = e.line
    BY <1>2, <2>2, <2>3, <2>4, <2>5
  <2>6. CASE b # e.line
    BY <1>2, <2>2, <2>3, <2>4, <2>6
  <2> QED
    BY <2>5, <2>6
<1>6. CASE StoreSince
  <2>1. spc' # "since" /\ level' = level
    BY <1>6 DEF StoreSince, AfterSince
  <2>2. WhollyPublished(b)' = level[b]
    BY <2>1 DEF WhollyPublished
  <2> QED
    BY <1>2, <2>2
<1>7. UNCHANGED sampler \/ PollHal \/ StoreLevel \/ StoreSince \/ PushEv \/ PushTev
  BY Steps DEF vars, path, Tick, Happen
<1> QED
  BY <1>3, <1>4, <1>5, <1>6, <1>7

\* The time of an edge that was taken does not change.
LEMMA PressTimeStays ==
  ASSUME IInv, [Next]_vars, NEW b \in Lines, NEW n \in 0 .. Fetched(b)
  PROVE  PressTime(b, n)' = PressTime(b, n)
<1>1. CASE n = 0
  <2>1. Active(0) = FALSE
    BY DEF Active
  <2> QED
    BY <1>1, <2>1 DEF PressTime
<1>2. CASE n # 0
  <2>1. n \in 1 .. Len(edges[b])
    <3>1. Fetched(b) \in Nat /\ \A k \in 1 .. Fetched(b) : k \in 1 .. Len(edges[b])
      BY TimeIs DEF IInv, TypeOK
    <3>2. n \in 1 .. Fetched(b)
      BY <1>2, <3>1
    <3> QED
      BY <3>1, <3>2
  <2>2. edges'[b][n] = edges[b][n]
    BY <2>1, EdgesStay
  <2> QED
    BY <2>2 DEF PressTime, Active
<1> QED
  BY <1>1, <1>2

\* Every step keeps btnSince that of the last edge published.
LEMMA TimesStep ==
  ASSUME IInv, [Next]_vars PROVE Times'
<1>1. PathType /\ Kernel /\ Queues /\ Batch /\ Times
  BY DEF IInv, TypeOK
<1>2. Buttons' = Buttons
  BY SetupStays
<1>3. ASSUME NEW b \in Buttons, NEW n \in 0 .. Fetched(b)
      PROVE  PressTime(b, n)' = PressTime(b, n)
  <2>1. b \in Lines
    BY <1>1, SinceNumIs
  <2> QED
    BY <1>3, <2>1, PressTimeStays
<1>4. ASSUME NEW b \in Buttons
      PROVE  /\ btnSince[b] = PressTime(b, SinceNum(b))
             /\ b \in Lines /\ SinceNum(b) \in 0 .. Fetched(b)
             /\ level[b] \in Nat /\ Fetched(b) \in Nat
  BY <1>1, SinceNumIs DEF Times
<1>5. ASSUME NEW b \in Buttons, btnSince'[b] = btnSince[b], SinceNum(b)' = SinceNum(b)
      PROVE  btnSince'[b] = PressTime(b, SinceNum(b))'
  <2>1. PICK n \in 0 .. Fetched(b) : SinceNum(b) = n
    BY <1>4
  <2>2. PressTime(b, n)' = PressTime(b, n) /\ btnSince[b] = PressTime(b, n)
    BY <1>3, <1>4, <2>1
  <2>3. SinceNum(b)' = n
    BY <1>5, <2>1
  <2> QED
    BY <1>5, <2>2, <2>3 DEF PressTime
<1>6. CASE \A b \in Buttons : btnSince'[b] = btnSince[b] /\ SinceNum(b)' = SinceNum(b)
  BY <1>2, <1>5, <1>6, Zenon DEF Times
<1>7. CASE UNCHANGED sampler
  <2>1. \A b \in Buttons : btnSince'[b] = btnSince[b] /\ SinceNum(b)' = SinceNum(b)
    BY <1>7 DEF sampler, SinceNum, WhollyPublished
  <2> QED
    BY <1>6, <2>1
<1>8. CASE PollHal \/ PushEv \/ PushTev
  <2>1. /\ spc \notin {"levelLast", "since"} /\ spc' \notin {"levelLast", "since"}
        /\ UNCHANGED <<level, btnSince>>
    BY <1>8 DEF PollHal, PushEv, PushTev, CountEvent
  <2>2. \A b \in Buttons : btnSince'[b] = btnSince[b] /\ SinceNum(b)' = SinceNum(b)
    BY <2>1 DEF SinceNum, WhollyPublished
  <2> QED
    BY <1>6, <2>2
<1>9. CASE StoreLevel
  <2> DEFINE e == Head(batch)
  <2>1. /\ spc \in {"level", "levelLast"} /\ batch' = batch /\ btnSince' = btnSince
        /\ spc' = IF spc = "level" /\ e.line \in Buttons THEN "since" ELSE "ev"
    BY <1>9 DEF StoreLevel, AfterLevel
  <2>2. /\ level'[e.line] = level[e.line] + 1
        /\ \A l \in Lines : l # e.line => level'[l] = level[l]
    BY <1>1, <1>9, StoreLevelIs
  <2>3. ASSUME NEW b \in Buttons PROVE SinceNum(b)' = SinceNum(b)
    <3>1. SinceNum(b) = IF spc = "levelLast" /\ e.line = b THEN level[b] + 1 ELSE level[b]
      BY <2>1 DEF SinceNum, WhollyPublished
    <3>2. SinceNum(b)' = IF spc' = "since" /\ e.line = b THEN level'[b] - 1 ELSE level'[b]
      BY <2>1 DEF SinceNum, WhollyPublished
    <3> HIDE DEF e
    <3>3. CASE b = e.line
      BY <1>4, <2>1, <2>2, <3>1, <3>2, <3>3
    <3>4. CASE b # e.line
      BY <1>4, <2>2, <3>1, <3>2, <3>4
    <3> QED
      BY <3>3, <3>4
  <2> QED
    BY <1>6, <2>1, <2>3
<1>10. CASE StoreSince
  <2> DEFINE e == Head(batch)
  <2>1. /\ spc \in {"level", "since"} /\ e.line \in Buttons
        /\ spc' = IF spc = "level" THEN "levelLast" ELSE "ev"
        /\ edges' = edges /\ level' = level /\ batch' = batch
        /\ btnSince' = [btnSince EXCEPT ![e.line] = IF Active(e.num) THEN TimeOf(e) ELSE 0]
    BY <1>10 DEF StoreSince, AfterSince, kernel
  <2>2. e.num = IF spc = "level" THEN level[e.line] + 1 ELSE level[e.line]
    <3>1. CASE spc = "level"
      BY <1>1, <3>1, NextToStore
    <3>2. CASE spc = "since"
      BY <1>1, <3>2, Zenon DEF Batch, Stored
    <3> QED
      BY <2>1, <3>1, <3>2
  <2>3. TimeOf(e) = edges[e.line][e.num]
    BY DEF TimeOf
  <2>4. ASSUME NEW b \in Buttons
        PROVE  /\ SinceNum(b) = IF spc = "since" /\ e.line = b THEN level[b] - 1 ELSE level[b]
               /\ SinceNum(b)' = IF spc' = "levelLast" /\ e.line = b THEN level[b] + 1 ELSE level[b]
    BY <2>1 DEF SinceNum, WhollyPublished
  <2> HIDE DEF e
  <2>5. \A b \in Buttons : btnSince'[b] = IF b = e.line THEN PressTime(b, e.num) ELSE btnSince[b]
    BY <1>1, <2>1, <2>3 DEF PathType, PressTime
  <2>6. ASSUME NEW b \in Buttons PROVE btnSince'[b] = PressTime(b, SinceNum(b))'
    <3>1. CASE b = e.line
      <4>1. SinceNum(b)' = e.num
        BY <2>1, <2>2, <2>4, <3>1
      <4> QED
        BY <2>1, <2>5, <3>1, <4>1 DEF PressTime
    <3>2. CASE b # e.line
      <4>1. SinceNum(b)' = SinceNum(b)
        BY <2>4, <3>2
      <4> QED
        BY <1>5, <2>5, <3>2, <4>1
    <3> QED
      BY <3>1, <3>2
  <2> QED
    BY <1>2, <2>6, Zenon DEF Times
<1>11. UNCHANGED sampler \/ PollHal \/ StoreLevel \/ StoreSince \/ PushEv \/ PushTev
  BY Steps DEF vars, path, Tick, Happen
<1> QED
  BY <1>7, <1>8, <1>9, <1>10, <1>11
-----------------------------------------------------------------------------
(* The way to tt_poll_events and the hosts *)

\* Concatenation is associative.
LEMMA Assoc ==
  ASSUME NEW a \in Seq(AnyEdge), NEW b \in Seq(AnyEdge), NEW c \in Seq(AnyEdge)
  PROVE  a \o (b \o c) = (a \o b) \o c
  BY ConcatAssociative, SMTT(30)

\* The first of t moves on to s, before u.
LEMMA MoveOn ==
  ASSUME NEW s \in Seq(AnyEdge), NEW t \in Seq(AnyEdge), NEW u \in Seq(AnyEdge), t # <<>>
  PROVE  Append(s, Head(t)) \o (Tail(t) \o u) = s \o (t \o u)
<1>1. /\ Tail(t) \in Seq(AnyEdge) /\ Append(s, Head(t)) \in Seq(AnyEdge)
      /\ Append(s, Head(t)) \o Tail(t) = s \o t
  BY Move
<1> DEFINE a == Append(s, Head(t))
           b == Tail(t)
<1> HIDE DEF a, b
<1>2. a \in Seq(AnyEdge) /\ b \in Seq(AnyEdge) /\ a \o b = s \o t
  BY <1>1 DEF a, b
<1>3. a \o (b \o u) = (a \o b) \o u
  BY <1>2, Assoc, ZenonT(40)
<1>4. s \o (t \o u) = (s \o t) \o u
  BY Assoc, Zenon
<1> QED
  BY <1>2, <1>3, <1>4 DEF a, b

\* Edges taken later go behind those taken before.
LEMMA Behind ==
  ASSUME NEW w \in Seq(AnyEdge), NEW p \in Seq(AnyEdge), NEW l, NEW F \in Nat,
         InOrder(l, w), InOrder(l, p),
         \A i \in 1 .. Len(w) : w[i].line = l => w[i].num \in 1 .. F,
         \A i \in 1 .. Len(p) : p[i].line = l => p[i].num \in Nat /\ F < p[i].num
  PROVE  InOrder(l, w \o p)
<1>1. ASSUME NEW i \in 1 .. Len(w), NEW j \in 1 .. Len(p), w[i].line = l, p[j].line = l
      PROVE  w[i].num < p[j].num
  <2>1. w[i].num \in 1 .. F /\ p[j].num \in Nat /\ F < p[j].num
    BY <1>1
  <2> QED
    BY <2>1
<1> QED
  BY <1>1, OrderConcat, Zenon

\* What a concatenation holds one of its parts holds.
LEMMA Holding ==
  ASSUME NEW s \in Seq(AnyEdge), NEW t \in Seq(AnyEdge)
  PROVE  /\ s \o t \in Seq(AnyEdge)
         /\ \A i \in 1 .. Len(s \o t) : \/ \E j \in 1 .. Len(s) : (s \o t)[i] = s[j]
                                        \/ \E j \in 1 .. Len(t) : (s \o t)[i] = t[j]
<1>1. /\ s \o t \in Seq(AnyEdge) /\ Len(s \o t) = Len(s) + Len(t)
      /\ Len(s) \in Nat /\ Len(t) \in Nat
      /\ \A i \in 1 .. Len(s) + Len(t) :
           (s \o t)[i] = IF i <= Len(s) THEN s[i] ELSE t[i - Len(s)]
  BY ConcatProperties
<1>2. ASSUME NEW i \in 1 .. Len(s) + Len(t)
      PROVE  \/ \E j \in 1 .. Len(s) : (s \o t)[i] = s[j]
             \/ \E j \in 1 .. Len(t) : (s \o t)[i] = t[j]
  <2>1. CASE i <= Len(s)
    <3>1. i \in 1 .. Len(s) /\ (s \o t)[i] = s[i]
      BY <1>1, <2>1
    <3> QED
      BY <3>1
  <2>2. CASE ~ (i <= Len(s))
    <3>1. i - Len(s) \in 1 .. Len(t) /\ (s \o t)[i] = t[i - Len(s)]
      BY <1>1, <2>2
    <3> QED
      BY <3>1
  <2> QED
    BY <2>1, <2>2
<1> QED
  BY <1>1, <1>2

\* All of them are sequences of edges.
LEMMA EvParts ==
  ASSUME PathType, AudioType, HostType, Batch
  PROVE  /\ polled \in Seq(AnyEdge) /\ Dealt \in Seq(AnyEdge) /\ got \in Seq(AnyEdge)
         /\ ev \in Seq(AnyEdge) /\ Left \in Seq(AnyEdge)
         /\ Dealt \o got \in Seq(AnyEdge) /\ Drained \in Seq(AnyEdge)
         /\ ev \o Left \in Seq(AnyEdge) /\ EvWay \in Seq(AnyEdge)
<1>1. /\ polled \in Seq(AnyEdge) /\ Dealt \in Seq(AnyEdge) /\ got \in Seq(AnyEdge)
      /\ ev \in Seq(AnyEdge) /\ batch \in Seq(AnyEdge)
  BY DealtIs DEF PathType, AudioType, HostType
<1>2. Left \in Seq(AnyEdge)
  <2>1. CASE spc = "tev"
    <3>1. batch # <<>>
      <4>1. spc = "poll" <=> batch = <<>>
        BY Zenon DEF Batch
      <4> QED
        BY <2>1, <4>1
    <3>2. Tail(batch) \in Seq(AnyEdge)
      BY <1>1, <3>1, Move
    <3> QED
      BY <2>1, <3>2 DEF Left
  <2>2. CASE spc # "tev"
    BY <1>1, <2>2 DEF Left
  <2> QED
    BY <2>1, <2>2
<1>3. Dealt \o got \in Seq(AnyEdge) /\ ev \o Left \in Seq(AnyEdge)
  BY <1>1, <1>2, ConcatProperties
<1>4. Drained \in Seq(AnyEdge)
  BY <1>1, <1>3, ConcatProperties DEF Drained
<1>5. EvWay \in Seq(AnyEdge)
  BY <1>3, <1>4, ConcatProperties DEF EvWay
<1> QED
  BY <1>1, <1>2, <1>3, <1>4, <1>5

\* They are of edges that were taken.
LEMMA EvTaken ==
  ASSUME PathType, AudioType, HostType, Kernel, Queues, Batch, NEW i \in 1 .. Len(EvWay)
  PROVE  EvWay[i].line \in Lines /\ EvWay[i].num \in 1 .. Fetched(EvWay[i].line)
<1> DEFINE OK(e) == e.line \in Lines /\ e.num \in 1 .. Fetched(e.line)
           w == Dealt \o got
           r == ev \o Left
<1>1. /\ polled \in Seq(AnyEdge) /\ Dealt \in Seq(AnyEdge) /\ got \in Seq(AnyEdge)
      /\ ev \in Seq(AnyEdge) /\ Left \in Seq(AnyEdge) /\ batch \in Seq(AnyEdge)
      /\ w \in Seq(AnyEdge) /\ Drained \in Seq(AnyEdge) /\ r \in Seq(AnyEdge)
  BY EvParts DEF PathType
<1>2. ASSUME NEW q \in Seq(AnyEdge), Published(q), NEW j \in 1 .. Len(q) PROVE OK(q[j])
  <2>1. q[j].line \in Lines /\ q[j].num \in 1 .. level[q[j].line]
    <3>1. j \in DOMAIN q
      BY <1>2
    <3> QED
      BY <1>2, <3>1, Zenon DEF Published
  <2>2. /\ level[q[j].line] \in Nat /\ level[q[j].line] <= Fetched(q[j].line)
        /\ Fetched(q[j].line) \in Nat
    BY <2>1, TimeIs DEF PathType, Queues
  <2> QED
    BY <2>1, <2>2
<1>3. \A j \in 1 .. Len(Left) : OK(Left[j])
  <2>1. \A j \in 1 .. Len(batch) : OK(batch[j])
    <3>1. DOMAIN batch = 1 .. Len(batch)
      BY <1>1
    <3> QED
      BY <3>1, Zenon DEF Queues, Real
  <2>2. CASE spc = "tev"
    <3>1. \A j \in 1 .. Len(batch) - 1 : Tail(batch)[j] = batch[j + 1]
          /\ Len(Tail(batch)) = Len(batch) - 1 /\ Len(batch) \in Nat
      BY <2>2, InHand
    <3>2. \A j \in 1 .. Len(batch) - 1 : j + 1 \in 1 .. Len(batch)
      BY <3>1
    <3> HIDE DEF OK
    <3> QED
      BY <2>1, <2>2, <3>1, <3>2 DEF Left
  <2>3. CASE spc # "tev"
    BY <2>1, <2>3 DEF Left
  <2> QED
    BY <2>2, <2>3
<1>4. /\ \A j \in 1 .. Len(polled) : OK(polled[j])
      /\ \A j \in 1 .. Len(Dealt) : OK(Dealt[j])
      /\ \A j \in 1 .. Len(got) : OK(got[j])
      /\ \A j \in 1 .. Len(ev) : OK(ev[j])
  <2>1. Published(ev) /\ Published(polled) /\ Published(got) /\ Published(Dealt)
    BY DEF Queues
  <2> HIDE DEF OK
  <2> QED
    BY <1>1, <1>2, <2>1, Zenon
<1> HIDE DEF OK, w, r
<1>5. ASSUME NEW s \in Seq(AnyEdge), NEW t \in Seq(AnyEdge),
             \A j \in 1 .. Len(s) : OK(s[j]), \A j \in 1 .. Len(t) : OK(t[j])
      PROVE  \A k \in 1 .. Len(s \o t) : OK((s \o t)[k])
  BY <1>5, Holding, Zenon
<1>6. \A j \in 1 .. Len(w) : OK(w[j])
  BY <1>1, <1>4, <1>5, Zenon DEF w
<1>7. \A j \in 1 .. Len(Drained) : OK(Drained[j])
  BY <1>1, <1>4, <1>5, <1>6, Zenon DEF Drained, w
<1>8. \A j \in 1 .. Len(r) : OK(r[j])
  BY <1>1, <1>3, <1>4, <1>5, Zenon DEF r
<1>9. OK(EvWay[i])
  BY <1>1, <1>5, <1>7, <1>8, Zenon DEF EvWay, r
<1> QED
  BY <1>9 DEF OK

\* What happens on the way: edges move on, one is dropped, or a batch comes in.
LEMMA EvMoves ==
  ASSUME IInv, [Next]_vars
  PROVE  \/ /\ \A l \in Lines : Fetched(l)' = Fetched(l)
            /\ EvWay' = EvWay /\ evLost' = evLost
         \/ /\ \A l \in Lines : Fetched(l)' = Fetched(l)
            /\ \E s, t \in Seq(AnyEdge), e \in AnyEdge :
                 /\ EvWay = s \o (<<e>> \o t) /\ EvWay' = s \o t
                 /\ \/ e.line \in Lines /\ evLost' = [evLost EXCEPT ![e.line] = @ + 1]
                    \/ e.line \notin Buttons /\ evLost' = evLost /\ setup.host \in {"pd", "jack"}
         \/ PollHal /\ evLost' = evLost /\ EvWay = Drained \o ev /\ EvWay' = EvWay \o batch'
<1>1. PathType /\ AudioType /\ HostType /\ Kernel /\ Queues /\ Batch /\ Hosts /\ Asking
  BY DEF IInv, TypeOK
<1>2. /\ polled \in Seq(AnyEdge) /\ Dealt \in Seq(AnyEdge) /\ got \in Seq(AnyEdge)
      /\ ev \in Seq(AnyEdge) /\ Left \in Seq(AnyEdge)
      /\ Dealt \o got \in Seq(AnyEdge) /\ Drained \in Seq(AnyEdge)
      /\ ev \o Left \in Seq(AnyEdge) /\ EvWay \in Seq(AnyEdge)
  BY <1>1, EvParts
<1>3. ASSUME UNCHANGED <<edges, kq>> \/ \E k \in Lines : Happen(k)
      PROVE  \A l \in Lines : Fetched(l)' = Fetched(l)
  BY <1>3, FetchedGrows
<1>4. ASSUME UNCHANGED <<polled, handled, got, ev, Left, evLost>>,
             UNCHANGED <<edges, kq>> \/ \E k \in Lines : Happen(k)
      PROVE  /\ \A l \in Lines : Fetched(l)' = Fetched(l)
             /\ EvWay' = EvWay /\ evLost' = evLost
  <2>1. EvWay' = EvWay
    BY <1>4 DEF EvWay, Drained, Dealt
  <2> QED
    BY <1>3, <1>4, <2>1
<1>5. CASE UNCHANGED vars
  <2>1. UNCHANGED <<polled, handled, got, ev, Left, evLost, edges, kq>>
    BY <1>5 DEF vars, path, kernel, sampler, counts, poller, Left
  <2> QED
    BY <1>4, <2>1
<1>6. CASE (Tick \/ (\E l \in Lines : Happen(l)) \/ StoreLevel \/ StoreSince)
           /\ UNCHANGED <<audio, polled, poller>>
  <2>1. /\ UNCHANGED <<polled, handled, got, ev, Left, evLost>>
        /\ UNCHANGED <<edges, kq>> \/ \E k \in Lines : Happen(k)
    BY <1>6 DEF kernel, sampler, counts, poller, Left, Tick, Happen, StoreLevel, StoreSince,
                AfterLevel, AfterSince
  <2> QED
    BY <1>4, <2>1
<1>7. CASE PollHal /\ UNCHANGED <<audio, polled, poller>>
  <2>1. spc = "poll" <=> batch = <<>>
    BY <1>1, Zenon DEF Batch
  <2>2. Left = <<>> /\ Left' = batch' /\ UNCHANGED <<ev, evLost, polled, handled, got>>
    BY <1>7, <2>1 DEF PollHal, Left, counts, poller
  <2>3. Drained' = Drained
    BY <2>2 DEF Drained, Dealt
  <2>4. ev \o <<>> = ev
    BY <1>2, ConcatEmptySeq
  <2>5. EvWay = Drained \o ev
    BY <2>2, <2>4 DEF EvWay
  <2>6. batch' \in Seq(AnyEdge)
    BY <1>1, <1>7, PollHalIs
  <2>7. EvWay' = Drained \o (ev \o batch')
    BY <2>2, <2>3 DEF EvWay
  <2>8. \A b \in Seq(AnyEdge) : Drained \o (ev \o b) = (Drained \o ev) \o b
    BY <1>2, Assoc, Zenon
  <2> QED
    BY <1>7, <2>2, <2>5, <2>6, <2>7, <2>8
<1>8. CASE PushEv /\ UNCHANGED <<audio, polled, poller>>
  <2> DEFINE e == Head(batch)
             t == Tail(batch)
  <2>1. /\ spc = "ev" /\ UNCHANGED <<edges, kq, polled, handled, got>>
    BY <1>8 DEF PushEv, kernel, poller
  <2>2. /\ batch \in Seq(AnyEdge) /\ batch # <<>> /\ e \in AnyEdge /\ e.line \in Lines
        /\ t \in Seq(AnyEdge) /\ batch = <<e>> \o t
    BY <1>1, <2>1, InHand DEF PathType
  <2>3. Left = batch /\ Left' = t
    BY <1>8, <2>1 DEF PushEv, CountEvent, Left
  <2>4. Drained' = Drained
    BY <2>1 DEF Drained, Dealt
  <2>5. EvWay = Drained \o (ev \o batch) /\ EvWay' = Drained \o (ev' \o t)
    BY <2>3, <2>4 DEF EvWay
  <2>6. CASE ev' = Append(ev, e) /\ evLost' = evLost
    <3>1. Append(ev, e) \o t = ev \o batch
      BY <1>2, <2>2, Move
    <3> QED
      BY <1>3, <2>1, <2>5, <2>6, <3>1
  <2>7. CASE ev' = ev /\ evLost' = [evLost EXCEPT ![e.line] = @ + 1]
    <3> HIDE DEF e, t
    <3>1. Drained \o ev \in Seq(AnyEdge)
      BY <1>2, ConcatProperties
    <3>2. \A b \in Seq(AnyEdge) : Drained \o (ev \o b) = (Drained \o ev) \o b
      BY <1>2, Assoc, Zenon
    <3>3. EvWay = (Drained \o ev) \o (<<e>> \o t) /\ EvWay' = (Drained \o ev) \o t
      BY <2>2, <2>5, <2>7, <3>2
    <3> QED
      BY <1>3, <2>1, <2>2, <2>7, <3>1, <3>3, Zenon
  <2> QED
    BY <1>8, <2>6, <2>7 DEF PushEv
<1>9. CASE PushTev /\ UNCHANGED <<audio, polled, poller>>
  <2>1. UNCHANGED <<polled, handled, got, ev, Left, evLost, edges, kq>>
    BY <1>9 DEF PushTev, CountEvent, Left, kernel, poller
  <2> QED
    BY <1>4, <2>1
<1>10. CASE PollEvents /\ UNCHANGED <<now, kernel, sampler, poller>>
  <2>1. /\ setup.host = "render" /\ ev # <<>>
        /\ polled' = Append(polled, Head(ev)) /\ ev' = Tail(ev)
        /\ UNCHANGED <<edges, kq, evLost, handled, got, Left>>
    BY <1>10 DEF PollEvents, kernel, sampler, counts, poller, Left
  <2>2. got = <<>> /\ Dealt = <<>>
    <3>1. handled = <<>> /\ got = <<>>
      BY <1>1, <2>1 DEF Hosts
    <3> QED
      BY <3>1 DEF Dealt
  <2>3. Dealt' = Dealt
    BY <2>1 DEF Dealt
  <2>4. Append(polled, Head(ev)) \in Seq(AnyEdge)
    BY <1>2, <2>1, Move
  <2>5. \A p \in Seq(AnyEdge) : p \o (<<>> \o <<>>) = p
    BY ConcatEmptySeq
  <2>6. Drained = polled /\ Drained' = polled'
    BY <1>2, <2>1, <2>2, <2>3, <2>4, <2>5 DEF Drained
  <2>7. Append(polled, Head(ev)) \o (Tail(ev) \o Left) = polled \o (ev \o Left)
    <3>1. \A s, t, u \in Seq(AnyEdge) : t # <<>> =>
            Append(s, Head(t)) \o (Tail(t) \o u) = s \o (t \o u)
      BY MoveOn
    <3>2. polled \in Seq(AnyEdge) /\ ev \in Seq(AnyEdge) /\ Left \in Seq(AnyEdge) /\ ev # <<>>
      BY <1>2, <2>1
    <3> QED
      BY <3>1, <3>2, Zenon
  <2>8. EvWay' = EvWay
    BY <2>1, <2>6, <2>7 DEF EvWay
  <2> QED
    BY <1>3, <2>1, <2>8
<1>11. CASE Audio /\ ~ PollEvents /\ UNCHANGED <<now, kernel, sampler, poller>>
  <2>1. UNCHANGED <<polled, handled, got, ev, Left, evLost, edges, kq>>
    BY <1>11 DEF Audio, TriggerBlock, DrainHeld, StartLevels, PlaceEdge, BlockDone, kernel,
                 sampler, counts, poller, Left
  <2> QED
    BY <1>4, <2>1
<1>12. CASE Host /\ UNCHANGED <<now, kernel, sampler, tev, audio, polled>>
  <2>1. UNCHANGED <<edges, kq, evLost, Left, polled>>
    BY <1>12 DEF kernel, sampler, counts, Left
  <2>2. CASE UNCHANGED <<ev, got, handled>>
    BY <1>4, <2>1, <2>2
  <2>3. CASE ev # <<>> /\ ev' = Tail(ev) /\ got' = Append(got, Head(ev)) /\ handled' = handled
    <3> DEFINE h == Head(ev)
    <3>1. Dealt' = Dealt
      BY <2>3 DEF Dealt
    <3>2. h \in AnyEdge /\ <<h>> \in Seq(AnyEdge)
      BY <1>2, <2>3, Move
    <3>3. \A q \in Seq(AnyEdge) : Append(q, h) = q \o <<h>>
      BY <3>2, AppendIsConcat
    <3>4. Drained' = Append(Drained, h)
      <4> HIDE DEF h
      <4>1. Drained' = polled \o (Dealt \o (got \o <<h>>))
        BY <1>2, <2>1, <2>3, <3>1, <3>3 DEF Drained, h
      <4>2. Dealt \o (got \o <<h>>) = (Dealt \o got) \o <<h>>
        BY <1>2, <3>2, Assoc, SMTT(30)
      <4>3. polled \o ((Dealt \o got) \o <<h>>) = (polled \o (Dealt \o got)) \o <<h>>
        BY <1>2, <3>2, Assoc, SMTT(30)
      <4> QED
        BY <1>2, <3>3, <4>1, <4>2, <4>3 DEF Drained
    <3>5. Append(Drained, h) \o (Tail(ev) \o Left) = Drained \o (ev \o Left)
      <4>1. \A s, t, u \in Seq(AnyEdge) : t # <<>> =>
              Append(s, Head(t)) \o (Tail(t) \o u) = s \o (t \o u)
        BY MoveOn
      <4>2. Drained \in Seq(AnyEdge) /\ ev \in Seq(AnyEdge) /\ Left \in Seq(AnyEdge)
            /\ ev # <<>>
        BY <1>2, <2>3
      <4> QED
        BY <4>1, <4>2, Zenon
    <3>6. EvWay' = EvWay
      BY <2>1, <2>3, <3>4, <3>5 DEF EvWay
    <3> QED
      BY <1>3, <2>1, <3>6
  <2>4. CASE /\ Head(got).line \notin Buttons /\ got # <<>> /\ got' = Tail(got)
             /\ UNCHANGED <<ev, handled>> /\ hpc = "events"
    <3> DEFINE e == Head(got)
               t == Tail(got)
               u == ev \o Left
    <3>1. Dealt' = Dealt
      BY <2>4 DEF Dealt
    <3>2. e \in AnyEdge /\ <<e>> \in Seq(AnyEdge) /\ t \in Seq(AnyEdge) /\ got = <<e>> \o t
      BY <1>2, <2>4, Move
    <3>3. setup.host \in {"pd", "jack"}
      BY <1>1, <2>4 DEF Hosts
    <3>4. /\ EvWay = (polled \o (Dealt \o got)) \o u
          /\ EvWay' = (polled \o (Dealt \o t)) \o u
          /\ u \in Seq(AnyEdge)
      BY <1>2, <2>1, <2>4, <3>1 DEF EvWay, Drained
    <3>5. e.line \notin Buttons
      BY <2>4
    <3> HIDE DEF e, t, u
    <3>6. polled \o Dealt \in Seq(AnyEdge) /\ t \o u \in Seq(AnyEdge)
      BY <1>2, <3>2, <3>4, ConcatProperties
    <3>7. ASSUME NEW g \in Seq(AnyEdge)
          PROVE  (polled \o (Dealt \o g)) \o u = (polled \o Dealt) \o (g \o u)
      <4>1. polled \o (Dealt \o g) = (polled \o Dealt) \o g
        <5>1. \A a, b, c \in Seq(AnyEdge) : a \o (b \o c) = (a \o b) \o c
          BY Assoc
        <5>2. polled \in Seq(AnyEdge) /\ Dealt \in Seq(AnyEdge) /\ g \in Seq(AnyEdge)
          BY <1>2
        <5> QED
          BY <5>1, <5>2, Zenon
      <4>2. ((polled \o Dealt) \o g) \o u = (polled \o Dealt) \o (g \o u)
        BY <3>4, <3>6, Assoc, ZenonT(40)
      <4> QED
        BY <4>1, <4>2
    <3>8. got \o u = <<e>> \o (t \o u)
      BY <3>2, <3>4, Assoc, Zenon
    <3>9. /\ EvWay = (polled \o Dealt) \o (<<e>> \o (t \o u))
          /\ EvWay' = (polled \o Dealt) \o (t \o u)
      BY <1>2, <3>2, <3>4, <3>7, <3>8
    <3> QED
      BY <1>3, <2>1, <3>2, <3>3, <3>5, <3>6, <3>9, Zenon
  <2>5. ASSUME got # <<>>, got' = Tail(got), ev' = ev,
               NEW ok \in BOOLEAN, NEW press \in Nat, handled' = Deal(Head(got), ok, press)
        PROVE  (\A l \in Lines : Fetched(l)' = Fetched(l)) /\ EvWay' = EvWay /\ evLost' = evLost
    <3>1. Dealt' = Append(Dealt, Head(got))
      BY <1>1, <2>5, DealIs
    <3>2. Append(Dealt, Head(got)) \o Tail(got) = Dealt \o got
      BY <1>2, <2>5, Move
    <3>3. EvWay' = EvWay
      BY <2>1, <2>5, <3>1, <3>2 DEF EvWay, Drained
    <3> QED
      BY <1>3, <2>1, <3>3
  <2> QED
    BY <1>1, <1>12, <2>2, <2>3, <2>4, <2>5, HostMoves, Zenon
<1> QED
  BY <1>5, <1>6, <1>7, <1>8, <1>9, <1>10, <1>11, <1>12, Steps, Zenon DEF Audio
\* Every step keeps the way through the ring of tt_poll_events intact.
LEMMA EvIntactStep ==
  ASSUME IInv, [Next]_vars PROVE EvIntact'
<1>1. PathType /\ AudioType /\ HostType /\ Kernel /\ Queues /\ Batch /\ EvIntact
  BY DEF IInv, TypeOK
<1>2. setup' = setup /\ Lines' = Lines /\ Buttons' = Buttons
  BY SetupStays
<1>3. EvWay \in Seq(AnyEdge)
  BY <1>1, EvParts
<1> SUFFICES ASSUME NEW l \in Lines
             PROVE  /\ InOrder(l, EvWay')
                    /\ l \in Buttons \/ setup.host \notin {"pd", "jack"}
                         => Count(l, EvWay') + evLost'[l] = Fetched(l)'
  BY <1>2, Zenon DEF EvIntact, InOrder, Count, Fetched
<1>4. /\ InOrder(l, EvWay)
      /\ l \in Buttons \/ setup.host \notin {"pd", "jack"}
           => Count(l, EvWay) + evLost[l] = Fetched(l)
  BY <1>1, Zenon DEF EvIntact
<1>5. /\ evLost[l] \in Nat /\ Fetched(l) \in Nat /\ Fetched(l)' \in Nat
      /\ Fetched(l) <= Fetched(l)'
  BY <1>1, FetchedGrows DEF PathType
<1>6. CASE /\ \A k \in Lines : Fetched(k)' = Fetched(k)
           /\ EvWay' = EvWay /\ evLost' = evLost
  BY <1>4, <1>6
<1>7. ASSUME \A k \in Lines : Fetched(k)' = Fetched(k),
             NEW s \in Seq(AnyEdge), NEW t \in Seq(AnyEdge), NEW e \in AnyEdge,
             EvWay = s \o (<<e>> \o t), EvWay' = s \o t,
             \/ e.line \in Lines /\ evLost' = [evLost EXCEPT ![e.line] = @ + 1]
             \/ e.line \notin Buttons /\ evLost' = evLost /\ setup.host \in {"pd", "jack"}
      PROVE  /\ InOrder(l, EvWay')
             /\ l \in Buttons \/ setup.host \notin {"pd", "jack"}
                  => Count(l, EvWay') + evLost'[l] = Fetched(l)'
  <2>1. /\ Count(l, EvWay) = Count(l, EvWay') + (IF e.line = l THEN 1 ELSE 0)
        /\ InOrder(l, EvWay')
    BY <1>4, <1>7, Drop
  <2>2. s \o t \in Seq(AnyEdge)
    BY ConcatProperties
  <2>3. Count(l, EvWay') \in Nat
    BY <1>7, <2>2, CountIs
  <2>4. Fetched(l)' = Fetched(l)
    BY <1>7
  <2>5. CASE e.line \in Lines /\ evLost' = [evLost EXCEPT ![e.line] = @ + 1]
    <3>1. evLost'[l] = evLost[l] + (IF e.line = l THEN 1 ELSE 0)
      BY <1>1, <1>5, <2>5, SMTT(30) DEF PathType
    <3> QED
      <4> DEFINE x == IF e.line = l THEN 1 ELSE 0
      <4>1. x \in Nat /\ Count(l, EvWay) = Count(l, EvWay') + x /\ evLost'[l] = evLost[l] + x
        BY <2>1, <3>1
      <4> HIDE DEF x
      <4>2. \A c, y, k, f \in Nat : (c + y) + k = f => c + (k + y) = f
        OBVIOUS
      <4>3. Count(l, EvWay) + evLost[l] = Fetched(l) => Count(l, EvWay') + evLost'[l] = Fetched(l)
        BY <1>5, <2>3, <4>1, <4>2
      <4> QED
        BY <1>4, <2>1, <2>4, <4>3, Zenon
  <2>6. CASE e.line \notin Buttons /\ evLost' = evLost /\ setup.host \in {"pd", "jack"}
    <3>1. l \in Buttons => Count(l, EvWay) = Count(l, EvWay')
      BY <2>1, <2>3, <2>6
    <3> QED
      BY <1>4, <2>1, <2>4, <2>6, <3>1
  <2> QED
    BY <1>7, <2>5, <2>6
<1>8. CASE PollHal /\ evLost' = evLost /\ EvWay = Drained \o ev /\ EvWay' = EvWay \o batch'
  <2>1. /\ batch' \in Seq(AnyEdge)
        /\ InOrder(l, batch') /\ Count(l, batch') = Fetched(l)' - Fetched(l)
        /\ \A i \in 1 .. Len(batch') : batch'[i].line = l
                                      => batch'[i].num \in Fetched(l) + 1 .. Fetched(l)'
    BY <1>1, <1>8, PollHalIs
  <2>2. Count(l, EvWay') = Count(l, EvWay) + Count(l, batch') /\ Count(l, EvWay) \in Nat
    BY <1>3, <1>8, <2>1, CountConcat, CountIs
  <2>3. \A i \in 1 .. Len(EvWay) : EvWay[i].line = l => EvWay[i].num \in 1 .. Fetched(l)
    BY <1>1, EvTaken
  <2>4. \A i \in 1 .. Len(batch') :
          batch'[i].line = l => batch'[i].num \in Nat /\ Fetched(l) < batch'[i].num
    BY <1>5, <2>1
  <2>5. InOrder(l, EvWay')
    <3>1. \A w, p \in Seq(AnyEdge), F \in Nat :
            /\ InOrder(l, w) /\ InOrder(l, p)
            /\ \A i \in 1 .. Len(w) : w[i].line = l => w[i].num \in 1 .. F
            /\ \A i \in 1 .. Len(p) : p[i].line = l => p[i].num \in Nat /\ F < p[i].num
            => InOrder(l, w \o p)
      BY Behind
    <3>2. InOrder(l, EvWay) /\ InOrder(l, batch') /\ batch' \in Seq(AnyEdge) /\ Fetched(l) \in Nat
          /\ EvWay' = EvWay \o batch'
      BY <1>4, <1>5, <1>8, <2>1
    <3> QED
      BY <1>3, <2>3, <2>4, <3>1, <3>2, Zenon
  <2>6. l \in Buttons \/ setup.host \notin {"pd", "jack"}
          => Count(l, EvWay') + evLost'[l] = Fetched(l)'
    BY <1>4, <1>5, <1>8, <2>1, <2>2
  <2> QED
    BY <2>5, <2>6
<1> QED
  BY <1>6, <1>7, <1>8, EvMoves, Zenon
-----------------------------------------------------------------------------
(* The way to the rendered signals *)

\* All of them are sequences of edges.
LEMMA TevParts ==
  ASSUME PathType, AudioType
  PROVE  /\ held \in Seq(AnyEdge) /\ tev \in Seq(AnyEdge) /\ batch \in Seq(AnyEdge)
         /\ held \o tev \in Seq(AnyEdge) /\ tev \o batch \in Seq(AnyEdge)
         /\ TevWay \in Seq(AnyEdge) /\ TevWay = (held \o tev) \o batch
<1>1. held \in Seq(AnyEdge) /\ tev \in Seq(AnyEdge) /\ batch \in Seq(AnyEdge)
  BY DEF PathType, AudioType
<1>2. held \o tev \in Seq(AnyEdge) /\ tev \o batch \in Seq(AnyEdge)
  BY <1>1, ConcatProperties
<1>3. TevWay \in Seq(AnyEdge)
  BY <1>1, <1>2, ConcatProperties DEF TevWay
<1>4. TevWay = (held \o tev) \o batch
  BY <1>1, Assoc DEF TevWay
<1> QED
  BY <1>1, <1>2, <1>3, <1>4

\* They are of edges that were taken.
LEMMA TevTaken ==
  ASSUME PathType, AudioType, Queues, NEW i \in 1 .. Len(TevWay)
  PROVE  TevWay[i].num \in 1 .. Fetched(TevWay[i].line)
<1> DEFINE w == tev \o batch
<1>1. held \in Seq(AnyEdge) /\ tev \in Seq(AnyEdge) /\ batch \in Seq(AnyEdge) /\ w \in Seq(AnyEdge)
  BY TevParts
<1>2. \A s, t \in Seq(AnyEdge) :
        \A k \in 1 .. Len(s \o t) : \/ \E j \in 1 .. Len(s) : (s \o t)[k] = s[j]
                                    \/ \E j \in 1 .. Len(t) : (s \o t)[k] = t[j]
  BY Holding
<1>3. \A k \in 1 .. Len(w) : \/ \E j \in 1 .. Len(tev) : w[k] = tev[j]
                             \/ \E j \in 1 .. Len(batch) : w[k] = batch[j]
  BY <1>1, <1>2, Zenon
<1>4. \/ \E j \in 1 .. Len(held) : TevWay[i] = held[j]
      \/ \E j \in 1 .. Len(w) : TevWay[i] = w[j]
  BY <1>1, <1>2, Zenon DEF TevWay
<1> HIDE DEF w
<1>5. DOMAIN held = 1 .. Len(held) /\ DOMAIN tev = 1 .. Len(tev) /\ DOMAIN batch = 1 .. Len(batch)
  BY <1>1
<1>6. /\ \A j \in 1 .. Len(held) : held[j].num \in 1 .. Fetched(held[j].line)
      /\ \A j \in 1 .. Len(tev) : tev[j].num \in 1 .. Fetched(tev[j].line)
      /\ \A j \in 1 .. Len(batch) : batch[j].num \in 1 .. Fetched(batch[j].line)
  BY <1>5, Zenon DEF Queues, Real
<1> QED
  BY <1>3, <1>4, <1>6, Zenon

\* What is before the first due edge is of other lines: no line's time goes back.
LEMMA FirstDue ==
  ASSUME PathType, AudioType, Kernel, Queues, TevIntact,
         NEW i \in 1 .. Len(held), Due(held[i]), held[i].line \in Jacks,
         NEW j \in 1 .. i - 1, ~ Due(held[j])
  PROVE  held[j].line # held[i].line
<1> DEFINE l == held[i].line
<1>1. /\ i \in Nat /\ Len(held) \in Nat /\ DOMAIN held = 1 .. Len(held) /\ held \in Seq(AnyEdge)
      /\ j \in 1 .. Len(held) /\ j < i
  BY DEF AudioType
<1>2. SUFFICES ASSUME held[j].line = l PROVE FALSE
  OBVIOUS
<1>3. InOrder(l, TevWay)
  BY Zenon DEF TevIntact
<1>4. InOrder(l, held)
  <2>1. tev \o batch \in Seq(AnyEdge)
    BY TevParts
  <2> QED
    BY <1>1, <1>3, <2>1, OrderConcat, Zenon DEF TevWay
<1>5. held[j].num < held[i].num
  BY <1>1, <1>2, <1>4, Zenon DEF InOrder
<1>6. l \in Lines /\ held[i].num \in 1 .. Fetched(l) /\ held[j].num \in 1 .. Fetched(l)
  BY <1>1, <1>2, Zenon DEF Queues, Real
<1> HIDE DEF l
<1>7. /\ Fetched(l) \in Nat
      /\ \A n \in 1 .. Fetched(l) : edges[l][n] \in Nat
      /\ \A m, n \in 1 .. Fetched(l) : m <= n => edges[l][m] <= edges[l][n]
  BY <1>6, TimeIs
<1>8. edges[l][held[j].num] <= edges[l][held[i].num]
      /\ edges[l][held[j].num] \in Nat /\ edges[l][held[i].num] \in Nat
  <2>1. held[j].num <= held[i].num
    BY <1>5, <1>6, <1>7
  <2> QED
    BY <1>6, <1>7, <2>1
<1>9. TimeOf(held[j]) = edges[l][held[j].num] /\ TimeOf(held[i]) = edges[l][held[i].num]
  BY <1>2 DEF TimeOf, l
<1>10. Start + Window \in Int
  <2>1. Window \in Int
    <3>1. Frames \in Int /\ setup.period \in Int
      BY NumLines, LimitAssumption DEF PathType
    <3> QED
      BY <3>1 DEF Window
  <2>2. (IF again THEN block - 1 ELSE block) \in Int
    BY DEF AudioType
  <2> QED
    BY <2>1, <2>2 DEF Start
<1>11. TimeOf(held[i]) < Start + Window /\ ~ (TimeOf(held[j]) < Start + Window)
  BY DEF Due
<1> QED
  BY <1>8, <1>9, <1>10, <1>11

\* What happens on the way: edges move on, one is dropped or rendered, or a batch comes in.
LEMMA TevMoves ==
  ASSUME IInv, [Next]_vars
  PROVE  \/ /\ \A l \in Lines : Fetched(l)' = Fetched(l)
            /\ TevWay' = TevWay /\ UNCHANGED <<applied, tevLost>>
         \/ /\ \A l \in Lines : Fetched(l)' = Fetched(l)
            /\ \E s, t \in Seq(AnyEdge), e \in AnyEdge :
                 /\ TevWay = s \o (<<e>> \o t) /\ TevWay' = s \o t
                 /\ \/ e.line \notin Jacks /\ UNCHANGED <<applied, tevLost>>
                    \/ /\ e.line \in Jacks /\ applied' = applied
                       /\ tevLost' = [tevLost EXCEPT ![e.line] = @ + 1]
                    \/ /\ e.line \in Jacks /\ tevLost' = tevLost
                       /\ applied' = [applied EXCEPT ![e.line] = @ + 1]
                       /\ \A i \in 1 .. Len(s) : s[i].line # e.line
         \/ PollHal /\ UNCHANGED <<applied, tevLost>> /\ TevWay' = TevWay \o batch'
<1>1. PathType /\ AudioType /\ HostType /\ Kernel /\ Queues /\ Batch /\ TevIntact
  BY DEF IInv, TypeOK
<1>2. /\ held \in Seq(AnyEdge) /\ tev \in Seq(AnyEdge) /\ batch \in Seq(AnyEdge)
      /\ held \o tev \in Seq(AnyEdge) /\ tev \o batch \in Seq(AnyEdge)
      /\ TevWay \in Seq(AnyEdge) /\ TevWay = (held \o tev) \o batch
  BY <1>1, TevParts
<1>3. ASSUME UNCHANGED <<edges, kq>> \/ \E k \in Lines : Happen(k)
      PROVE  \A l \in Lines : Fetched(l)' = Fetched(l)
  BY <1>3, FetchedGrows
<1>4. ASSUME UNCHANGED <<held, tev, batch, applied, tevLost>>,
             UNCHANGED <<edges, kq>> \/ \E k \in Lines : Happen(k)
      PROVE  /\ \A l \in Lines : Fetched(l)' = Fetched(l)
             /\ TevWay' = TevWay /\ UNCHANGED <<applied, tevLost>>
  <2>1. TevWay' = TevWay
    BY <1>4 DEF TevWay
  <2> QED
    BY <1>3, <1>4, <2>1
<1>5. CASE UNCHANGED vars
  <2>1. UNCHANGED <<held, tev, batch, applied, tevLost, edges, kq>>
    BY <1>5 DEF vars, path, kernel, sampler, counts, audio
  <2> QED
    BY <1>4, <2>1
<1>6. CASE (Tick \/ (\E l \in Lines : Happen(l)) \/ StoreLevel \/ StoreSince)
           /\ UNCHANGED <<audio, polled, poller>>
  <2>1. /\ UNCHANGED <<held, tev, batch, applied, tevLost>>
        /\ UNCHANGED <<edges, kq>> \/ \E k \in Lines : Happen(k)
    BY <1>6 DEF kernel, sampler, counts, audio, Tick, Happen, StoreLevel, StoreSince
  <2> QED
    BY <1>4, <2>1
<1>7. CASE PollHal /\ UNCHANGED <<audio, polled, poller>>
  <2>1. spc = "poll" <=> batch = <<>>
    BY <1>1, Zenon DEF Batch
  <2>2. batch = <<>> /\ UNCHANGED <<held, tev, applied, tevLost>>
    BY <1>7, <2>1 DEF PollHal, counts, audio
  <2>3. TevWay = held \o tev
    <3>1. (held \o tev) \o <<>> = held \o tev
      BY <1>2, ConcatEmptySeq
    <3> QED
      BY <1>2, <2>2, <3>1
  <2>4. batch' \in Seq(AnyEdge)
    BY <1>1, <1>7, PollHalIs
  <2>5. TevWay' = held \o (tev \o batch')
    BY <2>2 DEF TevWay
  <2>6. held \o (tev \o batch') = (held \o tev) \o batch'
    BY <1>2, <2>4, Assoc, SMTT(30)
  <2> QED
    BY <1>7, <2>2, <2>3, <2>5, <2>6
<1>8. ASSUME spc # "poll", batch' = Tail(batch), UNCHANGED <<held, edges, kq, applied>>
      PROVE  /\ tev' = Append(tev, Head(batch)) => TevWay' = TevWay
             /\ tev' = tev => \E s, t \in Seq(AnyEdge) :
                  TevWay = s \o (<<Head(batch)>> \o t) /\ TevWay' = s \o t
  <2>1. batch # <<>> /\ Tail(batch) \in Seq(AnyEdge) /\ batch = <<Head(batch)>> \o Tail(batch)
    BY <1>1, <1>8, InHand
  <2>2. TevWay' = held \o (tev' \o Tail(batch))
    BY <1>8 DEF TevWay
  <2>3. Append(tev, Head(batch)) \o Tail(batch) = tev \o batch
    BY <1>2, <2>1, Move
  <2>4. tev' = Append(tev, Head(batch)) => TevWay' = TevWay
    BY <2>2, <2>3 DEF TevWay
  <2>5. held \o (tev \o Tail(batch)) = (held \o tev) \o Tail(batch)
    BY <1>2, <2>1, Assoc, SMTT(30)
  <2>6. tev' = tev => TevWay' = (held \o tev) \o Tail(batch)
    BY <2>2, <2>5
  <2>7. TevWay = (held \o tev) \o (<<Head(batch)>> \o Tail(batch))
    BY <1>2, <2>1
  <2> QED
    BY <1>2, <2>1, <2>4, <2>6, <2>7
<1>9. CASE PushEv /\ UNCHANGED <<audio, polled, poller>>
  <2>1. spc = "ev" /\ UNCHANGED <<edges, kq, held, applied, tev, tevLost>>
    BY <1>9 DEF PushEv, kernel, audio
  <2>2. CASE Head(batch).line \in Jacks
    <3>1. batch' = batch
      BY <1>9, <2>2 DEF PushEv
    <3> QED
      BY <1>4, <2>1, <3>1
  <2>3. CASE Head(batch).line \notin Jacks
    <3>1. batch' = Tail(batch)
      BY <1>9, <2>3 DEF PushEv, CountEvent
    <3>2. PICK s \in Seq(AnyEdge), t \in Seq(AnyEdge) :
            TevWay = s \o (<<Head(batch)>> \o t) /\ TevWay' = s \o t
      BY <1>8, <2>1, <3>1
    <3>3. Head(batch) \in AnyEdge
      BY <1>1, <2>1, InHand
    <3> QED
      BY <1>3, <2>1, <2>3, <3>2, <3>3
  <2> QED
    BY <2>2, <2>3
<1>10. CASE PushTev /\ UNCHANGED <<audio, polled, poller>>
  <2>1. spc = "tev" /\ batch' = Tail(batch) /\ UNCHANGED <<edges, kq, held, applied>>
    BY <1>10 DEF PushTev, CountEvent, kernel, audio
  <2>2. CASE tev' = Append(tev, Head(batch)) /\ tevLost' = tevLost
    BY <1>3, <1>8, <2>1, <2>2
  <2>3. CASE tev' = tev /\ tevLost' = [tevLost EXCEPT ![Head(batch).line] = @ + 1]
    <3>1. PICK s \in Seq(AnyEdge), t \in Seq(AnyEdge) :
            TevWay = s \o (<<Head(batch)>> \o t) /\ TevWay' = s \o t
      BY <1>8, <2>1, <2>3
    <3>2. Head(batch) \in AnyEdge
      BY <1>1, <2>1, InHand
    <3>3. Head(batch).line \in Jacks
      BY <1>1, <2>1, Zenon DEF Batch
    <3> QED
      BY <1>3, <2>1, <2>3, <3>1, <3>2, <3>3
  <2> QED
    BY <1>10, <2>2, <2>3 DEF PushTev
<1>11. CASE Audio /\ UNCHANGED <<now, kernel, sampler, poller>>
  <2>1. UNCHANGED <<edges, kq, batch, tevLost>>
    BY <1>11 DEF kernel, sampler, counts
  <2>2. CASE PollEvents \/ TriggerBlock \/ StartLevels \/ BlockDone
    <3>1. UNCHANGED <<held, tev, applied>>
      BY <2>2 DEF PollEvents, TriggerBlock, StartLevels, BlockDone, audio
    <3> QED
      BY <1>4, <2>1, <3>1
  <2>3. CASE DrainHeld
    <3>1. tev # <<>> /\ held' = Append(held, Head(tev)) /\ tev' = Tail(tev) /\ applied' = applied
      BY <2>3 DEF DrainHeld
    <3>2. \A s, t, u \in Seq(AnyEdge) : t # <<>> =>
            Append(s, Head(t)) \o (Tail(t) \o u) = s \o (t \o u)
      BY MoveOn
    <3>3. Append(held, Head(tev)) \o (Tail(tev) \o batch) = held \o (tev \o batch)
      <4>1. held \in Seq(AnyEdge) /\ tev \in Seq(AnyEdge) /\ batch \in Seq(AnyEdge)
            /\ tev # <<>>
        BY <1>2, <3>1
      <4> QED
        BY <3>2, <4>1, Zenon
    <3>4. TevWay' = TevWay
      BY <2>1, <3>1, <3>3 DEF TevWay
    <3> QED
      BY <1>3, <2>1, <3>1, <3>4
  <2>4. CASE PlaceEdge
    <3>1. PICK i \in DOMAIN held : /\ Due(held[i]) /\ \A j \in 1 .. i - 1 : ~ Due(held[j])
                                  /\ held' = RemoveAt(held, i)
                                  /\ applied' = [applied EXCEPT ![held[i].line] = @ + 1]
                                  /\ tev' = tev
      BY <2>4 DEF PlaceEdge
    <3> DEFINE a == SubSeq(held, 1, i - 1)
               b == SubSeq(held, i + 1, Len(held))
               e == held[i]
               t == b \o (tev \o batch)
    <3>2. i \in 1 .. Len(held)
      BY <1>2
    <3>3. /\ a \in Seq(AnyEdge) /\ b \in Seq(AnyEdge) /\ e \in AnyEdge
          /\ Len(a) = i - 1 /\ \A j \in 1 .. i - 1 : a[j] = held[j]
          /\ held = a \o (<<e>> \o b)
          /\ RemoveAt(held, i) = a \o b
      BY <1>2, <3>2, Around
    <3>4. e.line \in Jacks => \A j \in 1 .. i - 1 : held[j].line # e.line
      BY <1>1, <3>1, <3>2, FirstDue
    <3>5. Due(e) /\ held' = a \o b /\ applied' = [applied EXCEPT ![e.line] = @ + 1]
      BY <3>1, <3>3
    <3> HIDE DEF a, b, e
    <3>6. <<e>> \in Seq(AnyEdge) /\ <<e>> \o b \in Seq(AnyEdge) /\ t \in Seq(AnyEdge)
          /\ <<e>> \o t = (<<e>> \o b) \o (tev \o batch)
      <4>1. <<e>> \in Seq(AnyEdge)
        BY <3>3
      <4>2. <<e>> \o b \in Seq(AnyEdge) /\ t \in Seq(AnyEdge)
        BY <1>2, <3>3, <4>1, ConcatProperties
      <4>3. <<e>> \o t = (<<e>> \o b) \o (tev \o batch)
        <5>1. \A x, y, z \in Seq(AnyEdge) : x \o (y \o z) = (x \o y) \o z
          BY Assoc
        <5>2. b \in Seq(AnyEdge) /\ tev \o batch \in Seq(AnyEdge)
          BY <1>2, <3>3
        <5> QED
          BY <4>1, <5>1, <5>2, Zenon
      <4> QED
        BY <4>1, <4>2, <4>3
    <3>7. TevWay' = a \o t
      <4>1. TevWay' = (a \o b) \o (tev \o batch)
        BY <2>1, <3>1, <3>5 DEF TevWay
      <4>2. (a \o b) \o (tev \o batch) = a \o t
        <5>1. \A x, y, z \in Seq(AnyEdge) : x \o (y \o z) = (x \o y) \o z
          BY Assoc
        <5>2. a \in Seq(AnyEdge) /\ b \in Seq(AnyEdge) /\ tev \o batch \in Seq(AnyEdge)
          BY <1>2, <3>3
        <5> QED
          BY <5>1, <5>2, Zenon
      <4> QED
        BY <4>1, <4>2
    <3>8. TevWay = a \o (<<e>> \o t)
      <4>1. TevWay = (a \o (<<e>> \o b)) \o (tev \o batch)
        BY <3>3 DEF TevWay
      <4>2. \A x, y, z \in Seq(AnyEdge) : x \o (y \o z) = (x \o y) \o z
        BY Assoc
      <4>3. a \in Seq(AnyEdge) /\ <<e>> \o b \in Seq(AnyEdge) /\ tev \o batch \in Seq(AnyEdge)
        BY <1>2, <3>3, <3>6
      <4>4. a \o ((<<e>> \o b) \o (tev \o batch)) = (a \o (<<e>> \o b)) \o (tev \o batch)
        BY <4>2, <4>3, Zenon
      <4> QED
        BY <3>6, <4>1, <4>4
    <3> HIDE DEF t
    <3>9. CASE e.line \in Jacks
      <4>1. \A j \in 1 .. Len(a) : a[j].line # e.line
        BY <3>3, <3>4, <3>9
      <4> QED
        BY <1>3, <2>1, <3>3, <3>5, <3>6, <3>7, <3>8, <3>9, <4>1, Zenon
    <3>10. CASE e.line \notin Jacks
      <4>1. applied' = applied
        BY <1>1, <3>5, <3>10 DEF AudioType
      <4> QED
        BY <1>3, <2>1, <3>3, <3>6, <3>7, <3>8, <3>10, <4>1, Zenon
    <3> QED
      BY <3>9, <3>10
  <2> QED
    BY <1>11, <2>2, <2>3, <2>4 DEF Audio
<1>12. CASE Host /\ UNCHANGED <<now, kernel, sampler, tev, audio, polled>>
  <2>1. UNCHANGED <<held, tev, batch, applied, tevLost, edges, kq>>
    BY <1>12 DEF kernel, sampler, counts, audio
  <2> QED
    BY <1>4, <2>1
<1> QED
  BY <1>5, <1>6, <1>7, <1>9, <1>10, <1>11, <1>12, Steps, Zenon
\* Every step keeps the way to the rendered signals intact.
LEMMA TevIntactStep ==
  ASSUME IInv, [Next]_vars PROVE TevIntact'
<1>1. PathType /\ AudioType /\ HostType /\ Kernel /\ Queues /\ Batch /\ TevIntact
  BY DEF IInv, TypeOK
<1>2. Lines' = Lines /\ Jacks' = Jacks /\ Jacks \subseteq Lines
  BY <1>1, SetupStays, NumLines DEF PathType
<1>3. /\ held \in Seq(AnyEdge) /\ tev \in Seq(AnyEdge) /\ batch \in Seq(AnyEdge)
      /\ tev \o batch \in Seq(AnyEdge) /\ TevWay \in Seq(AnyEdge)
  BY <1>1, TevParts
<1> DEFINE Kept(l) == /\ InOrder(l, TevWay')
                      /\ applied'[l] + Count(l, TevWay') + tevLost'[l] = Fetched(l)'
                      /\ tevLost'[l] = 0 => \A i \in 1 .. Len(TevWay') :
                           TevWay'[i].line = l => applied'[l] < TevWay'[i].num
<1>4. TevWay' \in Seq(AnyEdge)
  <2>1. PathType' /\ AudioType'
    BY PathTypeStep, AudioTypeStep
  <2>2. tev' \o batch' \in Seq(AnyEdge) /\ held' \in Seq(AnyEdge)
    BY <2>1, ConcatProperties DEF PathType, AudioType
  <2> QED
    BY <2>2, ConcatProperties DEF TevWay
<1>5. SUFFICES ASSUME NEW l \in Jacks PROVE Kept(l)
  <2>1. DOMAIN TevWay' = 1 .. Len(TevWay')
    BY <1>4
  <2>2. \A l \in Jacks : Kept(l)
    BY <1>5, Zenon
  <2> QED
    BY <1>2, <2>1, <2>2, Zenon DEF TevIntact, InOrder, Count, Fetched
<1>6. /\ InOrder(l, TevWay)
      /\ applied[l] + Count(l, TevWay) + tevLost[l] = Fetched(l)
      /\ tevLost[l] = 0 => \A i \in 1 .. Len(TevWay) :
                             TevWay[i].line = l => applied[l] < TevWay[i].num
  <2>1. DOMAIN TevWay = 1 .. Len(TevWay)
    BY <1>3
  <2> QED
    BY <1>1, <2>1, Zenon DEF TevIntact
<1>7. /\ l \in Lines /\ tevLost[l] \in Nat /\ applied[l] \in Nat
      /\ Fetched(l) \in Nat /\ Fetched(l)' \in Nat /\ Fetched(l) <= Fetched(l)'
      /\ Count(l, TevWay) \in Nat /\ Count(l, TevWay') \in Nat
  BY <1>1, <1>2, <1>3, <1>4, FetchedGrows, CountIs DEF PathType, AudioType
<1>8. CASE /\ \A k \in Lines : Fetched(k)' = Fetched(k)
           /\ TevWay' = TevWay /\ UNCHANGED <<applied, tevLost>>
  BY <1>6, <1>7, <1>8
<1>9. ASSUME \A k \in Lines : Fetched(k)' = Fetched(k),
             NEW s \in Seq(AnyEdge), NEW t \in Seq(AnyEdge), NEW e \in AnyEdge,
             TevWay = s \o (<<e>> \o t), TevWay' = s \o t,
             \/ e.line \notin Jacks /\ UNCHANGED <<applied, tevLost>>
             \/ /\ e.line \in Jacks /\ applied' = applied
                /\ tevLost' = [tevLost EXCEPT ![e.line] = @ + 1]
             \/ /\ e.line \in Jacks /\ tevLost' = tevLost
                /\ applied' = [applied EXCEPT ![e.line] = @ + 1]
                /\ \A i \in 1 .. Len(s) : s[i].line # e.line
      PROVE  Kept(l)
  <2>1. /\ Count(l, TevWay) = Count(l, TevWay') + (IF e.line = l THEN 1 ELSE 0)
        /\ InOrder(l, TevWay')
        /\ Within(TevWay', TevWay)
    BY <1>6, <1>9, Drop
  <2>2. Fetched(l)' = Fetched(l)
    BY <1>7, <1>9
  <2>3. CASE applied'[l] = applied[l] /\ tevLost'[l] = tevLost[l] + (IF e.line = l THEN 1 ELSE 0)
    <3>1. applied[l] + Count(l, TevWay') + tevLost'[l] = Fetched(l)
      <4>1. \A a, c, k, f \in Nat : \A x \in {0, 1} : a + (c + x) + k = f => a + c + (k + x) = f
        OBVIOUS
      <4> DEFINE x == IF e.line = l THEN 1 ELSE 0
      <4>2. x \in {0, 1} /\ tevLost'[l] = tevLost[l] + x
        BY <2>3
      <4>3. applied[l] + (Count(l, TevWay') + x) + tevLost[l] = Fetched(l)
        BY <1>6, <2>1
      <4> HIDE DEF x
      <4>5. /\ applied[l] \in Nat /\ Count(l, TevWay') \in Nat /\ tevLost[l] \in Nat
            /\ Fetched(l) \in Nat
        BY <1>7
      <4>4. applied[l] + Count(l, TevWay') + (tevLost[l] + x) = Fetched(l)
        BY <4>1, <4>2, <4>3, <4>5
      <4> QED
        BY <4>2, <4>4
    <3>2. tevLost'[l] = 0 => tevLost[l] = 0
      BY <1>7, <2>3
    <3>3. tevLost[l] = 0 => \A i \in 1 .. Len(TevWay') :
                              TevWay'[i].line = l => applied[l] < TevWay'[i].num
      BY <1>6, <2>1, Zenon DEF Within
    <3> QED
      BY <2>1, <2>2, <2>3, <3>1, <3>2, <3>3
  <2>4. CASE /\ e.line = l /\ tevLost'[l] = tevLost[l] /\ applied'[l] = applied[l] + 1
             /\ \A i \in 1 .. Len(s) : s[i].line # l
    <3>1. applied'[l] + Count(l, TevWay') + tevLost'[l] = Fetched(l)
      <4>1. \A a, c, k, f \in Nat : a + (c + 1) + k = f => (a + 1) + c + k = f
        OBVIOUS
      <4>2. Count(l, TevWay) = Count(l, TevWay') + 1
        BY <2>1, <2>4
      <4>3. applied[l] + (Count(l, TevWay') + 1) + tevLost[l] = Fetched(l)
        BY <1>6, <4>2
      <4>5. /\ applied[l] \in Nat /\ Count(l, TevWay') \in Nat /\ tevLost[l] \in Nat
            /\ Fetched(l) \in Nat
        BY <1>7
      <4>4. (applied[l] + 1) + Count(l, TevWay') + tevLost[l] = Fetched(l)
        BY <4>1, <4>3, <4>5, SMTT(30)
      <4> QED
        BY <2>4, <4>4
    <3>2. ASSUME tevLost[l] = 0, NEW i \in 1 .. Len(TevWay'), TevWay'[i].line = l
          PROVE  applied'[l] < TevWay'[i].num
      <4> DEFINE u == <<e>> \o t
      <4>1. /\ u \in Seq(AnyEdge) /\ Len(u) = 1 + Len(t) /\ Len(t) \in Nat
            /\ u[1] = e /\ 1 \in 1 .. Len(u)
            /\ \A j \in 1 .. Len(t) : u[1 + j] = t[j] /\ 1 + j \in 1 .. Len(u)
        BY ConcatProperties
      <4>2. TevWay = s \o u
        BY <1>9
      <4> HIDE DEF u
      <4>3. PICK k \in 1 .. Len(TevWay) : TevWay[k] = e
        <5>1. Len(s \o u) = Len(s) + Len(u) /\ Len(s) \in Nat /\ Len(u) \in Nat
          BY <4>1
        <5>2. Len(s) + 1 \in 1 .. Len(s) + Len(u)
          BY <4>1, <5>1
        <5>3. (s \o u)[Len(s) + 1] = u[1]
          BY <4>1, <5>1, <5>2, ConcatProperties
        <5> QED
          BY <4>1, <4>2, <5>1, <5>2, <5>3
      <4>4. applied[l] < e.num
        BY <1>6, <2>4, <3>2, <4>3
      <4>5. InOrder(l, u)
        BY <1>6, <4>1, <4>2, OrderConcat, Zenon
      <4>6. PICK j \in 1 .. Len(t) : TevWay'[i] = t[j]
        <5>1. \/ \E j \in 1 .. Len(s) : TevWay'[i] = s[j]
              \/ \E j \in 1 .. Len(t) : TevWay'[i] = t[j]
          BY <1>9, Holding, ZenonT(40)
        <5> QED
          BY <2>4, <3>2, <5>1, Zenon
      <4>7. e.num < t[j].num
        <5>1. 1 \in DOMAIN u /\ 1 + j \in DOMAIN u /\ 1 < 1 + j
          BY <4>1
        <5>2. u[1].line = l /\ u[1 + j].line = l
          BY <2>4, <3>2, <4>1, <4>6
        <5>3. u[1].num < u[1 + j].num
          BY <4>5, <5>1, <5>2, Zenon DEF InOrder
        <5> QED
          BY <4>1, <5>3
      <4>8. e.num \in Nat /\ t[j].num \in Nat
        <5>1. t[j] \in AnyEdge
          BY <4>6
        <5> QED
          BY <5>1 DEF AnyEdge
      <4> QED
        <5>1. \A a, m, n \in Nat : a < m /\ m < n => a + 1 < n
          OBVIOUS
        <5> QED
          BY <1>7, <2>4, <4>4, <4>6, <4>7, <4>8, <5>1, Zenon
    <3> QED
      BY <2>1, <2>2, <2>4, <3>1, <3>2
  <2>5. CASE e.line \notin Jacks /\ UNCHANGED <<applied, tevLost>>
    <3>1. e.line # l
      BY <2>5
    <3> QED
      BY <1>7, <2>3, <2>5, <3>1
  <2>6. CASE /\ e.line \in Jacks /\ applied' = applied
             /\ tevLost' = [tevLost EXCEPT ![e.line] = @ + 1]
    <3>1. tevLost'[l] = tevLost[l] + (IF e.line = l THEN 1 ELSE 0)
      BY <1>1, <1>7, <2>6, SMTT(30) DEF PathType
    <3> QED
      BY <2>3, <2>6, <3>1
  <2>7. CASE /\ e.line \in Jacks /\ tevLost' = tevLost
             /\ applied' = [applied EXCEPT ![e.line] = @ + 1]
             /\ \A i \in 1 .. Len(s) : s[i].line # e.line
    <3>1. CASE e.line = l
      <4>1. applied'[l] = applied[l] + 1
        BY <1>1, <2>7, <3>1 DEF AudioType
      <4> QED
        BY <2>4, <2>7, <3>1, <4>1
    <3>2. CASE e.line # l
      <4>1. applied'[l] = applied[l] /\ tevLost'[l] = tevLost[l] + (IF e.line = l THEN 1 ELSE 0)
        BY <1>1, <1>7, <2>7, <3>2 DEF AudioType
      <4> QED
        BY <2>3, <4>1
    <3> QED
      BY <3>1, <3>2
  <2> QED
    BY <1>9, <2>5, <2>6, <2>7
<1>10. CASE PollHal /\ UNCHANGED <<applied, tevLost>> /\ TevWay' = TevWay \o batch'
  <2>1. /\ batch' \in Seq(AnyEdge)
        /\ InOrder(l, batch') /\ Count(l, batch') = Fetched(l)' - Fetched(l)
        /\ \A i \in 1 .. Len(batch') : batch'[i].line = l
                                      => batch'[i].num \in Fetched(l) + 1 .. Fetched(l)'
    BY <1>1, <1>7, <1>10, PollHalIs
  <2>2. Count(l, TevWay') = Count(l, TevWay) + Count(l, batch')
    BY <1>3, <1>10, <2>1, CountConcat
  <2>3. \A i \in 1 .. Len(batch') :
          batch'[i].line = l => batch'[i].num \in Nat /\ Fetched(l) < batch'[i].num
    BY <1>7, <2>1
  <2>4. \A s, t \in Seq(AnyEdge) :
          \A k \in 1 .. Len(s \o t) : \/ \E j \in 1 .. Len(s) : (s \o t)[k] = s[j]
                                      \/ \E j \in 1 .. Len(t) : (s \o t)[k] = t[j]
    BY Holding
  <2>5. \A i \in 1 .. Len(TevWay) : TevWay[i].line = l => TevWay[i].num \in 1 .. Fetched(l)
    BY <1>1, TevTaken
  <2>6. InOrder(l, TevWay')
    <3>1. \A w, p \in Seq(AnyEdge), F \in Nat :
            /\ InOrder(l, w) /\ InOrder(l, p)
            /\ \A i \in 1 .. Len(w) : w[i].line = l => w[i].num \in 1 .. F
            /\ \A i \in 1 .. Len(p) : p[i].line = l => p[i].num \in Nat /\ F < p[i].num
            => InOrder(l, w \o p)
      BY Behind
    <3>2. InOrder(l, TevWay) /\ InOrder(l, batch') /\ batch' \in Seq(AnyEdge) /\ Fetched(l) \in Nat
          /\ TevWay' = TevWay \o batch'
      BY <1>6, <1>7, <1>10, <2>1
    <3> QED
      BY <1>3, <2>3, <2>5, <3>1, <3>2, Zenon
  <2>7. applied'[l] + Count(l, TevWay') + tevLost'[l] = Fetched(l)'
    BY <1>6, <1>7, <1>10, <2>1, <2>2, SMTT(30)
  <2>8. ASSUME tevLost'[l] = 0, NEW i \in 1 .. Len(TevWay'), TevWay'[i].line = l
        PROVE  applied'[l] < TevWay'[i].num
    <3>1. \/ \E j \in 1 .. Len(TevWay) : TevWay'[i] = TevWay[j]
          \/ \E j \in 1 .. Len(batch') : TevWay'[i] = batch'[j]
      BY <1>3, <1>10, <2>1, <2>4, Zenon
    <3>2. applied[l] <= Fetched(l)
      BY <1>6, <1>7
    <3>3. ASSUME NEW j \in 1 .. Len(batch'), TevWay'[i] = batch'[j]
          PROVE  applied[l] < TevWay'[i].num
      BY <1>7, <2>3, <2>8, <3>2, <3>3
    <3> QED
      BY <1>6, <1>10, <2>8, <3>1, <3>3
  <2> QED
    BY <2>6, <2>7, <2>8
<1> HIDE DEF Kept
<1> QED
  BY <1>8, <1>9, <1>10, TevMoves, Zenon
-----------------------------------------------------------------------------
(* The hosts, and what they read of a button *)

\* Every step keeps each host to its own variables.
LEMMA HostsStep ==
  ASSUME IInv, [Next]_vars PROVE Hosts'
<1>1. Hosts
  BY DEF IInv
<1>2. setup' = setup
  BY SetupStays
<1>3. CASE UNCHANGED <<polled, poller>>
  BY <1>1, <1>2, <1>3 DEF poller, Hosts
<1>4. CASE Audio /\ UNCHANGED poller
  <2>1. setup.host # "render" => polled' = polled
    BY <1>4 DEF Audio, PollEvents, TriggerBlock, DrainHeld, StartLevels, PlaceEdge, BlockDone
  <2> QED
    BY <1>1, <1>2, <1>4, <2>1 DEF poller, Hosts
<1>5. CASE Host /\ UNCHANGED polled
  <2>1. CASE Wake
    BY <1>1, <1>2, <1>5, <2>1 DEF Wake, Hosts
  <2>2. CASE DrainOne
    BY <1>1, <1>2, <1>5, <2>2 DEF DrainOne, Hosts
  <2>3. CASE DrainDone
    BY <1>1, <1>2, <1>5, <2>3 DEF DrainDone, Hosts
  <2>4. CASE Skip
    BY <1>1, <1>2, <1>5, <2>4 DEF Skip, Hosts
  <2>5. CASE AllDone
    BY <1>1, <1>2, <1>5, <2>5 DEF AllDone, Hosts
  <2>6. CASE SendPress
    BY <1>1, <1>2, <1>5, <2>6 DEF SendPress, Hosts
  <2>7. CASE AskRelease
    BY <1>1, <1>2, <1>5, <2>7 DEF AskRelease, Question, Hosts
  <2>8. CASE SendNote
    BY <1>1, <1>2, <1>5, <2>8 DEF SendNote, Hosts
  <2>9. ASSUME NEW b \in Buttons, Ask(b) PROVE Hosts'
    BY <1>1, <1>2, <1>5, <2>9 DEF Ask, Question, Hosts
  <2>10. CASE LoadLevel
    BY <1>1, <1>2, <1>5, <2>10 DEF LoadLevel, Hosts
  <2>11. CASE LoadSince
    BY <1>1, <1>2, <1>5, <2>11 DEF LoadSince, Hosts
  <2>12. CASE Answer
    BY <1>1, <1>2, <1>5, <2>12 DEF Answer, Hosts
  <2> QED
    BY <1>5, <2>1, <2>2, <2>3, <2>4, <2>5, <2>6, <2>7, <2>8, <2>9, <2>10, <2>11, <2>12
       DEF Host
<1> QED
  BY <1>3, <1>4, <1>5, Steps DEF vars

\* An edge of the host's array is published.
LEMMA GotIs ==
  ASSUME PathType, HostType, Kernel, Queues, NEW j \in 1 .. Len(got)
  PROVE  /\ got[j] \in AnyEdge /\ got[j].line \in Lines
         /\ got[j].num \in 1 .. level[got[j].line]
         /\ got[j].num \in 1 .. Fetched(got[j].line)
         /\ got[j].num \in 1 .. Len(edges[got[j].line])
         /\ TimeOf(got[j]) \in Nat
<1>1. got \in Seq(AnyEdge) /\ DOMAIN got = 1 .. Len(got) /\ got[j] \in AnyEdge
  BY DEF HostType
<1>2. got[j].line \in Lines /\ got[j].num \in 1 .. level[got[j].line]
  BY <1>1, Zenon DEF Queues, Published
<1>3. /\ level[got[j].line] \in Nat /\ level[got[j].line] <= Fetched(got[j].line)
      /\ Fetched(got[j].line) \in Nat
      /\ \A n \in 1 .. Fetched(got[j].line) :
           n \in 1 .. Len(edges[got[j].line]) /\ edges[got[j].line][n] \in Nat
  BY <1>2, TimeIs DEF PathType, Queues
<1>4. got[j].num \in 1 .. Fetched(got[j].line)
  BY <1>2, <1>3
<1> QED
  BY <1>1, <1>2, <1>3, <1>4 DEF TimeOf

\* Every step keeps what tt_button_held_ms has loaded in line with the button.
LEMMA AskingStep ==
  ASSUME IInv, [Next]_vars PROVE Asking'
<1>1. PathType /\ HostType /\ Kernel /\ Queues /\ Batch /\ Times /\ Asking
  BY DEF IInv, TypeOK
<1>2. setup' = setup /\ Buttons' = Buttons /\ Buttons \subseteq Lines
  BY <1>1, SetupStays, NumLines DEF PathType
<1>3. CASE UNCHANGED poller
  <2>1. UNCHANGED <<hpc, got, since, asked, asof>>
    BY <1>3 DEF poller, asking
  <2>2. CASE hpc \notin {"level", "levelLast", "since", "answer"}
    BY <2>1, <2>2 DEF Asking
  <2>3. CASE hpc \in {"level", "levelLast", "since", "answer"}
    <3>1. /\ asked \in Buttons /\ asked \in Lines /\ asof <= WhollyPublished(asked)
          /\ setup.host = "pd" => got # <<>> /\ Head(got).line = asked
      BY <1>1, <1>2, <2>3 DEF Asking
    <3>2. asof <= WhollyPublished(asked)'
      <4>1. PICK b \in Buttons : b = asked
        BY <3>1
      <4>2. /\ WhollyPublished(b) \in Nat /\ asof \in Nat /\ asof <= WhollyPublished(b)
            /\ WhollyPublished(b)' \in Nat /\ WhollyPublished(b) <= WhollyPublished(b)'
        BY <1>1, <3>1, <4>1, WhollyIs, WhollyGrows DEF HostType
      <4>3. WhollyPublished(asked)' = WhollyPublished(b)'
        BY <2>1, <4>1 DEF WhollyPublished
      <4> QED
        BY <4>2, <4>3
    <3>3. hpc \in {"levelLast", "answer"} /\ since > 0 =>
            \E p \in DOMAIN edges'[asked] : p >= asof /\ Active(p) /\ edges'[asked][p] = since
      <4>1. hpc \in {"levelLast", "answer"} /\ since > 0 =>
              \E p \in DOMAIN edges[asked] : p >= asof /\ Active(p) /\ edges[asked][p] = since
        BY <1>1, Zenon DEF Asking
      <4>2. /\ DOMAIN edges[asked] = 1 .. Len(edges[asked])
            /\ DOMAIN edges'[asked] = 1 .. Len(edges'[asked])
            /\ \A n \in 1 .. Len(edges[asked]) :
                 n \in 1 .. Len(edges'[asked]) /\ edges'[asked][n] = edges[asked][n]
        BY <3>1, EdgesStay
      <4> QED
        BY <4>1, <4>2, Zenon
    <3> QED
      BY <1>2, <2>1, <3>1, <3>2, <3>3, Zenon DEF Asking
  <2> QED
    BY <2>2, <2>3
<1>4. CASE Host /\ UNCHANGED <<now, kernel, sampler, tev, audio, polled>>
  <2>1. UNCHANGED <<edges, spc, batch, level>>
    BY <1>4 DEF kernel, sampler
  <2>2. CASE \/ Wake \/ DrainOne \/ DrainDone \/ Skip \/ AllDone \/ SendPress \/ SendNote \/ Answer
    <3>1. hpc' \in {"drain", "events", "idle"}
      BY <2>2 DEF Wake, DrainOne, DrainDone, Skip, AllDone, SendPress, SendNote, Answer
    <3> QED
      BY <3>1 DEF Asking
  <2>3. ASSUME NEW b \in Buttons, Question(b), setup.host = "pd" => got' # <<>> /\ Head(got').line = b
        PROVE  Asking'
    <3>1. hpc' = "level" /\ asked' = b /\ asof' = WhollyPublished(b) /\ WhollyPublished(b) \in Nat
      BY <1>1, <2>3, WhollyIs DEF Question
    <3>2. WhollyPublished(asked)' = WhollyPublished(b)
      BY <2>1, <3>1 DEF WhollyPublished
    <3> QED
      BY <1>2, <2>3, <3>1, <3>2 DEF Asking
  <2>4. CASE AskRelease
    <3>1. /\ got # <<>> /\ got' = got /\ Head(got).line \in Buttons /\ Question(Head(got).line)
      BY <2>4 DEF AskRelease
    <3> QED
      BY <2>3, <3>1
  <2>5. ASSUME NEW b \in Buttons, Ask(b) PROVE Asking'
    BY <2>3, <2>5 DEF Ask
  <2>6. ASSUME UNCHANGED <<got, asked, asof>>, hpc \in {"level", "levelLast", "since"},
               hpc' \in {"levelLast", "answer"} /\ since' > 0 =>
                 \E p \in DOMAIN edges[asked] : p >= asof /\ Active(p) /\ edges[asked][p] = since'
        PROVE  Asking'
    <3>1. /\ asked \in Buttons /\ asof <= WhollyPublished(asked)
          /\ setup.host = "pd" => got # <<>> /\ Head(got).line = asked
      BY <1>1, <2>6 DEF Asking
    <3>2. WhollyPublished(asked)' = WhollyPublished(asked)
      BY <2>1, <2>6 DEF WhollyPublished
    <3> QED
      BY <1>2, <2>1, <2>6, <3>1, <3>2, Zenon DEF Asking
  <2>7. CASE LoadLevel
    <3>1. /\ hpc \in {"level", "levelLast"} /\ UNCHANGED <<got, asked, asof>>
          /\ hpc' = (IF hpc = "level" THEN "since" ELSE "answer")
          /\ since' = IF hpc = "levelLast" /\ Active(level[asked]) THEN since ELSE 0
      BY <2>7 DEF LoadLevel
    <3>2. ASSUME hpc' \in {"levelLast", "answer"}, since' > 0
          PROVE  hpc = "levelLast" /\ since > 0 /\ since' = since
      BY <3>1, <3>2
    <3>3. hpc' \in {"levelLast", "answer"} /\ since' > 0 =>
            \E p \in DOMAIN edges[asked] : p >= asof /\ Active(p) /\ edges[asked][p] = since'
      BY <1>1, <3>2, Zenon DEF Asking
    <3> QED
      BY <2>6, <3>1, <3>3
  <2>8. CASE LoadSince
    <3>1. /\ hpc \in {"level", "since"} /\ UNCHANGED <<got, asked, asof>>
          /\ since' = btnSince[asked] \/ since' = 0
      BY <2>8 DEF LoadSince
    <3>2. asked \in Buttons /\ asof <= WhollyPublished(asked)
      BY <1>1, <3>1 DEF Asking
    <3>3. ASSUME since' > 0
          PROVE  \E p \in DOMAIN edges[asked] : p >= asof /\ Active(p) /\ edges[asked][p] = since'
      <4> DEFINE n == SinceNum(asked)
      <4>1. since' = PressTime(asked, n)
        BY <1>1, <3>1, <3>2, <3>3 DEF Times
      <4>2. Active(n) /\ edges[asked][n] = since'
        BY <3>3, <4>1 DEF PressTime
      <4>3. /\ n \in 0 .. Fetched(asked) /\ Fetched(asked) \in Nat /\ asked \in Lines
            /\ WhollyPublished(asked) \in Nat /\ WhollyPublished(asked) <= n /\ asof \in Nat
        BY <1>1, <3>2, SinceNumIs DEF HostType
      <4> HIDE DEF n
      <4>4. n # 0
        BY <4>2 DEF Active
      <4>5. n \in DOMAIN edges[asked]
        <5>1. /\ DOMAIN edges[asked] = 1 .. Len(edges[asked])
              /\ \A k \in 1 .. Fetched(asked) : k \in 1 .. Len(edges[asked])
          BY <1>1, <4>3, TimeIs
        <5>2. n \in 1 .. Fetched(asked)
          BY <4>3, <4>4
        <5> QED
          BY <5>1, <5>2
      <4>6. n >= asof
        BY <3>2, <4>3
      <4> QED
        BY <4>2, <4>5, <4>6
    <3> QED
      BY <2>6, <3>1, <3>3
  <2> QED
    BY <1>4, <2>2, <2>4, <2>5, <2>7, <2>8 DEF Host
<1> QED
  BY <1>3, <1>4, Steps DEF vars

\* Division is monotone.
LEMMA DivGrows ==
  ASSUME NEW a \in Nat, NEW b \in Nat, a <= b, NEW d \in Nat, d >= 1
  PROVE  a \div d \in Nat /\ b \div d \in Nat /\ a \div d <= b \div d
  BY Z3

\* The frame of a note is not before that of an earlier edge.
LEMMA OffsetGrows ==
  ASSUME PathType, cycle \in Nat, NEW e, NEW f,
         TimeOf(e) \in Nat, TimeOf(f) \in Nat, TimeOf(e) <= TimeOf(f)
  PROVE  Offset(e) \in Nat /\ Offset(f) \in Nat /\ Offset(e) <= Offset(f)
<1> DEFINE s == TimeOf(e)
           t == TimeOf(f)
           c == CycleStart
           d == setup.period
<1>1. s \in Nat /\ t \in Nat /\ s <= t
  OBVIOUS
<1>2. d \in Nat /\ d >= 1 /\ Frames \in Nat /\ Frames >= 1
  BY NumLines, LimitAssumption DEF PathType
<1>3. c \in Nat
  BY <1>2 DEF CycleStart, Window
<1>4. /\ Offset(e) = IF s <= c THEN 0 ELSE Least(Frames - 1, (s - c) \div d)
      /\ Offset(f) = IF t <= c THEN 0 ELSE Least(Frames - 1, (t - c) \div d)
  BY DEF Offset
<1> HIDE DEF s, t, c, d
<1>5. CASE ~ (s <= c)
  <2> DEFINE x == (s - c) \div d
             y == (t - c) \div d
  <2>1. s - c \in Nat /\ t - c \in Nat /\ s - c <= t - c /\ ~ (t <= c)
    BY <1>1, <1>3, <1>5
  <2>2. x \in Nat /\ y \in Nat /\ x <= y
    BY <1>2, <2>1, DivGrows
  <2>3. Offset(e) = Least(Frames - 1, x) /\ Offset(f) = Least(Frames - 1, y)
    BY <1>4, <1>5, <2>1
  <2> HIDE DEF x, y
  <2> QED
    BY <1>2, <2>2, <2>3 DEF Least
<1>6. CASE s <= c /\ ~ (t <= c)
  <2> DEFINE y == (t - c) \div d
  <2>1. t - c \in Nat
    BY <1>1, <1>3, <1>6
  <2>2. y \in Nat
    BY <1>2, <2>1, DivGrows
  <2>3. Offset(e) = 0 /\ Offset(f) = Least(Frames - 1, y)
    BY <1>4, <1>6
  <2> HIDE DEF y
  <2> QED
    BY <1>2, <2>2, <2>3 DEF Least
<1>7. CASE s <= c /\ t <= c
  BY <1>4, <1>7
<1> QED
  BY <1>1, <1>3, <1>5, <1>6, <1>7

\* The edges of a line in the host's array are in order, and so are their frames.
LEMMA GotInOrder ==
  ASSUME PathType, AudioType, HostType, Kernel, Queues, Batch, EvIntact,
         NEW i \in 1 .. Len(got), NEW j \in 1 .. Len(got), i < j, got[i].line = got[j].line
  PROVE  Offset(got[i]) <= Offset(got[j])
<1> DEFINE l == got[i].line
<1>1. /\ got[i].line \in Lines /\ got[i].num \in 1 .. Fetched(got[i].line)
      /\ got[j].line \in Lines /\ got[j].num \in 1 .. Fetched(got[j].line)
      /\ TimeOf(got[i]) \in Nat /\ TimeOf(got[j]) \in Nat
  BY GotIs
<1>2. InOrder(l, EvWay)
  BY <1>1, Zenon DEF EvIntact
<1>3. /\ polled \in Seq(AnyEdge) /\ Dealt \in Seq(AnyEdge) /\ got \in Seq(AnyEdge)
      /\ Dealt \o got \in Seq(AnyEdge) /\ Drained \in Seq(AnyEdge)
      /\ ev \o Left \in Seq(AnyEdge)
  BY EvParts
<1>4. \A s, t \in Seq(AnyEdge) : InOrder(l, s \o t) => InOrder(l, s) /\ InOrder(l, t)
  BY OrderConcat
<1>5. InOrder(l, Drained)
  BY <1>2, <1>3, <1>4, Zenon DEF EvWay
<1>6. InOrder(l, Dealt \o got)
  BY <1>3, <1>4, <1>5, Zenon DEF Drained
<1>7. InOrder(l, got)
  BY <1>3, <1>4, <1>6, Zenon
<1>8. DOMAIN got = 1 .. Len(got)
  BY <1>3
<1>9. got[i].num < got[j].num
  BY <1>7, <1>8, Zenon DEF InOrder
<1>10. TimeOf(got[i]) <= TimeOf(got[j])
  <2>1. /\ Fetched(l) \in Nat /\ l = got[j].line /\ l \in Lines
        /\ got[i].num \in 1 .. Fetched(l) /\ got[j].num \in 1 .. Fetched(l)
    BY <1>1, TimeIs
  <2>2. got[i].num <= got[j].num
    BY <1>9, <2>1
  <2>3. \A m, n \in 1 .. Fetched(l) : m <= n => edges[l][m] <= edges[l][n]
    BY <2>1, TimeIs
  <2>4. edges[l][got[i].num] <= edges[l][got[j].num]
    BY <2>1, <2>2, <2>3, Zenon
  <2> QED
    BY <2>1, <2>4, Zenon DEF TimeOf
<1>11. cycle \in Nat
  BY DEF HostType
<1> QED
  BY <1>1, <1>10, <1>11, OffsetGrows

\* Every step keeps the notes written before the frames of their buttons' later edges.
LEMMA NotesStep ==
  ASSUME IInv, [Next]_vars PROVE Notes'
<1>1. PathType /\ AudioType /\ HostType /\ Kernel /\ Queues /\ Batch /\ EvIntact /\ Hosts /\ Notes
  BY DEF IInv, TypeOK
<1>2. setup' = setup /\ Window' = Window
  BY SetupStays
<1>3. got \in Seq(AnyEdge) /\ DOMAIN got = 1 .. Len(got) /\ Len(got) \in Nat
      /\ midi \in Seq(Note) /\ DOMAIN midi = 1 .. Len(midi) /\ Len(midi) \in Nat
  BY <1>1 DEF HostType
<1>4. \A i \in DOMAIN midi, j \in DOMAIN got :
        midi[i].line = got[j].line => midi[i].off <= Offset(got[j])
  BY <1>1, Zenon DEF Notes
<1>5. CASE midi' = <<>>
  BY <1>5 DEF Notes
<1>6. CASE got' = <<>>
  BY <1>6 DEF Notes
<1>7. CASE UNCHANGED <<got, midi, cycle>>
  <2>1. ASSUME NEW j \in DOMAIN got
        PROVE  edges'[got[j].line][got[j].num] = edges[got[j].line][got[j].num]
    <3>1. got[j].line \in Lines /\ got[j].num \in 1 .. Len(edges[got[j].line])
      BY <1>1, <1>3, <2>1, GotIs
    <3> QED
      BY <3>1, EdgesStay
  <2>2. \A j \in DOMAIN got : Offset(got[j])' = Offset(got[j])
    BY <1>2, <1>7, <2>1 DEF Offset, TimeOf, CycleStart
  <2> QED
    BY <1>4, <1>7, <2>2, Zenon DEF Notes
<1>8. CASE Host /\ UNCHANGED <<now, kernel, sampler, tev, audio, polled>>
  <2>1. edges' = edges
    BY <1>8 DEF kernel
  <2>2. ASSUME got # <<>>, got' = Tail(got)
        PROVE  \A j \in DOMAIN got' : j + 1 \in 1 .. Len(got) /\ 1 < j + 1 /\ got'[j] = got[j + 1]
    <3>1. Len(Tail(got)) = Len(got) - 1 /\ DOMAIN Tail(got) = 1 .. Len(got) - 1
          /\ \A j \in 1 .. Len(got) - 1 : Tail(got)[j] = got[j + 1]
      BY <1>3, <2>2
    <3> QED
      BY <1>3, <2>2, <3>1
  <2>3. ASSUME cycle' = cycle, NEW j \in DOMAIN got'
        PROVE  Offset(got[j])' = Offset(got'[j])
    BY <1>2, <2>1, <2>3 DEF Offset, TimeOf, CycleStart
  <2>4. CASE Skip
    <3>1. got # <<>> /\ got' = Tail(got) /\ midi' = midi /\ cycle' = cycle
      BY <2>4 DEF Skip
    <3>2. ASSUME NEW i \in DOMAIN midi, NEW j \in DOMAIN got', midi[i].line = got'[j].line
          PROVE  midi[i].off <= Offset(got[j])'
      <4>1. j + 1 \in DOMAIN got /\ got'[j] = got[j + 1]
        BY <1>3, <2>2, <3>1, <3>2
      <4>2. midi[i].off <= Offset(got[j + 1])
        BY <1>4, <3>2, <4>1, Zenon
      <4> QED
        BY <2>3, <3>1, <3>2, <4>1, <4>2
    <3> QED
      BY <3>1, <3>2, Zenon DEF Notes
  <2>5. CASE SendNote
    <3> DEFINE n == [line |-> Head(got).line, off |-> Offset(Head(got))]
    <3>1. got # <<>> /\ got' = Tail(got) /\ cycle' = cycle
          /\ (midi' = midi \/ midi' = Append(midi, n))
      BY <2>5, Zenon DEF SendNote
    <3>2. Head(got) = got[1] /\ 1 \in 1 .. Len(got)
      BY <1>3, <3>1
    <3>3. ASSUME NEW i \in DOMAIN midi'
          PROVE  (i \in DOMAIN midi /\ midi'[i] = midi[i]) \/ midi'[i] = n
      <4>1. CASE midi' = midi
        BY <3>3, <4>1
      <4>2. CASE midi' = Append(midi, n)
        <5> HIDE DEF n
        <5>1. DOMAIN midi' = 1 .. Len(midi) + 1 /\ midi'[Len(midi) + 1] = n
              /\ \A k \in 1 .. Len(midi) : midi'[k] = midi[k]
          BY <1>3, <4>2
        <5> QED
          BY <1>3, <3>3, <5>1
      <4> QED
        BY <3>1, <4>1, <4>2
    <3>4. ASSUME NEW i \in DOMAIN midi', NEW j \in DOMAIN got', midi'[i].line = got'[j].line
          PROVE  midi'[i].off <= Offset(got[j])'
      <4>1. j + 1 \in 1 .. Len(got) /\ 1 < j + 1 /\ got'[j] = got[j + 1]
        BY <2>2, <3>1, <3>4
      <4>2. CASE i \in DOMAIN midi /\ midi'[i] = midi[i]
        <5>1. midi[i].off <= Offset(got[j + 1])
          BY <1>3, <1>4, <3>4, <4>1, <4>2, Zenon
        <5> QED
          BY <2>3, <3>1, <3>4, <4>1, <4>2, <5>1
      <4>3. CASE midi'[i] = n
        <5>1. midi'[i].off = Offset(got[1]) /\ got[1].line = got[j + 1].line
          BY <3>2, <3>4, <4>1, <4>3
        <5>2. Offset(got[1]) <= Offset(got[j + 1])
          BY <1>1, <3>2, <4>1, <5>1, GotInOrder
        <5> QED
          BY <2>3, <3>1, <3>4, <4>1, <5>1, <5>2
      <4> QED
        BY <3>3, <3>4, <4>2, <4>3
    <3> QED
      BY <3>4, Zenon DEF Notes
  <2>6. CASE DrainOne \/ SendPress \/ Answer
    <3>1. midi' = midi
      BY <2>6 DEF DrainOne, SendPress, Answer
    <3>2. hpc = "drain" \/ setup.host # "jack"
      BY <1>1, <2>6 DEF DrainOne, SendPress, Answer, Hosts
    <3>3. midi = <<>>
      BY <1>1, <3>2, Zenon DEF Hosts
    <3> QED
      BY <1>5, <3>1, <3>3
  <2>7. CASE AllDone
    <3>1. got' = <<>>
      BY <2>7 DEF AllDone
    <3> QED
      BY <1>6, <3>1
  <2>8. CASE Wake
    BY <1>5, <2>8 DEF Wake
  <2>9. CASE DrainDone \/ AskRelease \/ (\E b \in Buttons : Ask(b)) \/ LoadLevel \/ LoadSince
    <3>1. UNCHANGED <<got, midi, cycle>>
      BY <2>9 DEF DrainDone, AskRelease, Ask, LoadLevel, LoadSince
    <3> QED
      BY <1>7, <3>1
  <2> QED
    BY <1>8, <2>4, <2>5, <2>6, <2>7, <2>8, <2>9 DEF Host
<1>9. CASE UNCHANGED poller
  BY <1>7, <1>9 DEF poller
<1> QED
  BY <1>8, <1>9, Steps DEF vars
-----------------------------------------------------------------------------
(* The theorems *)

\* The invariant holds for every host and all sizes.
THEOREM Invariance == Spec => []IInv
<1>1. Init => IInv
  BY InitHolds
<1>2. ASSUME IInv, [Next]_vars PROVE IInv'
  BY <1>2, PathTypeStep, AudioTypeStep, HostTypeStep, KernelStep, QueuesStep, BatchStep,
     TimesStep, EvIntactStep, TevIntactStep, HostsStep, AskingStep, NotesStep
     DEF IInv, TypeOK
<1> QED
  BY <1>1, <1>2, PTL DEF Spec

\* What the kernel still has of a line goes behind what was taken.
LEMMA WithKernel ==
  ASSUME PathType, Kernel, NEW l \in Lines, NEW w \in Seq(AnyEdge), InOrder(l, w),
         \A i \in 1 .. Len(w) : w[i].line = l => w[i].num \in 1 .. Fetched(l)
  PROVE  /\ kq[l] \in Seq(AnyEdge) /\ w \o kq[l] \in Seq(AnyEdge)
         /\ InOrder(l, w \o kq[l])
         /\ Count(l, w) \in Nat /\ Count(l, w \o kq[l]) = Count(l, w) + Len(kq[l])
         /\ Fetched(l) + Len(kq[l]) = Len(edges[l])
         /\ \A i \in 1 .. Len(kq[l]) : kq[l][i].num \in Nat /\ Fetched(l) < kq[l][i].num
<1> DEFINE p == kq[l]
           n == Len(kq[l])
           F == Fetched(l)
<1>1. p \in Seq(AnyEdge) /\ n \in Nat /\ F \in Nat /\ Len(edges[l]) \in Nat
  BY TimeIs DEF PathType
<1>2. p = SubSeq(p, 1, n)
  BY <1>1
<1>3. n \in 0 .. n
  BY <1>1
<1>4. /\ \A i \in 1 .. n : p[i] = Edge(l, F + i) /\ p[i].num = F + i
      /\ InOrder(l, p) /\ Count(l, p) = n
  <2> DEFINE q == SubSeq(p, 1, n)
  <2>1. /\ \A i \in 1 .. n : q[i] = Edge(l, F + i)
        /\ \A k \in Lines : InOrder(k, q) /\ Count(k, q) = IF k = l THEN n ELSE 0
    BY <1>3, FromKernel
  <2>2. q = p
    BY <1>2
  <2> HIDE DEF p, n, F, q
  <2>3. \A i \in 1 .. n : q[i].num = F + i
    <3>1. \A k : Edge(l, k).num = k
      BY DEF Edge
    <3> QED
      BY <2>1, <3>1, Zenon
  <2>4. InOrder(l, q) /\ Count(l, q) = n
    BY <2>1
  <2> QED
    BY <2>1, <2>2, <2>3, <2>4, Zenon
<1>5. F = Len(edges[l]) - n
  BY DEF Fetched
<1> HIDE DEF p, n, F
<1>6. \A i \in 1 .. n : p[i].num \in Nat /\ F < p[i].num
  <2>1. \A i \in 1 .. n : p[i].num = F + i
    BY <1>4, Zenon
  <2> QED
    BY <1>1, <2>1
<1>7. Len(p) = n
  BY DEF p, n
<1>8. InOrder(l, w \o p)
  <2>1. \A i \in 1 .. Len(p) : p[i].line = l => p[i].num \in Nat /\ F < p[i].num
    BY <1>6, <1>7
  <2>2. \A i \in 1 .. Len(w) : w[i].line = l => w[i].num \in 1 .. F
    BY DEF F
  <2> QED
    BY <1>1, <1>4, <2>1, <2>2, Behind
<1>9. Count(l, w) \in Nat /\ Count(l, w \o p) = Count(l, w) + n /\ w \o p \in Seq(AnyEdge)
  BY <1>1, <1>4, CountIs, CountConcat, ConcatProperties
<1>10. F + n = Len(edges[l])
  BY <1>1, <1>5
<1> QED
  BY <1>1, <1>6, <1>8, <1>9, <1>10 DEF p, n, F

\* The way through held and tev, with what the kernel has behind it.
LEMMA RenderPathFrom == IInv => RenderPathIntact
<1> SUFFICES ASSUME IInv, NEW l \in Rendered
             PROVE  LET way == held \o tev \o batch \o kq[l] IN
                    /\ InOrder(l, way)
                    /\ applied[l] + Count(l, way) + tevLost[l] = Len(edges[l])
                    /\ tevLost[l] = 0 =>
                         \A i \in DOMAIN way : way[i].line = l => applied[l] < way[i].num
  BY Zenon DEF RenderPathIntact
<1> l \in Jacks
  BY DEF Rendered
<1>1. PathType /\ AudioType /\ Kernel /\ Queues /\ TevIntact
  BY DEF IInv, TypeOK
<1>2. l \in Lines /\ applied[l] \in Nat /\ tevLost[l] \in Nat /\ Fetched(l) \in Nat
  BY <1>1, NumLines, TimeIs DEF PathType, AudioType
<1> DEFINE w == TevWay
           way == w \o kq[l]
<1>3. w \in Seq(AnyEdge) /\ w = (held \o tev) \o batch
  BY <1>1, TevParts
<1>4. /\ InOrder(l, w) /\ applied[l] + Count(l, w) + tevLost[l] = Fetched(l)
      /\ tevLost[l] = 0 => \A i \in 1 .. Len(w) : w[i].line = l => applied[l] < w[i].num
  <2>1. DOMAIN TevWay = 1 .. Len(TevWay)
    BY <1>3
  <2> QED
    BY <1>1, <2>1, Zenon DEF TevIntact
<1>5. \A i \in 1 .. Len(w) : w[i].line = l => w[i].num \in 1 .. Fetched(l)
  BY <1>1, TevTaken
<1> HIDE DEF w
<1>6. /\ kq[l] \in Seq(AnyEdge) /\ way \in Seq(AnyEdge) /\ InOrder(l, way)
      /\ Count(l, w) \in Nat /\ Count(l, way) = Count(l, w) + Len(kq[l])
      /\ Fetched(l) + Len(kq[l]) = Len(edges[l])
      /\ \A i \in 1 .. Len(kq[l]) : kq[l][i].num \in Nat /\ Fetched(l) < kq[l][i].num
  BY <1>1, <1>2, <1>3, <1>4, <1>5, WithKernel
<1>7. applied[l] + Count(l, way) + tevLost[l] = Len(edges[l])
  <2>1. \A a, c, k, n, f \in Nat : a + c + k = f => a + (c + n) + k = f + n
    OBVIOUS
  <2>2. Len(kq[l]) \in Nat /\ Count(l, w) \in Nat
    BY <1>6
  <2>3. applied[l] + (Count(l, w) + Len(kq[l])) + tevLost[l] = Fetched(l) + Len(kq[l])
    BY <1>2, <1>4, <2>1, <2>2
  <2> QED
    BY <1>6, <2>3
<1>8. ASSUME tevLost[l] = 0, NEW i \in DOMAIN way, way[i].line = l
      PROVE  applied[l] < way[i].num
  <2>1. \/ \E j \in 1 .. Len(w) : way[i] = w[j]
        \/ \E j \in 1 .. Len(kq[l]) : way[i] = kq[l][j]
    <3>1. i \in 1 .. Len(way)
      BY <1>6, <1>8
    <3> QED
      BY <1>3, <1>6, <3>1, Holding, ZenonT(40)
  <2>2. applied[l] <= Fetched(l)
    <3>1. \A a, c, f \in Nat : a + c + 0 = f => a <= f
      OBVIOUS
    <3> QED
      BY <1>2, <1>4, <1>6, <1>8, <3>1
  <2>3. ASSUME NEW j \in 1 .. Len(kq[l]), way[i] = kq[l][j] PROVE applied[l] < way[i].num
    BY <1>2, <1>6, <2>2, <2>3
  <2> QED
    BY <1>4, <1>8, <2>1, <2>3, Zenon
<1>9. way = held \o tev \o batch \o kq[l]
  BY <1>3
<1> QED
  BY <1>6, <1>7, <1>8, <1>9, Zenon

\* On each jack that every block asks for, no edge is lost, repeated or overtaken on
\* the way to the rendered signals, of all the objects that share the context taken
\* together, except those the renderers' ring refused and counted.
THEOREM RenderPath == Spec => []RenderPathIntact
  BY Invariance, RenderPathFrom, PTL

\* The ways of the hosts that poll and of those that deal with events.
LEMMA WaysAre ==
  ASSUME IInv
  PROVE  /\ setup.host = "render" => EvWay = (polled \o ev) \o Left
         /\ setup.host \in {"pd", "jack"} => EvWay = ((Dealt \o got) \o ev) \o Left
<1>1. PathType /\ AudioType /\ HostType /\ Batch /\ Hosts
  BY DEF IInv, TypeOK
<1>2. /\ polled \in Seq(AnyEdge) /\ Dealt \in Seq(AnyEdge) /\ got \in Seq(AnyEdge)
      /\ ev \in Seq(AnyEdge) /\ Left \in Seq(AnyEdge) /\ Dealt \o got \in Seq(AnyEdge)
  BY <1>1, EvParts
<1>3. \A x, y, z \in Seq(AnyEdge) : x \o (y \o z) = (x \o y) \o z
  BY Assoc
<1>4. \A x \in Seq(AnyEdge) : x \o <<>> = x /\ <<>> \o x = x
  BY ConcatEmptySeq
<1>5. ASSUME setup.host = "render" PROVE EvWay = (polled \o ev) \o Left
  <2>1. handled = <<>> /\ got = <<>>
    BY <1>1, <1>5 DEF Hosts
  <2>2. Dealt = <<>>
    <3>1. Len(Dealt) = 0
      BY <1>1, <2>1, DealtIs
    <3> QED
      BY <1>2, <3>1, EmptySeq
  <2>3. <<>> \in Seq(AnyEdge)
    OBVIOUS
  <2>4. Drained = polled
    BY <1>2, <1>4, <2>1, <2>2, <2>3, Zenon DEF Drained
  <2> QED
    BY <1>2, <1>3, <2>4, ZenonT(40) DEF EvWay
<1>6. ASSUME setup.host \in {"pd", "jack"} PROVE EvWay = ((Dealt \o got) \o ev) \o Left
  <2>1. polled = <<>>
    BY <1>1, <1>6 DEF Hosts
  <2>2. Drained = Dealt \o got
    BY <1>2, <1>4, <2>1, Zenon DEF Drained
  <2> QED
    BY <1>2, <1>3, <2>2, ZenonT(40) DEF EvWay
<1> QED
  BY <1>5, <1>6

\* Behind either way is what the kernel has.
LEMMA EvWithKernel ==
  ASSUME IInv, NEW l \in Lines, l \in Buttons \/ setup.host \notin {"pd", "jack"}
  PROVE  InOrder(l, EvWay \o kq[l]) /\ Count(l, EvWay \o kq[l]) + evLost[l] = Len(edges[l])
<1>1. PathType /\ AudioType /\ HostType /\ Kernel /\ Queues /\ Batch /\ EvIntact
  BY DEF IInv, TypeOK
<1>2. evLost[l] \in Nat /\ Fetched(l) \in Nat
  BY <1>1, TimeIs DEF PathType
<1> DEFINE w == EvWay
<1>3. w \in Seq(AnyEdge)
  BY <1>1, EvParts
<1>4. InOrder(l, w) /\ Count(l, w) + evLost[l] = Fetched(l)
  BY <1>1, Zenon DEF EvIntact
<1>5. \A i \in 1 .. Len(w) : w[i].line = l => w[i].num \in 1 .. Fetched(l)
  BY <1>1, EvTaken
<1> HIDE DEF w
<1>6. /\ kq[l] \in Seq(AnyEdge) /\ InOrder(l, w \o kq[l])
      /\ Count(l, w) \in Nat /\ Count(l, w \o kq[l]) = Count(l, w) + Len(kq[l])
      /\ Fetched(l) + Len(kq[l]) = Len(edges[l])
  BY <1>1, <1>3, <1>4, <1>5, WithKernel
<1>7. \A c, k, n, f \in Nat : c + k = f => (c + n) + k = f + n
  OBVIOUS
<1>8. Len(kq[l]) \in Nat
  BY <1>6
<1>9. (Count(l, w) + Len(kq[l])) + evLost[l] = Fetched(l) + Len(kq[l])
  BY <1>2, <1>4, <1>6, <1>7, <1>8
<1> QED
  BY <1>6, <1>9 DEF w

\* The way of the host that polls, with what the kernel has behind it.
LEMMA PollPathFrom == IInv => PollPathIntact
<1> SUFFICES ASSUME IInv, setup.host = "render", NEW l \in Jacks
             PROVE  LET way == polled \o ev \o Left \o kq[l] IN
                    InOrder(l, way) /\ Count(l, way) + evLost[l] = Len(edges[l])
  BY Zenon DEF PollPathIntact
<1>1. l \in Lines
  BY NumLines DEF IInv, TypeOK, PathType
<1>2. InOrder(l, EvWay \o kq[l]) /\ Count(l, EvWay \o kq[l]) + evLost[l] = Len(edges[l])
  BY <1>1, EvWithKernel
<1>3. EvWay = (polled \o ev) \o Left
  BY WaysAre
<1> QED
  BY <1>2, <1>3

\* The same of the edges that tt_poll_events returns, whatever tt_trigger_block takes.
THEOREM PollPath == Spec => []PollPathIntact
  BY Invariance, PollPathFrom, PTL

\* The way of the hosts that deal with edges, with what the kernel has behind it.
LEMMA DealtOnceFrom == IInv => EdgesDealtOnce
<1> SUFFICES ASSUME IInv, setup.host \in {"pd", "jack"}, NEW b \in Buttons
             PROVE  LET way == Dealt \o got \o ev \o Left \o kq[b] IN
                    InOrder(b, way) /\ Count(b, way) + evLost[b] = Len(edges[b])
  BY Zenon DEF EdgesDealtOnce
<1>1. b \in Lines
  BY NumLines DEF IInv, TypeOK, PathType
<1>2. InOrder(b, EvWay \o kq[b]) /\ Count(b, EvWay \o kq[b]) + evLost[b] = Len(edges[b])
  BY <1>1, EvWithKernel
<1>3. EvWay = ((Dealt \o got) \o ev) \o Left
  BY WaysAre
<1> QED
  BY <1>2, <1>3

\* Pd's clock and JACK's process deal with every edge of a button once and in its order,
\* except for those the ring refused and counted.
THEOREM DealtOnce == Spec => []EdgesDealtOnce
  BY Invariance, DealtOnceFrom, PTL

\* What was polled is published.
LEMMA LevelFirstFrom == IInv => StateNotBehindEvents
<1> SUFFICES ASSUME IInv, NEW i \in DOMAIN polled PROVE polled[i].num <= level[polled[i].line]
  BY Zenon DEF StateNotBehindEvents
<1>1. polled[i].line \in Lines /\ polled[i].num \in 1 .. level[polled[i].line]
  BY Zenon DEF IInv, Queues, Published
<1>2. level[polled[i].line] \in Nat
  BY <1>1 DEF IInv, TypeOK, PathType
<1> QED
  BY <1>1, <1>2

\* A line's level is published before its edge is: a program that has polled an edge
\* reads a level at least as new.
THEOREM LevelFirst == Spec => []StateNotBehindEvents
  BY Invariance, LevelFirstFrom, PTL

\* A hold time is never counted from a press whose release was wholly published when
\* it was asked for, with the two words stored and loaded in either order.
THEOREM HoldTimes == Spec => []HoldIsNotStale
<1>1. IInv => HoldIsNotStale
  BY Zenon DEF IInv, Asking, HoldIsNotStale
<1> QED
  BY <1>1, Invariance, PTL

\* The note before a refused one is another button's.
LEMMA RefusalStep ==
  ASSUME IInv, [Next]_vars, setup.host = "jack", handled' # handled, ~ Last(handled').ok
  PROVE  Last(midi).line # Last(handled').line
<1>1. PathType /\ AudioType /\ HostType /\ Kernel /\ Queues /\ Batch /\ EvIntact /\ Hosts /\ Notes
  BY DEF IInv, TypeOK
<1>2. SendNote
  <2>1. ASSUME UNCHANGED poller PROVE FALSE
    BY <2>1 DEF poller
  <2>2. Host
    BY <2>1, Steps DEF vars
  <2>3. hpc # "answer"
    BY <1>1 DEF Hosts
  <2> QED
    BY <2>2, <2>3 DEF Host, Wake, DrainOne, DrainDone, Skip, AllDone, SendPress, AskRelease,
                      Ask, LoadLevel, LoadSince, Answer
<1> DEFINE e == Head(got)
<1>3. got # <<>> /\ handled' = Deal(e, ~ Refused(e), 0)
  BY <1>2, Zenon DEF SendNote
<1>4. (~ Refused(e)) \in BOOLEAN /\ 0 \in Nat
  BY Zenon
<1>5. Last(handled') = [line |-> e.line, num |-> e.num, ok |-> ~ Refused(e), press |-> 0]
  BY <1>1, <1>3, <1>4, DealIs, Zenon
<1>6. Last(handled').line = e.line /\ Last(handled').ok = ~ Refused(e)
  BY <1>5
<1>7. Refused(e)
  BY <1>6
<1>8. /\ midi \in Seq(Note) /\ Len(midi) \in DOMAIN midi /\ Last(midi) = midi[Len(midi)]
      /\ got \in Seq(AnyEdge) /\ 1 \in DOMAIN got /\ 1 \in 1 .. Len(got) /\ e = got[1]
  BY <1>1, <1>3, <1>7 DEF Refused, HostType, Last
<1>9. Offset(e) < midi[Len(midi)].off
  BY <1>7, <1>8 DEF Refused
<1>10. SUFFICES ASSUME midi[Len(midi)].line = e.line PROVE FALSE
  BY <1>6, <1>8
<1>11. midi[Len(midi)].off <= Offset(e)
  BY <1>1, <1>8, <1>10, Zenon DEF Notes
<1>12. Offset(e) \in Nat
  <2>1. TimeOf(e) \in Nat /\ cycle \in Nat
    BY <1>1, <1>8, GotIs DEF HostType
  <2> HIDE DEF e
  <2> QED
    BY <1>1, <2>1, OffsetGrows
<1>13. midi[Len(midi)].off \in Nat
  <2>1. midi[Len(midi)] \in Note
    BY <1>8
  <2> QED
    BY <2>1 DEF Note
<1> QED
  BY <1>9, <1>11, <1>12, <1>13

\* JACK's buffer refuses no note of a button on account of the same button's last one.
THEOREM Refusals == Spec => RefusedOnlyAcrossButtons
<1>1. ASSUME IInv, [Next]_vars
      PROVE  [ (setup.host = "jack" /\ handled' # handled /\ ~ Last(handled').ok)
                 => Last(midi).line # Last(handled').line ]_handled
  BY <1>1, RefusalStep
<1> QED
  BY <1>1, Invariance, PTL DEF Spec, RefusedOnlyAcrossButtons
-----------------------------------------------------------------------------
(* The rendered signals *)

SignalType ==
  /\ apc \in {"idle", "drain", "place"}
  /\ render \in [Jacks -> BOOLEAN]
  /\ out \in [Jacks -> [1 .. Frames -> BOOLEAN]]

\* No edge is missing on the way to the signals.
Complete ==
  \A l \in Jacks : tevLost[l] = 0 =>
    \A n \in applied[l] + 1 .. Fetched(l) : \E i \in 1 .. Len(TevWay) : TevWay[i] = Edge(l, n)

\* A new window is rendered once it is over, for a number of channels the host may have.
Windows ==
  /\ block * Window <= now
  /\ apc # "idle" /\ ~ again => block * Window + Window <= now
  /\ apc # "idle" \/ block > 0 => nchan \in ChanCounts

\* The end of what the blocks so far have consumed the edges of.
Horizon == IF apc = "place" /\ ~ again THEN block * Window + Window ELSE block * Window

Consumed ==
  \A l \in Jacks : tevLost[l] = 0 => \A n \in 1 .. applied[l] : edges[l][n] < Horizon

\* A signal goes on where the last edge consumed has left its jack.
Levels == \A l \in Rendered : tevLost[l] = 0 => render[l] = Active(applied[l])

\* The signals of the window that is being rendered, or was the last time, and what each
\* frame of them shows.
Signalling == ~ again /\ (apc = "place" \/ (apc = "idle" /\ block > 0))
ShownFrom  == IF apc = "place" THEN block * Window ELSE block * Window - Window
Shows(l, f, start) == Active(Least(applied[l], Before(l, start + f * setup.period)))

Signals ==
  Signalling =>
    \A l \in Rendered : tevLost[l] = 0 =>
      \A f \in 1 .. Frames : out[l][f] = Shows(l, f, ShownFrom)

FInv == SignalType /\ Complete /\ Windows /\ Consumed /\ Levels /\ Signals

\* The edges before a time are a line's first ones.
LEMMA BeforeIs ==
  ASSUME PathType, Kernel, NEW l \in Lines, NEW t \in Int
  PROVE  /\ Before(l, t) \in Nat
         /\ \A n \in 1 .. Len(edges[l]) : edges[l][n] < t <=> n <= Before(l, t)
         /\ Before(l, t) <= Len(edges[l])
<1> DEFINE L == Len(edges[l])
           S == {n \in DOMAIN edges[l] : edges[l][n] < t}
           k == Cardinality(S)
<1>1. /\ edges[l] \in Seq(Nat) /\ L \in Nat /\ DOMAIN edges[l] = 1 .. L
      /\ \A n \in 1 .. L : edges[l][n] \in Nat
  BY DEF PathType
<1>2. \A m, n \in 1 .. L : m <= n => edges[l][m] <= edges[l][n]
  BY <1>1, Zenon DEF Kernel
<1>3. \A n \in Nat : IsFiniteSet(1 .. n) /\ Cardinality(1 .. n) = n
  BY FS_Interval
<1>4. S \subseteq 1 .. L
  BY <1>1
<1>5. IsFiniteSet(S) /\ k \in Nat /\ k <= L
  BY <1>1, <1>3, <1>4, FS_Subset, FS_CardinalityType
<1>6. \A n \in 1 .. L : n \in S <=> edges[l][n] < t
  BY <1>1
<1>7. ASSUME NEW n \in 1 .. L, n \in S PROVE n <= k
  <2>1. \A m \in 1 .. n : m \in S
    <3> SUFFICES ASSUME NEW m \in 1 .. n PROVE m \in S
      OBVIOUS
    <3>1. m \in 1 .. L /\ m <= n
      BY <1>1
    <3>2. edges[l][m] <= edges[l][n] /\ edges[l][n] < t
      BY <1>2, <1>6, <1>7, <3>1
    <3>3. edges[l][m] \in Nat /\ edges[l][n] \in Nat
      BY <1>1, <3>1
    <3>4. edges[l][m] < t
      BY <3>2, <3>3
    <3> QED
      BY <1>6, <3>1, <3>4
  <2>2. 1 .. n \subseteq S /\ n \in Nat
    BY <1>1, <2>1
  <2> HIDE DEF S, L
  <2> QED
    BY <1>3, <1>5, <2>2, FS_Subset
<1>8. ASSUME NEW n \in 1 .. L, n \notin S PROVE ~ (n <= k)
  <2>1. \A m \in S : m \in 1 .. n - 1
    <3> SUFFICES ASSUME NEW m \in S, ~ (m <= n - 1) PROVE FALSE
      BY <1>4
    <3>1. m \in 1 .. L /\ n <= m
      BY <1>1, <1>4
    <3>2. edges[l][n] <= edges[l][m] /\ edges[l][m] < t /\ ~ (edges[l][n] < t)
      BY <1>2, <1>6, <1>8, <3>1
    <3>3. edges[l][m] \in Nat /\ edges[l][n] \in Nat
      BY <1>1, <3>1
    <3> QED
      BY <3>2, <3>3
  <2>2. S \subseteq 1 .. n - 1 /\ n - 1 \in Nat
    BY <1>1, <2>1
  <2>3. IsFiniteSet(1 .. n - 1) /\ Cardinality(1 .. n - 1) = n - 1
    BY <1>3, <2>2
  <2> HIDE DEF S
  <2>4. Cardinality(S) <= Cardinality(1 .. n - 1)
    BY <2>2, <2>3, FS_Subset, Zenon
  <2>5. k <= n - 1
    BY <2>3, <2>4
  <2> HIDE DEF k
  <2> QED
    BY <1>1, <1>5, <2>5
<1>9. Before(l, t) = k
  BY DEF Before
<1> HIDE DEF S, k
<1> QED
  BY <1>5, <1>6, <1>7, <1>8, <1>9

\* The window's length, and where windows and frames end.
LEMMA WindowIs ==
  ASSUME PathType, AudioType
  PROVE  /\ Window \in Nat /\ block * Window \in Nat /\ setup.period \in Nat
         /\ (block + 1) * Window = block * Window + Window
         /\ (block - 1) * Window = block * Window - Window
         /\ \A f \in 1 .. Frames : f * setup.period \in Nat /\ f * setup.period <= Window
<1>1. setup.period \in Nat /\ setup.period >= 1 /\ Frames \in Nat /\ block \in Nat
  BY NumLines, LimitAssumption DEF PathType, AudioType
<1> DEFINE p == setup.period
<1> HIDE DEF p
<1>2. Frames * p \in Nat /\ \A f \in 1 .. Frames : f * p \in Nat /\ f * p <= Frames * p
  <2> SUFFICES ASSUME NEW f \in 1 .. Frames PROVE f * p \in Nat /\ f * p <= Frames * p
    BY <1>1, Z3 DEF p
  <2>1. f \in Nat /\ f <= Frames /\ p \in Nat
    BY <1>1 DEF p
  <2> QED
    BY <1>1, <2>1, Z3
<1> DEFINE w == Frames * p
<1> HIDE DEF w
<1>3. w \in Nat
  BY <1>2 DEF w
<1>4. block * w \in Nat /\ (block + 1) * w = block * w + w /\ (block - 1) * w = block * w - w
  BY <1>1, <1>3, Z3
<1> QED
  BY <1>1, <1>2, <1>3, <1>4 DEF Window, w, p
\* The first edge of a jack on the way is the next one to be consumed.
LEMMA FirstOnWay ==
  ASSUME PathType, AudioType, Kernel, Queues, TevIntact, Complete, NEW l \in Jacks, tevLost[l] = 0,
         NEW i \in 1 .. Len(TevWay), TevWay[i].line = l,
         \A j \in 1 .. i - 1 : TevWay[j].line # l
  PROVE  TevWay[i].num = applied[l] + 1
<1>1. TevWay \in Seq(AnyEdge) /\ Len(TevWay) \in Nat /\ DOMAIN TevWay = 1 .. Len(TevWay)
  BY TevParts
<1>2. InOrder(l, TevWay) /\ applied[l] < TevWay[i].num /\ applied[l] \in Nat
  BY <1>1, Zenon DEF TevIntact, AudioType
<1>3. TevWay[i].num \in 1 .. Fetched(l)
  BY TevTaken
<1>4. applied[l] + 1 \in applied[l] + 1 .. Fetched(l)
  <2>1. l \in Lines
    BY NumLines DEF PathType
  <2>2. Fetched(l) \in Nat
    BY <2>1, TimeIs
  <2> QED
    BY <1>2, <1>3, <2>2
<1>5. PICK k \in 1 .. Len(TevWay) : TevWay[k] = Edge(l, applied[l] + 1)
  BY <1>4, Zenon DEF Complete
<1>6. TevWay[k].line = l /\ TevWay[k].num = applied[l] + 1
  BY <1>5 DEF Edge
<1>7. ~ (k < i)
  <2> SUFFICES ASSUME k < i PROVE FALSE
    OBVIOUS
  <2>1. k \in 1 .. i - 1
    BY <1>1
  <2> QED
    BY <1>6, <2>1
<1>8. ~ (i < k)
  <2> SUFFICES ASSUME i < k PROVE FALSE
    OBVIOUS
  <2>1. TevWay[i].num < TevWay[k].num
    BY <1>1, <1>2, <1>6, Zenon DEF InOrder
  <2> QED
    BY <1>2, <1>3, <1>6, <2>1
<1>9. k = i
  BY <1>1, <1>7, <1>8
<1> QED
  BY <1>6, <1>9

\* Every step keeps the way complete.
LEMMA CompleteStep ==
  ASSUME IInv, Complete, [Next]_vars PROVE Complete'
<1>1. PathType /\ AudioType /\ Kernel /\ Queues /\ TevIntact
  BY DEF IInv, TypeOK
<1>2. Jacks' = Jacks /\ Jacks \subseteq Lines
  BY <1>1, SetupStays, NumLines DEF PathType
<1> DEFINE Kept(l) == \A n \in applied'[l] + 1 .. Fetched(l)' :
                        \E i \in 1 .. Len(TevWay') : TevWay'[i] = Edge(l, n)
<1>3. SUFFICES ASSUME NEW l \in Jacks, tevLost'[l] = 0 PROVE Kept(l)
  BY <1>2, <1>3, Zenon DEF Complete, Fetched, Edge
<1>4. /\ l \in Lines /\ applied[l] \in Nat /\ tevLost[l] \in Nat /\ Fetched(l) \in Nat
      /\ TevWay \in Seq(AnyEdge)
  BY <1>1, <1>2, TimeIs, TevParts DEF PathType, AudioType
<1>5. tevLost[l] = 0 => \A n \in applied[l] + 1 .. Fetched(l) :
                          \E i \in 1 .. Len(TevWay) : TevWay[i] = Edge(l, n)
  BY Zenon DEF Complete
<1>6. CASE /\ \A k \in Lines : Fetched(k)' = Fetched(k)
           /\ TevWay' = TevWay /\ UNCHANGED <<applied, tevLost>>
  BY <1>3, <1>4, <1>5, <1>6
<1>7. ASSUME \A k \in Lines : Fetched(k)' = Fetched(k),
             NEW s \in Seq(AnyEdge), NEW t \in Seq(AnyEdge), NEW e \in AnyEdge,
             TevWay = s \o (<<e>> \o t), TevWay' = s \o t,
             tevLost[l] = 0, e.line = l => applied'[l] = applied[l] + 1 /\ e.num = applied'[l],
             e.line # l => applied'[l] = applied[l]
      PROVE  Kept(l)
  <2> SUFFICES ASSUME NEW n \in applied'[l] + 1 .. Fetched(l)
               PROVE  \E i \in 1 .. Len(TevWay') : TevWay'[i] = Edge(l, n)
    BY <1>4, <1>7
  <2>1. n \in applied[l] + 1 .. Fetched(l) /\ e # Edge(l, n)
    <3>1. Edge(l, n).line = l /\ Edge(l, n).num = n
      BY DEF Edge
    <3> QED
      BY <1>4, <1>7, <3>1
  <2>2. PICK i \in 1 .. Len(TevWay) : TevWay[i] = Edge(l, n)
    BY <1>5, <1>7, <2>1
  <2>3. /\ Len(s) \in Nat /\ Len(t) \in Nat /\ Len(TevWay) = Len(s) + 1 + Len(t)
        /\ Len(TevWay') = Len(s) + Len(t)
        /\ \A j \in 1 .. Len(s) : TevWay[j] = s[j] /\ TevWay'[j] = s[j]
        /\ TevWay[Len(s) + 1] = e
        /\ \A j \in 1 .. Len(t) : TevWay[j + Len(s) + 1] = t[j] /\ TevWay'[j + Len(s)] = t[j]
    BY <1>7
  <2>4. CASE i <= Len(s)
    <3>1. i \in 1 .. Len(s) /\ i \in 1 .. Len(TevWay')
      BY <2>3, <2>4
    <3> QED
      BY <2>2, <2>3, <3>1
  <2>5. CASE i > Len(s) + 1
    <3>1. /\ i - Len(s) - 1 \in 1 .. Len(t) /\ i - 1 \in 1 .. Len(TevWay')
          /\ (i - Len(s) - 1) + Len(s) + 1 = i /\ (i - Len(s) - 1) + Len(s) = i - 1
      BY <2>3, <2>5
    <3>2. TevWay'[i - 1] = TevWay[i]
      BY <2>3, <3>1
    <3> QED
      BY <2>2, <3>1, <3>2
  <2>6. i # Len(s) + 1
    BY <2>1, <2>2, <2>3
  <2> QED
    BY <2>3, <2>4, <2>5, <2>6
<1>8. ASSUME \A k \in Lines : Fetched(k)' = Fetched(k),
             NEW s \in Seq(AnyEdge), NEW t \in Seq(AnyEdge), NEW e \in AnyEdge,
             TevWay = s \o (<<e>> \o t), TevWay' = s \o t,
             \/ e.line \notin Jacks /\ UNCHANGED <<applied, tevLost>>
             \/ /\ e.line \in Jacks /\ applied' = applied
                /\ tevLost' = [tevLost EXCEPT ![e.line] = @ + 1]
             \/ /\ e.line \in Jacks /\ tevLost' = tevLost
                /\ applied' = [applied EXCEPT ![e.line] = @ + 1]
                /\ \A i \in 1 .. Len(s) : s[i].line # e.line
      PROVE  Kept(l)
  <2>1. CASE e.line # l
    <3>1. applied'[l] = applied[l] /\ tevLost'[l] = tevLost[l]
      BY <1>1, <1>4, <1>8, <2>1 DEF PathType, AudioType
    <3> QED
      BY <1>3, <1>7, <1>8, <2>1, <3>1
  <2>2. CASE e.line = l
    <3>1. /\ tevLost' = tevLost /\ applied' = [applied EXCEPT ![e.line] = @ + 1]
          /\ \A i \in 1 .. Len(s) : s[i].line # e.line
      <4>1. tevLost' # [tevLost EXCEPT ![e.line] = @ + 1]
        BY <1>1, <1>3, <1>4, <2>2 DEF PathType
      <4> QED
        BY <1>8, <2>2, <4>1
    <3>2. tevLost[l] = 0 /\ applied'[l] = applied[l] + 1
      BY <1>1, <1>3, <2>2, <3>1 DEF AudioType
    <3>3. /\ Len(s) + 1 \in 1 .. Len(TevWay) /\ TevWay[Len(s) + 1] = e
          /\ \A j \in 1 .. (Len(s) + 1) - 1 : TevWay[j].line # l
      <4>1. /\ Len(s) \in Nat /\ Len(t) \in Nat /\ Len(TevWay) = Len(s) + 1 + Len(t)
            /\ \A j \in 1 .. Len(s) : TevWay[j] = s[j]
            /\ TevWay[Len(s) + 1] = e
        BY <1>8
      <4> QED
        BY <2>2, <3>1, <4>1
    <3>4. e.num = applied[l] + 1
      BY <1>1, <2>2, <3>2, <3>3, FirstOnWay
    <3> QED
      BY <1>7, <1>8, <2>2, <3>2, <3>4
  <2> QED
    BY <2>1, <2>2
<1>9. CASE PollHal /\ UNCHANGED <<applied, tevLost>> /\ TevWay' = TevWay \o batch'
  <2>1. /\ batch' \in Seq(AnyEdge) /\ Fetched(l)' \in Nat /\ Fetched(l) <= Fetched(l)'
        /\ \A n \in Fetched(l) + 1 .. Fetched(l)' :
             \E i \in 1 .. Len(batch') : batch'[i] = Edge(l, n)
    BY <1>1, <1>4, <1>9, PollHalIs
  <2>2. /\ Len(TevWay) \in Nat /\ Len(batch') \in Nat /\ Len(TevWay') = Len(TevWay) + Len(batch')
        /\ \A i \in 1 .. Len(TevWay) : TevWay'[i] = TevWay[i]
        /\ \A i \in 1 .. Len(batch') : TevWay'[i + Len(TevWay)] = batch'[i]
    BY <1>4, <1>9, <2>1
  <2>3. SUFFICES ASSUME NEW n \in applied[l] + 1 .. Fetched(l)'
                 PROVE  \E i \in 1 .. Len(TevWay') : TevWay'[i] = Edge(l, n)
    BY <1>9
  <2>4. CASE n <= Fetched(l)
    <3>1. n \in applied[l] + 1 .. Fetched(l) /\ tevLost[l] = 0
      BY <1>3, <1>4, <1>9, <2>1, <2>4
    <3>2. PICK i \in 1 .. Len(TevWay) : TevWay[i] = Edge(l, n)
      BY <1>5, <3>1
    <3>3. i \in 1 .. Len(TevWay')
      BY <2>2
    <3> QED
      BY <2>2, <3>2, <3>3
  <2>5. CASE n > Fetched(l)
    <3>1. n \in Fetched(l) + 1 .. Fetched(l)'
      BY <1>4, <2>1, <2>5
    <3>2. PICK i \in 1 .. Len(batch') : batch'[i] = Edge(l, n)
      BY <2>1, <3>1
    <3>3. i + Len(TevWay) \in 1 .. Len(TevWay')
      BY <2>2
    <3> QED
      BY <2>2, <3>2, <3>3
  <2> QED
    BY <1>4, <2>1, <2>4, <2>5
<1> QED
  BY <1>6, <1>8, <1>9, TevMoves, Zenon

\* The edges before a time that has been reached stay the same.
LEMMA BeforeStays ==
  ASSUME IInv, [Next]_vars, NEW l \in Lines, NEW t \in Int, t <= now
  PROVE  Before(l, t)' = Before(l, t)
<1>1. PathType
  BY DEF IInv, TypeOK
<1>2. edges[l] \in Seq(Nat) /\ now \in Nat /\ Len(edges[l]) \in Nat
      /\ DOMAIN edges[l] = 1 .. Len(edges[l])
  BY <1>1 DEF PathType
<1>3. edges'[l] = edges[l] \/ edges'[l] = Append(edges[l], now)
  <2>1. ASSUME NEW k \in Lines, Happen(k)
        PROVE  edges'[l] = edges[l] \/ edges'[l] = Append(edges[l], now)
    BY <1>1, <2>1 DEF Happen, PathType
  <2>2. edges' = edges \/ \E k \in Lines : Happen(k)
    BY Steps DEF vars, path, kernel, Tick, StoreLevel, StoreSince, PushEv, PushTev, PollHal
  <2> QED
    BY <2>1, <2>2
<1>4. CASE edges'[l] = edges[l]
  BY <1>4 DEF Before
<1>5. CASE edges'[l] = Append(edges[l], now)
  <2>1. /\ DOMAIN edges'[l] = 1 .. Len(edges[l]) + 1
        /\ \A n \in 1 .. Len(edges[l]) : edges'[l][n] = edges[l][n]
        /\ edges'[l][Len(edges[l]) + 1] = now
    BY <1>2, <1>5
  <2>2. {n \in DOMAIN edges'[l] : edges'[l][n] < t} = {n \in DOMAIN edges[l] : edges[l][n] < t}
    <3>1. ~ (edges'[l][Len(edges[l]) + 1] < t)
      BY <1>2, <2>1
    <3>2. \A n \in 1 .. Len(edges[l]) + 1 : n \in 1 .. Len(edges[l]) \/ n = Len(edges[l]) + 1
      BY <1>2
    <3>3. \A n \in 1 .. Len(edges[l]) : n \in 1 .. Len(edges[l]) + 1
      BY <1>2
    <3>4. \A n \in 1 .. Len(edges[l]) + 1 :
            edges'[l][n] < t => n \in 1 .. Len(edges[l]) /\ edges[l][n] < t
      BY <2>1, <3>1, <3>2
    <3> QED
      BY <1>2, <2>1, <3>3, <3>4
  <2> QED
    BY <2>2 DEF Before
<1> QED
  BY <1>3, <1>4, <1>5

\* An edge that is due shows from its own frame on.
LEMMA FrameIs ==
  ASSUME PathType, AudioType, NEW e \in AnyEdge, TimeOf(e) \in Nat, Due(e),
         NEW f \in 1 .. Frames
  PROVE  f >= FrameOf(e) <=> TimeOf(e) < Start + f * setup.period
<1> DEFINE p == setup.period
           s == Start
           t == TimeOf(e)
<1>1. p \in Nat /\ p >= 1 /\ Frames \in Nat /\ Frames >= 1
  BY NumLines, LimitAssumption DEF PathType
<1>2. s \in Int /\ t \in Nat
  <2>1. Window \in Int
    BY WindowIs
  <2>2. (IF again THEN block - 1 ELSE block) \in Int
    BY DEF AudioType
  <2> QED
    BY <2>1, <2>2 DEF Start
<1>3. t < s + Frames * p
  BY DEF Due, Window
<1>4. FrameOf(e) = IF t <= s THEN 1 ELSE Least(Frames, (t - s) \div p + 1)
  BY DEF FrameOf
<1> HIDE DEF p, s, t
<1>5. f \in Nat /\ f >= 1 /\ f <= Frames
  BY <1>1
<1>6. CASE t <= s
  <2>1. f * p >= 1 /\ f * p \in Nat
    BY <1>1, <1>5, Z3
  <2> QED
    BY <1>2, <1>4, <1>5, <1>6, <2>1 DEF p, s, t
<1>7. CASE ~ (t <= s)
  <2> DEFINE d == t - s
             q == d \div p
  <2>1. d \in Nat /\ t = d + s
    BY <1>2, <1>7
  <2> HIDE DEF d
  <2>2. q \in Nat /\ q * p <= d /\ d < q * p + p
    BY <1>1, <2>1, Z3
  <2> HIDE DEF q
  <2>3. Frames * p \in Nat /\ d < Frames * p
    <3>1. Frames * p \in Nat
      BY <1>1, Z3
    <3> QED
      BY <1>2, <1>3, <2>1, <3>1
  <2>4. q + 1 <= Frames
    BY <1>1, <2>1, <2>2, <2>3, Z3
  <2>5. FrameOf(e) = q + 1
    BY <1>1, <1>4, <1>7, <2>2, <2>4 DEF Least, q, d
  <2>6. f >= q + 1 => d < f * p
    BY <1>1, <1>5, <2>1, <2>2, Z3
  <2>7. f <= q => ~ (d < f * p)
    BY <1>1, <1>5, <2>1, <2>2, Z3
  <2>8. f * p \in Nat
    BY <1>1, <1>5, Z3
  <2>9. d < f * p <=> t < s + f * p
    BY <1>2, <2>1, <2>8
  <2> QED
    BY <1>5, <2>2, <2>5, <2>6, <2>7, <2>9 DEF p, s, t
<1> QED
  BY <1>6, <1>7

\* The edges consumed were taken.
LEMMA AppliedTaken ==
  ASSUME PathType, AudioType, Kernel, TevIntact, NEW l \in Jacks
  PROVE  /\ l \in Lines /\ applied[l] \in Nat /\ applied[l] <= Fetched(l)
         /\ applied[l] <= Len(edges[l]) /\ Len(edges[l]) \in Nat
<1>1. l \in Lines /\ applied[l] \in Nat /\ tevLost[l] \in Nat
  BY NumLines DEF PathType, AudioType
<1>2. /\ Fetched(l) \in Nat /\ Fetched(l) <= Len(edges[l])
      /\ Len(edges[l]) \in Nat
  BY <1>1, TimeIs
<1>3. Count(l, TevWay) \in Nat
  BY TevParts, CountIs
<1>4. applied[l] + Count(l, TevWay) + tevLost[l] = Fetched(l)
  BY Zenon DEF TevIntact
<1> QED
  BY <1>1, <1>2, <1>3, <1>4

\* The edge placed is due, and is the next of its jack if none was refused.
LEMMA Placed ==
  ASSUME IInv, Complete, PlaceEdge
  PROVE  \E e \in AnyEdge :
           /\ e.line \in Lines /\ e.num \in 1 .. Len(edges[e.line])
           /\ TimeOf(e) = edges[e.line][e.num] /\ TimeOf(e) \in Nat /\ Due(e)
           /\ applied' = [applied EXCEPT ![e.line] = @ + 1]
           /\ e.line \in Jacks /\ tevLost[e.line] = 0 => e.num = applied[e.line] + 1
           /\ IF e.line <= nchan
              THEN /\ render' = [render EXCEPT ![e.line] = Active(e.num)]
                   /\ out' = [out EXCEPT ![e.line] =
                        [f \in 1 .. Frames |-> IF f >= FrameOf(e) THEN Active(e.num) ELSE @[f]]]
              ELSE UNCHANGED <<render, out>>
<1>1. PathType /\ AudioType /\ Kernel /\ Queues /\ TevIntact
  BY DEF IInv, TypeOK
<1>2. PICK i \in DOMAIN held :
           /\ Due(held[i]) /\ \A j \in 1 .. i - 1 : ~ Due(held[j])
           /\ applied' = [applied EXCEPT ![held[i].line] = @ + 1]
           /\ IF held[i].line <= nchan
              THEN /\ render' = [render EXCEPT ![held[i].line] = Active(held[i].num)]
                   /\ out' = [out EXCEPT ![held[i].line] =
                        [f \in 1 .. Frames |->
                           IF f >= FrameOf(held[i]) THEN Active(held[i].num) ELSE @[f]]]
              ELSE UNCHANGED <<render, out>>
  BY DEF PlaceEdge
<1> DEFINE e == held[i]
<1>3. /\ held \in Seq(AnyEdge) /\ tev \o batch \in Seq(AnyEdge) /\ i \in 1 .. Len(held)
      /\ e \in AnyEdge /\ DOMAIN held = 1 .. Len(held)
  BY <1>1, TevParts
<1>4. e.line \in Lines /\ e.num \in 1 .. Fetched(e.line)
  BY <1>1, <1>3, Zenon DEF Queues, Real
<1>5. e.num \in 1 .. Len(edges[e.line]) /\ edges[e.line][e.num] \in Nat
  BY <1>1, <1>4, TimeIs
<1>6. ASSUME e.line \in Jacks, tevLost[e.line] = 0 PROVE e.num = applied[e.line] + 1
  <2>1. \A j \in 1 .. i - 1 : held[j].line # e.line
    BY <1>1, <1>2, <1>3, <1>6, FirstDue
  <2>2. Len(TevWay) >= Len(held) /\ Len(TevWay) \in Nat /\ Len(held) \in Nat
        /\ \A j \in 1 .. Len(held) : TevWay[j] = held[j]
    BY <1>3 DEF TevWay
  <2>3. i \in 1 .. Len(TevWay) /\ TevWay[i] = e /\ \A j \in 1 .. i - 1 : TevWay[j].line # e.line
    BY <1>3, <2>1, <2>2
  <2> QED
    BY <1>1, <1>6, <2>3, FirstOnWay
<1>7. TimeOf(e) = edges[e.line][e.num]
  BY DEF TimeOf
<1> QED
  BY <1>2, <1>3, <1>4, <1>5, <1>6, <1>7
\* What a step may do to the signals: nothing, or a step of rendering; an edge
\* refused stays refused.
LEMMA RenderSteps ==
  ASSUME IInv, [Next]_vars
  PROVE  /\ \/ UNCHANGED audio
            \/ /\ TriggerBlock \/ DrainHeld \/ StartLevels \/ PlaceEdge \/ BlockDone
               /\ UNCHANGED <<now, edges, tevLost>>
         /\ now \in Nat /\ now' \in Nat /\ now <= now'
         /\ \A l \in Jacks : tevLost'[l] = 0 => tevLost[l] = 0
<1>1. PathType /\ PathType'
  BY PathTypeStep DEF IInv, TypeOK
<1>2. now \in Nat /\ now' \in Nat /\ Jacks \subseteq Lines
  BY <1>1, NumLines DEF PathType
<1>3. now' = now \/ now' = now + 1
  BY Steps DEF vars, path, Tick, Happen, PollHal, StoreLevel, StoreSince, PushEv, PushTev
<1>4. tevLost' = tevLost \/ tevLost' = [tevLost EXCEPT ![Head(batch).line] = @ + 1]
  BY Steps DEF vars, path, sampler, counts, Tick, Happen, PollHal, StoreLevel, StoreSince,
               PushEv, PushTev
<1>5. ASSUME NEW l \in Jacks, tevLost'[l] = 0 PROVE tevLost[l] = 0
  <2> DEFINE k == Head(batch).line
  <2>1. tevLost \in [Lines -> Nat] /\ l \in Lines
    BY <1>1, <1>2 DEF PathType
  <2>2. tevLost' = tevLost \/ tevLost' = [tevLost EXCEPT ![k] = @ + 1]
    BY <1>4
  <2> HIDE DEF k
  <2>3. CASE tevLost' = [tevLost EXCEPT ![k] = @ + 1]
    <3>1. tevLost'[l] = IF l = k THEN tevLost[k] + 1 ELSE tevLost[l]
      BY <2>1, <2>3
    <3> QED
      BY <1>5, <2>1, <3>1
  <2> QED
    BY <1>5, <2>2, <2>3
<1>6. \/ UNCHANGED audio
      \/ Audio /\ UNCHANGED <<now, kernel, sampler>>
  BY Steps DEF vars
<1>7. Audio => \/ UNCHANGED audio
               \/ TriggerBlock \/ DrainHeld \/ StartLevels \/ PlaceEdge \/ BlockDone
  BY DEF Audio, PollEvents
<1> QED
  BY <1>2, <1>3, <1>5, <1>6, <1>7 DEF kernel, sampler, counts

\* Every step keeps the types of the jacks' signals and of the levels they go on from.
LEMMA SignalTypeStep ==
  ASSUME IInv, SignalType, Complete, [Next]_vars PROVE SignalType'
<1>1. PathType /\ AudioType /\ Jacks' = Jacks
  BY SetupStays DEF IInv, TypeOK
<1>2. CASE UNCHANGED audio
  BY <1>1, <1>2 DEF SignalType, audio
<1>3. CASE TriggerBlock
  BY <1>1, <1>3 DEF SignalType, TriggerBlock
<1>4. CASE DrainHeld
  BY <1>1, <1>4 DEF SignalType, DrainHeld
<1>5. CASE StartLevels
  <2>1. \A l \in Jacks, f \in 1 .. Frames : (l <= nchan /\ render[l]) \in BOOLEAN
    BY Zenon
  <2>2. [l \in Jacks |-> [f \in 1 .. Frames |-> l <= nchan /\ render[l]]]
          \in [Jacks -> [1 .. Frames -> BOOLEAN]]
    BY <2>1, Zenon
  <2>3. out' \in [Jacks' -> [1 .. Frames -> BOOLEAN]]
    BY <1>1, <1>5, <2>2, Zenon DEF StartLevels
  <2> QED
    BY <1>1, <1>5, <2>3 DEF SignalType, StartLevels
<1>6. CASE PlaceEdge
  <2>1. PICK e \in AnyEdge :
          IF e.line <= nchan
          THEN /\ render' = [render EXCEPT ![e.line] = Active(e.num)]
               /\ out' = [out EXCEPT ![e.line] =
                    [f \in 1 .. Frames |-> IF f >= FrameOf(e) THEN Active(e.num) ELSE @[f]]]
          ELSE UNCHANGED <<render, out>>
    BY <1>6, Placed
  <2>2. Active(e.num) \in BOOLEAN
    BY Zenon DEF Active
  <2> DEFINE on == Active(e.num)
             late(f) == f >= FrameOf(e)
             sig == [f \in 1 .. Frames |-> IF late(f) THEN on ELSE out[e.line][f]]
  <2>3. /\ render' = render \/ render' = [render EXCEPT ![e.line] = on]
        /\ out' = out \/ out' = [out EXCEPT ![e.line] = sig]
    BY <2>1
  <2>4. e.line \in Jacks => sig \in [1 .. Frames -> BOOLEAN]
    <3> HIDE DEF late, on
    <3>1. on \in BOOLEAN
      BY <2>2 DEF on
    <3>2. e.line \in Jacks => \A f \in 1 .. Frames : out[e.line][f] \in BOOLEAN
      BY DEF SignalType
    <3> QED
      BY <3>1, <3>2
  <2> HIDE DEF sig, on
  <2>5. out' \in [Jacks -> [1 .. Frames -> BOOLEAN]]
    BY <2>3, <2>4 DEF SignalType
  <2>6. render' \in [Jacks -> BOOLEAN]
    BY <2>2, <2>3 DEF SignalType, on
  <2> QED
    BY <1>1, <1>6, <2>5, <2>6 DEF SignalType, PlaceEdge
<1>7. CASE BlockDone
  BY <1>1, <1>7 DEF SignalType, BlockDone
<1> QED
  BY <1>2, <1>3, <1>4, <1>5, <1>6, <1>7, RenderSteps

\* A new window is begun once it is over.
LEMMA WindowsStep ==
  ASSUME IInv, SignalType, Windows, [Next]_vars PROVE Windows'
<1>1. PathType /\ AudioType
  BY DEF IInv, TypeOK
<1> DEFINE W == Window
<1>2. W \in Nat /\ block * W \in Nat /\ (block + 1) * W = block * W + W
  BY <1>1, WindowIs
<1>3. W' = W /\ now \in Nat /\ now' \in Nat /\ now <= now'
  BY SetupStays, RenderSteps
<1>4. SUFFICES /\ block' * W <= now'
               /\ apc' # "idle" /\ ~ again' => block' * W + W <= now'
               /\ apc' # "idle" \/ block' > 0 => nchan' \in ChanCounts
  BY <1>3 DEF Windows
<1>5. /\ block * W <= now
      /\ apc # "idle" /\ ~ again => block * W + W <= now
      /\ apc # "idle" \/ block > 0 => nchan \in ChanCounts
  BY DEF Windows
<1>6. block \in Nat
  BY <1>1 DEF AudioType
<1> HIDE DEF W
<1>7. CASE UNCHANGED audio
  BY <1>2, <1>3, <1>5, <1>7 DEF audio
<1>8. CASE TriggerBlock
  <2>1. again' \/ now >= (block + 1) * W
    BY <1>8 DEF TriggerBlock, W
  <2> QED
    BY <1>2, <1>3, <1>5, <1>6, <1>8, <2>1 DEF TriggerBlock
<1>9. CASE DrainHeld
  BY <1>2, <1>3, <1>5, <1>9 DEF DrainHeld
<1>10. CASE StartLevels
  BY <1>2, <1>3, <1>5, <1>10 DEF StartLevels
<1>11. CASE PlaceEdge
  BY <1>2, <1>3, <1>5, <1>11 DEF PlaceEdge
<1>12. CASE BlockDone
  <2>1. CASE again
    <3>1. block' = block /\ apc' = "idle" /\ nchan' = nchan /\ apc = "place"
      BY <1>12, <2>1 DEF BlockDone
    <3> QED
      BY <1>2, <1>3, <1>5, <3>1
  <2>2. CASE ~ again
    <3>1. block' = block + 1 /\ apc' = "idle" /\ nchan' = nchan /\ apc = "place"
      BY <1>12, <2>2 DEF BlockDone
    <3> QED
      BY <1>2, <1>3, <1>5, <1>6, <2>2, <3>1
  <2> QED
    BY <2>1, <2>2
<1> QED
  BY <1>7, <1>8, <1>9, <1>10, <1>11, <1>12, RenderSteps
\* Every edge consumed is before the end of the windows rendered.
LEMMA ConsumedStep ==
  ASSUME IInv, SignalType, Complete, Windows, Consumed, [Next]_vars PROVE Consumed'
<1>1. PathType /\ AudioType /\ Kernel /\ TevIntact
  BY DEF IInv, TypeOK
<1>2. Jacks' = Jacks /\ Jacks \subseteq Lines
  BY <1>1, SetupStays, NumLines DEF PathType
<1>3. SUFFICES ASSUME NEW l \in Jacks, tevLost'[l] = 0, NEW n \in 1 .. applied'[l]
               PROVE  edges'[l][n] < Horizon'
  BY <1>2 DEF Consumed
<1>4. tevLost[l] = 0 /\ l \in Lines
  BY <1>2, <1>3, RenderSteps
<1>5. \A k \in 1 .. applied[l] : edges[l][k] < Horizon /\ edges'[l][k] = edges[l][k]
  <2>1. applied[l] \in Nat /\ Len(edges[l]) \in Nat /\ applied[l] <= Len(edges[l])
    BY <1>1, AppliedTaken
  <2>2. \A k \in 1 .. Len(edges[l]) : edges'[l][k] = edges[l][k]
    BY <1>4, EdgesStay
  <2>3. \A k \in 1 .. applied[l] : edges[l][k] < Horizon
    BY <1>4, Zenon DEF Consumed
  <2> QED
    BY <2>1, <2>2, <2>3
<1> DEFINE W == Window
<1>6. /\ W \in Nat /\ block * W \in Nat /\ (block + 1) * W = block * W + W
      /\ (block - 1) * W = block * W - W
  BY <1>1, WindowIs
<1>7. /\ W' = W
      /\ Horizon = IF apc = "place" /\ ~ again THEN block * W + W ELSE block * W
      /\ Horizon' = IF apc' = "place" /\ ~ again' THEN block' * W + W ELSE block' * W
      /\ Start = IF again THEN (block - 1) * W ELSE block * W
  BY SetupStays DEF Horizon, Start
<1>8. ASSUME NEW e, TimeOf(e) \in Nat, Due(e), apc = "place" PROVE TimeOf(e) < Horizon
  <2>1. TimeOf(e) < Start + W
    BY <1>8 DEF Due
  <2> HIDE DEF W
  <2> QED
    BY <1>6, <1>7, <1>8, <2>1
<1> HIDE DEF W
<1>9. CASE Horizon' = Horizon /\ applied' = applied
  BY <1>3, <1>5, <1>9
<1>10. CASE UNCHANGED audio
  BY <1>7, <1>9, <1>10 DEF audio
<1>11. CASE TriggerBlock
  BY <1>7, <1>9, <1>11 DEF TriggerBlock
<1>12. CASE DrainHeld
  BY <1>7, <1>9, <1>12 DEF DrainHeld
<1>13. CASE StartLevels /\ UNCHANGED edges
  <2>1. applied' = applied /\ block' = block /\ apc = "drain"
    BY <1>13 DEF StartLevels
  <2>2. Horizon = block * W /\ Horizon' \in {block * W, block * W + W}
    BY <1>7, <2>1
  <2>3. n \in 1 .. Len(edges[l]) /\ edges[l][n] \in Nat
    <3>1. applied[l] \in Nat /\ Len(edges[l]) \in Nat /\ applied[l] <= Len(edges[l])
      BY <1>1, AppliedTaken
    <3>2. n \in 1 .. Len(edges[l])
      BY <1>3, <2>1, <3>1
    <3>3. edges[l] \in Seq(Nat)
      BY <1>4, <1>1 DEF PathType
    <3> QED
      BY <3>2, <3>3
  <2>4. edges[l][n] < Horizon /\ edges'[l][n] = edges[l][n]
    BY <1>3, <1>5, <2>1
  <2> QED
    BY <1>6, <2>2, <2>3, <2>4
<1>14. CASE PlaceEdge /\ UNCHANGED edges
  <2>1. PICK e \in AnyEdge :
          /\ TimeOf(e) = edges[e.line][e.num] /\ TimeOf(e) \in Nat /\ Due(e)
          /\ applied' = [applied EXCEPT ![e.line] = @ + 1]
          /\ e.line \in Jacks /\ tevLost[e.line] = 0 => e.num = applied[e.line] + 1
    BY <1>14, Placed
  <2>2. apc = "place" /\ apc' = apc /\ again' = again /\ block' = block
    BY <1>14 DEF PlaceEdge
  <2>3. Horizon' = Horizon /\ TimeOf(e) < Horizon
    BY <1>7, <1>8, <2>1, <2>2
  <2>4. applied \in [Jacks -> Nat]
    BY <1>1 DEF AudioType
  <2>5. CASE e.line = l
    <3>1. applied'[l] = applied[l] + 1 /\ e.num = applied[l] + 1 /\ applied[l] \in Nat
      BY <1>4, <2>1, <2>4, <2>5
    <3>2. CASE n = applied[l] + 1
      BY <1>14, <2>1, <2>3, <2>5, <3>1, <3>2
    <3>3. CASE n # applied[l] + 1
      <4>1. n \in 1 .. applied[l]
        BY <1>3, <3>1, <3>3
      <4> QED
        BY <1>5, <2>3, <4>1
    <3> QED
      BY <3>2, <3>3
  <2>6. CASE e.line # l
    <3>1. applied'[l] = applied[l]
      BY <2>1, <2>4, <2>6
    <3> QED
      BY <1>3, <1>5, <2>3, <3>1
  <2> QED
    BY <2>5, <2>6
<1>15. CASE BlockDone
  <2>1. apc = "place" /\ apc' = "idle" /\ again' = again /\ applied' = applied
        /\ block' = IF again THEN block ELSE block + 1
    BY <1>15 DEF BlockDone
  <2>2. Horizon' = Horizon
    BY <1>6, <1>7, <2>1
  <2> QED
    BY <1>9, <2>1, <2>2
<1> QED
  BY <1>10, <1>11, <1>12, <1>13, <1>14, <1>15, RenderSteps

\* The signal's level stays that of the last edge consumed.
LEMMA LevelsStep ==
  ASSUME IInv, SignalType, Complete, Windows, Levels, [Next]_vars PROVE Levels'
<1>1. PathType /\ AudioType
  BY DEF IInv, TypeOK
<1>2. Rendered' = Rendered /\ Rendered \subseteq Jacks
  BY SetupStays DEF Rendered
<1>3. SUFFICES ASSUME NEW l \in Rendered, tevLost'[l] = 0 PROVE render'[l] = Active(applied'[l])
  BY <1>2 DEF Levels, Active
<1>4. tevLost[l] = 0 /\ l \in Jacks
  BY <1>2, <1>3, RenderSteps
<1>5. render[l] = Active(applied[l])
  BY <1>4, Zenon DEF Levels
<1>6. CASE UNCHANGED <<render, applied>>
  BY <1>5, <1>6
<1>7. ASSUME UNCHANGED audio \/ TriggerBlock \/ DrainHeld \/ StartLevels \/ BlockDone
      PROVE  UNCHANGED <<render, applied>>
  BY <1>7 DEF audio, TriggerBlock, DrainHeld, StartLevels, BlockDone
<1>8. CASE PlaceEdge
  <2>1. PICK e \in AnyEdge :
          /\ applied' = [applied EXCEPT ![e.line] = @ + 1]
          /\ e.line \in Jacks /\ tevLost[e.line] = 0 => e.num = applied[e.line] + 1
          /\ IF e.line <= nchan
             THEN render' = [render EXCEPT ![e.line] = Active(e.num)]
             ELSE render' = render
    BY <1>8, Placed
  <2>2. nchan \in ChanCounts
    BY <1>8 DEF PlaceEdge, Windows
  <2>3. applied \in [Jacks -> Nat] /\ render \in [Jacks -> BOOLEAN]
    BY <1>1 DEF AudioType, SignalType
  <2> DEFINE on == Active(e.num)
  <2>4. CASE e.line = l
    <3>1. applied'[l] = e.num
      BY <1>4, <2>1, <2>3, <2>4
    <3>2. e.line <= nchan
      BY <2>2, <2>4 DEF Rendered
    <3>3. render' = [render EXCEPT ![e.line] = on]
      BY <2>1, <3>2
    <3> HIDE DEF on
    <3>4. render'[l] = on
      BY <1>4, <2>3, <2>4, <3>3
    <3> QED
      BY <3>1, <3>4 DEF on
  <2>5. CASE e.line # l
    <3>1. applied'[l] = applied[l]
      BY <1>4, <2>1, <2>3, <2>5
    <3>2. render' = render \/ render' = [render EXCEPT ![e.line] = on]
      BY <2>1
    <3> HIDE DEF on
    <3>3. render'[l] = render[l]
      BY <1>4, <2>3, <2>5, <3>2
    <3> QED
      BY <1>5, <3>1, <3>3
  <2> QED
    BY <2>4, <2>5
<1> QED
  BY <1>6, <1>7, <1>8, RenderSteps
\* Every step keeps the signals to what their frames should show.
LEMMA SignalsStep ==
  ASSUME IInv, FInv, [Next]_vars PROVE Signals'
<1>1. /\ PathType /\ AudioType /\ Kernel /\ TevIntact
      /\ SignalType /\ Complete /\ Windows /\ Consumed /\ Levels /\ Signals
  BY DEF IInv, TypeOK, FInv
<1>2. /\ Rendered' = Rendered /\ Rendered \subseteq Jacks /\ Jacks \subseteq Lines
      /\ setup' = setup /\ Window' = Window
  BY <1>1, SetupStays, NumLines DEF Rendered, PathType
<1> DEFINE at(f) == ShownFrom' + f * setup.period
           by(l, t) == Cardinality({n \in DOMAIN edges'[l] : edges'[l][n] < t})
<1>3. SUFFICES ASSUME Signalling', NEW l \in Rendered, tevLost'[l] = 0, NEW f \in 1 .. Frames
               PROVE  out'[l][f] = Active(Least(applied'[l], by(l, at(f))))
  BY <1>2 DEF Signals, Shows, Before, Active, Least
<1>4. tevLost[l] = 0 /\ l \in Jacks /\ l \in Lines
  BY <1>2, <1>3, RenderSteps
<1> DEFINE W == Window
           b == block * W
           p == f * setup.period
<1>5. /\ W \in Nat /\ b \in Nat /\ p \in Nat /\ p <= W
      /\ (block + 1) * W = b + W /\ (block - 1) * W = b - W
  BY <1>1, WindowIs
<1>6. /\ ShownFrom = IF apc = "place" THEN b ELSE b - W
      /\ ShownFrom' = IF apc' = "place" THEN block' * W ELSE block' * W - W
      /\ Start = IF again THEN (block - 1) * W ELSE b
      /\ at(f) = ShownFrom' + p
  BY <1>2 DEF ShownFrom, Start
<1>7. \A t \in Int : t <= now => by(l, t) = Before(l, t)
  <2> SUFFICES ASSUME NEW t \in Int, t <= now PROVE by(l, t) = Before(l, t)
    OBVIOUS
  <2>1. Before(l, t)' = Before(l, t)
    BY <1>4, BeforeStays
  <2> QED
    BY <2>1 DEF Before
<1>8. ~ again' /\ (apc' = "place" \/ (apc' = "idle" /\ block' > 0))
  BY <1>3 DEF Signalling
<1> HIDE DEF by, W, p, at, b
<1>9. \A t \in Int : /\ Before(l, t) \in Nat
                     /\ \A n \in 1 .. Len(edges[l]) : edges[l][n] < t <=> n <= Before(l, t)
  BY <1>1, <1>4, BeforeIs
<1>10. applied[l] \in Nat /\ applied[l] <= Len(edges[l]) /\ Len(edges[l]) \in Nat
  BY <1>1, <1>4, AppliedTaken
<1>11. ASSUME Signalling, at(f) = ShownFrom + p
       PROVE  out[l][f] = Active(Least(applied[l], Before(l, at(f))))
  BY <1>1, <1>3, <1>4, <1>11, Zenon DEF Signals, Shows, p
<1>12. /\ b <= now
       /\ apc # "idle" /\ ~ again => b + W <= now
       /\ apc # "idle" => nchan \in ChanCounts
       /\ now \in Nat
  BY <1>1 DEF Windows, b, W, PathType
<1>13. ASSUME Signalling, ShownFrom' = ShownFrom
       PROVE  /\ at(f) \in Int /\ at(f) <= now /\ at(f) = ShownFrom + p
              /\ by(l, at(f)) = Before(l, at(f))
              /\ out[l][f] = Active(Least(applied[l], Before(l, at(f))))
  <2>1. at(f) = ShownFrom + p
    BY <1>6, <1>13
  <2>2. at(f) \in Int /\ at(f) <= now
    BY <1>5, <1>6, <1>12, <1>13, <2>1 DEF Signalling
  <2> QED
    BY <1>7, <1>11, <1>13, <2>1, <2>2
<1>14. CASE UNCHANGED audio
  <2>1. /\ Signalling /\ ShownFrom' = ShownFrom
        /\ out' = out /\ applied' = applied
    <3>1. apc' = apc /\ block' = block /\ again' = again /\ out' = out /\ applied' = applied
      BY <1>14 DEF audio
    <3> QED
      BY <1>6, <1>8, <3>1 DEF Signalling, b
  <2> QED
    BY <1>13, <2>1
<1>15. ~ TriggerBlock /\ ~ DrainHeld
  BY <1>8 DEF TriggerBlock, DrainHeld
<1>16. CASE StartLevels
  <2>1. /\ apc = "drain" /\ apc' = "place" /\ ~ again /\ block' = block /\ applied' = applied
        /\ out' = [k \in Jacks |-> [g \in 1 .. Frames |-> k <= nchan /\ render[k]]]
    BY <1>8, <1>16 DEF StartLevels
  <2>2. out'[l][f] = render[l]
    <3>1. l <= nchan
      BY <1>3, <1>12, <2>1 DEF Rendered
    <3>2. out'[l][f] = (l <= nchan /\ render[l])
      BY <1>3, <1>4, <2>1
    <3>3. render[l] \in BOOLEAN
      BY <1>1, <1>4 DEF SignalType
    <3> QED
      BY <3>1, <3>2, <3>3
  <2>3. render[l] = Active(applied[l])
    BY <1>1, <1>3, <1>4, Zenon DEF Levels
  <2>4. at(f) = b + p
    BY <1>6, <2>1 DEF b
  <2>5. at(f) \in Int /\ b <= at(f) /\ at(f) <= now
    BY <1>5, <1>12, <2>1, <2>4
  <2>6. \A n \in 1 .. applied[l] : edges[l][n] < b
    <3>1. Horizon = b
      BY <2>1 DEF Horizon, b, W
    <3> QED
      BY <1>1, <1>4, <3>1, Zenon DEF Consumed
  <2>7. applied[l] <= Before(l, at(f)) /\ Before(l, at(f)) \in Nat
    <3>1. Before(l, at(f)) \in Nat
      BY <1>9, <2>5
    <3>2. CASE applied[l] = 0
      BY <3>1, <3>2
    <3>3. CASE applied[l] # 0
      <4>1. applied[l] \in 1 .. applied[l] /\ applied[l] \in 1 .. Len(edges[l])
        BY <1>10, <3>3
      <4>2. edges[l][applied[l]] < b /\ edges[l][applied[l]] \in Nat
        <5>1. edges[l] \in Seq(Nat)
          BY <1>1, <1>4 DEF PathType
        <5> QED
          BY <2>6, <4>1, <5>1
      <4>3. edges[l][applied[l]] < at(f)
        BY <1>5, <2>5, <4>2
      <4> QED
        BY <1>9, <2>5, <3>1, <4>1, <4>3
    <3> QED
      BY <3>2, <3>3
  <2>8. Least(applied[l], Before(l, at(f))) = applied[l]
    BY <1>10, <2>7 DEF Least
  <2>9. by(l, at(f)) = Before(l, at(f))
    BY <1>7, <2>5
  <2> QED
    BY <2>1, <2>2, <2>3, <2>8, <2>9
<1>17. CASE PlaceEdge
  <2>1. apc = "place" /\ apc' = apc /\ again' = again /\ block' = block
    BY <1>17 DEF PlaceEdge
  <2>2. Signalling /\ ShownFrom' = ShownFrom /\ Start = b /\ ShownFrom = b /\ ~ again
    BY <1>6, <1>8, <2>1 DEF Signalling, b
  <2>3. /\ at(f) \in Int /\ at(f) <= now /\ at(f) = b + p
        /\ by(l, at(f)) = Before(l, at(f))
        /\ out[l][f] = Active(Least(applied[l], Before(l, at(f))))
    BY <1>13, <2>2
  <2>4. PICK e \in AnyEdge :
          /\ e.line \in Lines /\ e.num \in 1 .. Len(edges[e.line])
          /\ TimeOf(e) = edges[e.line][e.num] /\ TimeOf(e) \in Nat /\ Due(e)
          /\ applied' = [applied EXCEPT ![e.line] = @ + 1]
          /\ e.line \in Jacks /\ tevLost[e.line] = 0 => e.num = applied[e.line] + 1
          /\ IF e.line <= nchan
             THEN /\ render' = [render EXCEPT ![e.line] = Active(e.num)]
                  /\ out' = [out EXCEPT ![e.line] =
                       [g \in 1 .. Frames |-> IF g >= FrameOf(e) THEN Active(e.num) ELSE @[g]]]
             ELSE UNCHANGED <<render, out>>
    BY <1>1, <1>17, Placed
  <2>5. applied \in [Jacks -> Nat] /\ out \in [Jacks -> [1 .. Frames -> BOOLEAN]]
    BY <1>1 DEF AudioType, SignalType
  <2>6. CASE e.line # l
    <3>1. applied'[l] = applied[l]
      BY <1>4, <2>4, <2>5, <2>6
    <3>2. out'[l] = out[l]
      BY <1>4, <2>4, <2>5, <2>6
    <3> QED
      BY <2>3, <3>1, <3>2
  <2>7. CASE e.line = l
    <3>1. e.num = applied[l] + 1 /\ applied'[l] = e.num
      BY <1>4, <2>4, <2>5, <2>7
    <3>2. l <= nchan
      BY <1>3, <1>12, <2>1 DEF Rendered
    <3>3. out'[l][f] = IF f >= FrameOf(e) THEN Active(e.num) ELSE out[l][f]
      BY <1>3, <1>4, <2>4, <2>5, <2>7, <3>2
    <3>4. f >= FrameOf(e) <=> TimeOf(e) < at(f)
      <4>1. f >= FrameOf(e) <=> TimeOf(e) < Start + f * setup.period
        BY <1>1, <2>4, <1>3, FrameIs
      <4> QED
        BY <2>2, <2>3, <4>1 DEF p
    <3>5. /\ Before(l, at(f)) \in Nat
          /\ TimeOf(e) < at(f) <=> e.num <= Before(l, at(f))
      BY <1>9, <2>3, <2>4, <2>7
    <3>6. CASE f >= FrameOf(e)
      <4>1. Least(applied'[l], Before(l, at(f))) = e.num
        BY <1>10, <3>1, <3>4, <3>5, <3>6 DEF Least
      <4> QED
        BY <2>3, <3>3, <3>6, <4>1
    <3>7. CASE ~ (f >= FrameOf(e))
      <4>1. Least(applied'[l], Before(l, at(f))) = Least(applied[l], Before(l, at(f)))
        BY <1>10, <3>1, <3>4, <3>5, <3>7 DEF Least
      <4> QED
        BY <2>3, <3>3, <3>7, <4>1
    <3> QED
      BY <3>6, <3>7
  <2> QED
    BY <2>6, <2>7
<1>18. CASE BlockDone
  <2>1. /\ apc = "place" /\ apc' = "idle" /\ ~ again /\ block' = block + 1
        /\ out' = out /\ applied' = applied
    BY <1>8, <1>18 DEF BlockDone
  <2>2. Signalling /\ ShownFrom' = ShownFrom
    BY <1>5, <1>6, <2>1 DEF Signalling
  <2> QED
    BY <1>13, <2>1, <2>2
<1> QED
  BY <1>14, <1>15, <1>16, <1>17, <1>18, RenderSteps

\* The signals start silent, with no edge on the way.
LEMMA SignalsInit == Init => FInv
<1> SUFFICES ASSUME Init PROVE FInv
  OBVIOUS
<1>1. IInv /\ PathType /\ AudioType
  BY InitHolds DEF IInv, TypeOK
<1>2. /\ setup \in Setups /\ now = 1 /\ edges = [l \in Lines |-> <<>>] /\ block = 0
      /\ apc = "idle" /\ again = FALSE
      /\ kq = [l \in Lines |-> <<>>] /\ applied = [l \in Jacks |-> 0]
      /\ render = [l \in Jacks |-> FALSE]
      /\ out = [l \in Jacks |-> [f \in 1 .. Frames |-> FALSE]]
  BY DEF Init, PathInit, AudioInit
<1>3. Jacks \subseteq Lines
  BY <1>2, NumLines
<1>4. SignalType
  BY <1>2 DEF SignalType
<1>5. Complete
  <2>1. \A l \in Jacks : applied[l] + 1 .. Fetched(l) = {}
    BY <1>2, <1>3 DEF Fetched
  <2> QED
    BY <2>1 DEF Complete
<1>6. Windows
  <2>1. Window \in Nat
    BY <1>1, WindowIs
  <2> DEFINE w == Window
  <2> HIDE DEF w
  <2>2. 0 * w = 0
    BY <2>1 DEF w
  <2> QED
    BY <1>2, <2>2 DEF Windows, w
<1>7. Consumed
  BY <1>2 DEF Consumed
<1>8. Levels
  <2>1. Active(0) = FALSE
    BY DEF Active
  <2>2. ASSUME NEW l \in Rendered PROVE render[l] = FALSE /\ applied[l] = 0
    BY <1>2, <2>2 DEF Rendered
  <2> QED
    BY <2>1, <2>2, Zenon DEF Levels
<1>9. Signals
  BY <1>2 DEF Signals, Signalling
<1> QED
  BY <1>4, <1>5, <1>6, <1>7, <1>8, <1>9 DEF FInv

\* Between two blocks the whole window is rendered, so that its frames are as the
\* invariant says.
LEMMA FramesFrom == PathType /\ AudioType /\ FInv => EdgesOnTheirFrames
<1> SUFFICES ASSUME PathType, AudioType, FInv, apc = "idle", block > 0, ~ again,
                    NEW l \in Rendered, tevLost[l] = 0, NEW f \in 1 .. Frames
             PROVE  out[l][f] =
                      Active(Least(applied[l], Before(l, (block - 1) * Window + f * setup.period)))
  BY DEF EdgesOnTheirFrames
<1>1. Signalling /\ ShownFrom = block * Window - Window
  BY DEF Signalling, ShownFrom
<1>2. (block - 1) * Window = block * Window - Window
  BY WindowIs
<1>3. out[l][f] = Shows(l, f, ShownFrom)
  BY <1>1, Zenon DEF FInv, Signals
<1> QED
  BY <1>1, <1>2, <1>3, Zenon DEF Shows

\* An edge that arrives in time is on its exact frame of the signal, a late one on the
\* first frame, and none is early, for any number of jacks and objects, any length of
\* block and any sizes of the queues.
THEOREM FramesExact == Spec => []EdgesOnTheirFrames
<1>1. ASSUME IInv, FInv, [Next]_vars PROVE FInv'
  BY <1>1, SignalTypeStep, CompleteStep, WindowsStep, ConsumedStep, LevelsStep, SignalsStep
  DEF FInv
<1>2. IInv /\ FInv => EdgesOnTheirFrames
  BY FramesFrom DEF IInv, TypeOK
<1> QED
  BY <1>1, <1>2, SignalsInit, Invariance, PTL DEF Spec
=============================================================================
