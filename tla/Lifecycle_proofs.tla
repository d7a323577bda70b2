-------------------------- MODULE Lifecycle_proofs --------------------------
(***************************************************************************)
(* Proofs about Lifecycle for any number of objects, input lines and       *)
(* gates, every backend and binding: what a failed open gives back, that   *)
(* no thread works with what has been released, and that the context lives *)
(* as long as the objects that hold it.                                    *)
(***************************************************************************)
EXTENDS Lifecycle, SequenceTheorems, FiniteSetTheorems, TLAPS

Flags == running \in BOOLEAN /\ g_ctx \in BOOLEAN /\ audio \in BOOLEAN

\* Of the sampling thread's own variables only its next step matters here.
Values ==
  /\ binding \in {"refs", "reset", "jack"} /\ backend \in {"linux", "sim"}
  /\ pc \in {"idle", "open", "join", "close"} /\ k \in Nat
  /\ spc \in {"none", "loop", "scan", "poll", "read", "events", "gates", "exited"}
  /\ g_refs \in Nat
  /\ maker \in Objects /\ obj \in [Objects -> {"none", "live", "silent"}]
  /\ client \in {"none", "open", "active"}

TypeOK == Flags /\ Values

\* The first m of the resources in s.
FirstOf(s, m) == {s[i] : i \in 1 .. m}

\* An open holds what it has got so far, a close all but what it has given back.
Holding ==
  /\ pc \in {"idle", "join"} => k = 1
  /\ pc = "idle"  => held = IF g_ctx THEN All ELSE {}
  /\ pc = "open"  => ~ g_ctx /\ k \in 1 .. Len(Order) /\ held = FirstOf(Order, k - 1)
  /\ pc = "join"  => g_ctx /\ held = All
  /\ pc = "close" => /\ g_ctx /\ k \in 1 .. Len(CloseOrder)
                     /\ held = (All \ {Thread}) \ FirstOf(CloseOrder, k - 1)

\* There is a sampling thread only while all is held, a JACK client only between
\* open and close, and process() only while the client is active.
Threads ==
  /\ spc # "none" => pc \in {"idle", "join"} /\ g_ctx
  /\ client # "none" => pc = "idle" /\ g_ctx /\ binding = "jack"
  /\ audio => client = "active"

Live == {o \in Objects : obj[o] = "live"}

\* An object that has the context found it open; references count such objects.
\* JACK's main is the one that opened it.
Sharing ==
  /\ Live # {} => pc = "idle" /\ g_ctx
  /\ pc = "open" => obj[maker] = "none"
  /\ binding = "refs" /\ pc \in {"idle", "open"} => g_refs = Cardinality(Live)
  /\ binding = "jack" => \A o \in Objects \ {maker} : obj[o] = "none"

IInv == TypeOK /\ Holding /\ Threads /\ Sharing
-----------------------------------------------------------------------------
(* The orders of acquisition and release *)

\* The elements of a sequence, by their places.
LEMMA ToSetIs ==
  ASSUME NEW s, NEW S, s \in Seq(S)
  PROVE  ToSet(s) = {s[i] : i \in 1 .. Len(s)}
<1>1. DOMAIN s = 1 .. Len(s)
  OBVIOUS
<1> QED
  BY <1>1, Zenon DEF ToSet

\* The elements of short sequences.
LEMMA ToSetTuples ==
  ASSUME NEW x, NEW y, NEW z
  PROVE  ToSet(<<x>>) = {x} /\ ToSet(<<x, y>>) = {x, y} /\ ToSet(<<x, y, z>>) = {x, y, z}
<1>1. ToSet(<<x>>) = {x}
  BY DEF ToSet
<1>2. ToSet(<<x, y>>) = {x, y}
  BY DEF ToSet
<1>3. ToSet(<<x, y, z>>) = {x, y, z}
  BY DEF ToSet
<1> QED
  BY <1>1, <1>2, <1>3

\* The elements of a concatenation.
LEMMA ConcatIs ==
  ASSUME NEW S, NEW s \in Seq(S), NEW t \in Seq(S)
  PROVE  /\ s \o t \in Seq(S) /\ Len(s) \in Nat /\ Len(t) \in Nat
         /\ Len(s \o t) = Len(s) + Len(t)
         /\ \A i \in 1 .. Len(s) : (s \o t)[i] = s[i]
         /\ \A i \in 1 .. Len(t) : (s \o t)[Len(s) + i] = t[i]
         /\ ToSet(s \o t) = ToSet(s) \cup ToSet(t)
<1>1. s \o t \in Seq(S) /\ Len(s) \in Nat /\ Len(t) \in Nat
      /\ Len(s \o t) = Len(s) + Len(t)
      /\ \A i \in 1 .. Len(s) + Len(t) :
           (s \o t)[i] = IF i <= Len(s) THEN s[i] ELSE t[i - Len(s)]
  BY ConcatProperties
<1>2. \A i \in 1 .. Len(t) : /\ Len(s) + i \in 1 .. Len(s) + Len(t)
                             /\ ~ (Len(s) + i <= Len(s)) /\ (Len(s) + i) - Len(s) = i
  BY <1>1
<1>3. \A i \in 1 .. Len(t) : (s \o t)[Len(s) + i] = t[i]
  BY <1>1, <1>2, Zenon
<1>4. \A i \in 1 .. Len(s) : i \in 1 .. Len(s) + Len(t) /\ i <= Len(s)
  BY <1>1
<1>5. \A i \in 1 .. Len(s) : (s \o t)[i] = s[i]
  BY <1>1, <1>4, Zenon
<1>6. ToSet(s) = Range(s) /\ ToSet(t) = Range(t) /\ ToSet(s \o t) = Range(s \o t)
  BY Zenon DEF ToSet, Range
<1>7. ToSet(s \o t) = ToSet(s) \cup ToSet(t)
  BY <1>6, RangeConcatenation
<1> QED
  BY <1>1, <1>3, <1>5, <1>7, Zenon

\* Any resource: its kind, and which of them.
Kinds == {"ctx", "cv", "ev", "tev", "dev", "spi", "chip", "in", "gate", "thread"}
Resource == Kinds \X Nat

\* What is acquired, piece by piece, is a sequence of resources.
LEMMA Pieces ==
  /\ Inputs \in Seq(Resource) /\ Gates \in Seq(Resource) /\ Rings \in Seq(Resource)
  /\ <<<<"ctx", 0>>>> \in Seq(Resource) /\ <<Thread>> \in Seq(Resource)
  /\ <<<<"dev", 0>>, <<"in", 1>>>> \in Seq(Resource)
  /\ <<<<"dev", 0>>, <<"spi", 0>>, <<"chip", 0>>>> \in Seq(Resource)
<1>1. ASSUME NEW m \in Nat, NEW e \in [1 .. m -> Resource] PROVE e \in Seq(Resource)
  BY <1>1
<1>2. Inputs \in [1 .. NumIn -> Resource] /\ Gates \in [1 .. NumGates -> Resource]
  BY DEF Inputs, Gates, Resource, Kinds
<1>3. Inputs \in Seq(Resource) /\ Gates \in Seq(Resource)
  BY <1>1, <1>2, NumInAssumption, NumGatesAssumption
<1> QED
  BY <1>3 DEF Rings, Thread, Resource, Kinds

\* The rings of a context.
LEMMA RingsAre ==
  ToSet(Rings) = {<<"cv", 0>>, <<"ev", 0>>, <<"tev", 0>>}
  BY DEF ToSet, Rings

\* What either backend acquires.
LEMMA DeviceIs ==
  ASSUME backend \in {"linux", "sim"}
  PROVE  /\ Device \in Seq(Resource)
         /\ ToSet(Device) =
              IF backend = "sim" THEN {<<"dev", 0>>, <<"in", 1>>}
              ELSE {<<"dev", 0>>, <<"spi", 0>>, <<"chip", 0>>} \cup ToSet(Inputs) \cup ToSet(Gates)
         /\ \A r \in ToSet(Device) : r[1] \in {"dev", "spi", "chip", "in", "gate"}
<1>1. CASE backend = "sim"
  <2>1. Device = <<<<"dev", 0>>, <<"in", 1>>>>
    BY <1>1 DEF Device
  <2>2. ToSet(Device) = {<<"dev", 0>>, <<"in", 1>>}
    BY <2>1, ToSetTuples, Zenon
  <2> QED
    BY <1>1, <2>1, <2>2, Pieces
<1>2. CASE backend = "linux"
  <2> DEFINE d == <<<<"dev", 0>>, <<"spi", 0>>, <<"chip", 0>>>>
             e == {<<"dev", 0>>, <<"spi", 0>>, <<"chip", 0>>}
             di == d \o Inputs
  <2>1. Device = di \o Gates
    BY <1>2 DEF Device
  <2>2. d \in Seq(Resource) /\ ToSet(d) = e
    <3>1. ToSet(d) = e
      BY DEF ToSet
    <3> QED
      BY <3>1, Pieces, Zenon
  <2> HIDE DEF d
  <2>3. di \in Seq(Resource) /\ ToSet(di) = e \cup ToSet(Inputs)
    BY <2>2, Pieces, ConcatIs
  <2> HIDE DEF di
  <2>4. Device \in Seq(Resource) /\ ToSet(Device) = (e \cup ToSet(Inputs)) \cup ToSet(Gates)
    BY <2>1, <2>3, Pieces, ConcatIs
  <2>5. \A r \in ToSet(Inputs) : r[1] = "in"
    BY DEF ToSet, Inputs
  <2>6. \A r \in ToSet(Gates) : r[1] = "gate"
    BY DEF ToSet, Gates
  <2>7. \A r \in e : r[1] \in {"dev", "spi", "chip"}
    OBVIOUS
  <2>8. backend # "sim"
    BY <1>2
  <2> QED
    BY <2>4, <2>5, <2>6, <2>7, <2>8, Zenon
<1> QED
  BY <1>1, <1>2

\* The context, the three rings, the device and at last the thread.
LEMMA OrderIs ==
  ASSUME backend \in {"linux", "sim"}
  PROVE  /\ Order \in Seq(Resource) /\ Len(Device) \in Nat /\ Len(Order) = 5 + Len(Device)
         /\ Order[1] = <<"ctx", 0>>
         /\ \A i \in 2 .. 4 : Order[i] \in ToSet(Rings)
         /\ \A i \in 5 .. 4 + Len(Device) : Order[i] \in ToSet(Device)
         /\ Order[5 + Len(Device)] = Thread
         /\ All = {<<"ctx", 0>>} \cup ToSet(Rings) \cup ToSet(Device) \cup {Thread}
<1> DEFINE c == <<<<"ctx", 0>>>>
           t == <<Thread>>
           cr == c \o Rings
           crd == cr \o Device
           D == Len(Device)
<1>1. Device \in Seq(Resource) /\ Rings \in Seq(Resource) /\ c \in Seq(Resource)
      /\ t \in Seq(Resource)
  BY DeviceIs, Pieces
<1>2. Len(Rings) = 3 /\ Len(c) = 1 /\ c[1] = <<"ctx", 0>> /\ Len(t) = 1 /\ t[1] = Thread
  BY DEF Rings
<1>s. ToSet(c) = {<<"ctx", 0>>} /\ ToSet(t) = {Thread}
  BY ToSetTuples, Zenon
<1> HIDE DEF c, t
<1>3. /\ cr \in Seq(Resource) /\ Len(cr) = Len(c) + Len(Rings)
      /\ \A i \in 1 .. Len(c) : cr[i] = c[i]
      /\ \A i \in 1 .. Len(Rings) : cr[Len(c) + i] = Rings[i]
      /\ ToSet(cr) = ToSet(c) \cup ToSet(Rings)
  BY <1>1, ConcatIs
<1> HIDE DEF cr
<1>4. /\ crd \in Seq(Resource) /\ Len(crd) = Len(cr) + D /\ D \in Nat
      /\ \A i \in 1 .. Len(cr) : crd[i] = cr[i]
      /\ \A i \in 1 .. D : crd[Len(cr) + i] = Device[i]
      /\ ToSet(crd) = ToSet(cr) \cup ToSet(Device)
  <2>1. Device \in Seq(Resource) /\ cr \in Seq(Resource)
    BY <1>1, <1>3
  <2> QED
    BY <2>1, ConcatIs
<1> HIDE DEF crd, D
<1>5. /\ Order = crd \o t
      /\ Order \in Seq(Resource) /\ Len(Order) = Len(crd) + Len(t)
      /\ \A i \in 1 .. Len(crd) : Order[i] = crd[i]
      /\ \A i \in 1 .. Len(t) : Order[Len(crd) + i] = t[i]
      /\ ToSet(Order) = ToSet(crd) \cup ToSet(t)
  <2>1. Order = crd \o t
    BY Zenon DEF Order, crd, cr, c, t
  <2>2. crd \in Seq(Resource) /\ t \in Seq(Resource)
    BY <1>1, <1>4
  <2> QED
    BY <2>1, <2>2, ConcatIs
<1>6. Len(cr) = 4 /\ Len(crd) = 4 + D /\ Len(Order) = 5 + D
  BY <1>2, <1>3, <1>4, <1>5
<1>7. Order[5 + D] = Thread /\ Order[1] = <<"ctx", 0>>
  <2>1. Order[Len(crd) + 1] = t[1]
    BY <1>2, <1>5
  <2>2. Order[1] = crd[1] /\ crd[1] = cr[1] /\ cr[1] = c[1]
    BY <1>2, <1>3, <1>4, <1>5, <1>6
  <2>3. Len(crd) + 1 = 5 + D
    BY <1>4, <1>6
  <2> QED
    BY <1>2, <2>1, <2>2, <2>3, Zenon
<1>8. ASSUME NEW i \in 2 .. 4 PROVE Order[i] \in ToSet(Rings)
  <2>1. i - 1 \in 1 .. Len(Rings) /\ Len(c) + (i - 1) = i /\ i \in 1 .. Len(cr) /\ i \in 1 .. Len(crd)
    BY <1>2, <1>4, <1>6
  <2>2. Order[i] = Rings[i - 1]
    BY <1>3, <1>4, <1>5, <2>1, ZenonT(40)
  <2> QED
    BY <1>1, <2>1, <2>2, ToSetIs, Zenon
<1>9. ASSUME NEW i \in 5 .. 4 + D PROVE Order[i] \in ToSet(Device)
  <2>1. i - 4 \in 1 .. D /\ Len(cr) + (i - 4) = i /\ i \in 1 .. Len(crd)
    BY <1>4, <1>6
  <2>2. Order[i] = Device[i - 4]
    BY <1>4, <1>5, <2>1, Zenon
  <2> QED
    BY <1>1, <2>1, <2>2, ToSetIs, Zenon DEF D
<1>10. All = {<<"ctx", 0>>} \cup ToSet(Rings) \cup ToSet(Device) \cup {Thread}
  BY <1>s, <1>3, <1>4, <1>5, Zenon DEF All
<1> QED
  BY <1>4, <1>5, <1>6, <1>7, <1>8, <1>9, <1>10, Zenon DEF D
\* Whichever acquisition fails, what was acquired before it is given back.
LEMMA CleanUpIsComplete ==
  ASSUME backend \in {"linux", "sim"}, NEW m \in 1 .. Len(Order)
  PROVE  FirstOf(Order, m - 1) \subseteq CleanUp(Order[m])
<1> DEFINE D == Len(Device)
<1>1. /\ D \in Nat /\ Len(Order) = 5 + D
      /\ Order[1] = <<"ctx", 0>>
      /\ \A i \in 2 .. 4 : Order[i] \in ToSet(Rings)
      /\ \A i \in 5 .. 4 + D : Order[i] \in ToSet(Device)
      /\ Order[5 + D] = Thread
      /\ All = {<<"ctx", 0>>} \cup ToSet(Rings) \cup ToSet(Device) \cup {Thread}
  BY OrderIs
<1>2. \A r \in ToSet(Device) : r[1] \in {"dev", "spi", "chip", "in", "gate"}
  BY DeviceIs
<1>3. \A r \in ToSet(Rings) : r[1] \in {"cv", "ev", "tev"}
  BY RingsAre
<1>4. Thread[1] = "thread"
  BY DEF Thread
<1> HIDE DEF D
<1>5. CASE m = 1
  <2>1. 1 .. m - 1 = {}
    BY <1>5
  <2> QED
    BY <2>1 DEF FirstOf
<1>6. CASE m \in 2 .. 4
  <2>1. \A i \in 1 .. m - 1 : i = 1 \/ i \in 2 .. 4
    BY <1>6
  <2>2. FirstOf(Order, m - 1) \subseteq {<<"ctx", 0>>} \cup ToSet(Rings)
    BY <1>1, <2>1 DEF FirstOf
  <2>3. CleanUp(Order[m]) = ToSet(Rings) \cup {<<"ctx", 0>>}
    <3>1. /\ Order[m] \in ToSet(Rings) /\ Order[m] \notin ToSet(Device)
          /\ Order[m] # Thread
      BY <1>1, <1>2, <1>3, <1>4, <1>6
    <3> QED
      BY <3>1 DEF CleanUp
  <2> QED
    BY <2>2, <2>3
<1>7. CASE m \in 5 .. 4 + D
  <2>1. \A i \in 1 .. m - 1 : i = 1 \/ i \in 2 .. 4 \/ i \in 5 .. 4 + D
    BY <1>1, <1>7
  <2>2. FirstOf(Order, m - 1) \subseteq {<<"ctx", 0>>} \cup ToSet(Rings) \cup ToSet(Device)
    BY <1>1, <2>1 DEF FirstOf
  <2>3. CleanUp(Order[m]) = ToSet(Device) \cup ToSet(Rings) \cup {<<"ctx", 0>>}
    <3>1. /\ Order[m] \in ToSet(Device) /\ Order[m] \notin ToSet(Rings)
          /\ Order[m] # Thread
      BY <1>1, <1>2, <1>3, <1>4, <1>7
    <3> QED
      BY <3>1 DEF CleanUp
  <2> QED
    BY <2>2, <2>3
<1>8. CASE m = 5 + D
  <2>1. \A i \in 1 .. m - 1 : i = 1 \/ i \in 2 .. 4 \/ i \in 5 .. 4 + D
    BY <1>1, <1>8
  <2>2. FirstOf(Order, m - 1) \subseteq All
    BY <1>1, <2>1 DEF FirstOf
  <2>3. CleanUp(Order[m]) = All
    <3>1. Order[m] = Thread /\ Order[m] \notin ToSet(Rings) /\ Order[m] \notin ToSet(Device)
      BY <1>1, <1>2, <1>3, <1>4, <1>8
    <3> QED
      BY <3>1 DEF CleanUp
  <2> QED
    BY <2>2, <2>3
<1> QED
  BY <1>1, <1>5, <1>6, <1>7, <1>8

\* A complete open has acquired everything, the thread last.
LEMMA OpenIsComplete ==
  ASSUME backend \in {"linux", "sim"}
  PROVE  /\ Len(Order) \in Nat /\ Len(Order) >= 1 /\ FirstOf(Order, Len(Order)) = All
         /\ \A i \in 1 .. Len(Order) : Order[i] = Thread <=> i = Len(Order)
<1> DEFINE D == Len(Device)
<1>1. /\ D \in Nat /\ Len(Order) = 5 + D /\ Order \in Seq(Resource)
      /\ Order[1] = <<"ctx", 0>>
      /\ \A i \in 2 .. 4 : Order[i] \in ToSet(Rings)
      /\ \A i \in 5 .. 4 + D : Order[i] \in ToSet(Device)
      /\ Order[5 + D] = Thread
  BY OrderIs
<1>2. \A r \in ToSet(Device) : r[1] \in {"dev", "spi", "chip", "in", "gate"}
  BY DeviceIs
<1>3. \A r \in ToSet(Rings) : r[1] \in {"cv", "ev", "tev"}
  BY RingsAre
<1>4. Thread[1] = "thread"
  BY DEF Thread
<1>5. FirstOf(Order, Len(Order)) = All
  BY <1>1, ToSetIs, Zenon DEF All, FirstOf
<1> HIDE DEF D
<1>6. ASSUME NEW i \in 1 .. Len(Order), i # Len(Order) PROVE Order[i] # Thread
  <2>1. i = 1 \/ i \in 2 .. 4 \/ i \in 5 .. 4 + D
    BY <1>1, <1>6
  <2> QED
    BY <1>1, <1>2, <1>3, <1>4, <2>1
<1> QED
  BY <1>1, <1>5, <1>6

\* A complete close has given everything back.
LEMMA CloseIsComplete ==
  ASSUME backend \in {"linux", "sim"}
  PROVE  /\ Len(CloseOrder) \in Nat /\ Len(CloseOrder) >= 1
         /\ FirstOf(CloseOrder, Len(CloseOrder)) = All \ {Thread}
<1> DEFINE c == <<<<"ctx", 0>>>>
           x == IF backend = "sim" THEN <<<<"in", 1>>, <<"dev", 0>>>>
                ELSE (Inputs \o Gates) \o <<<<"chip", 0>>, <<"spi", 0>>, <<"dev", 0>>>>
           xr == x \o Reverse(Rings)
<1>1. x \in Seq(Resource) /\ ToSet(x) = ToSet(Device)
  <2>1. CASE backend = "sim"
    <3>1. x = <<<<"in", 1>>, <<"dev", 0>>>>
      BY <2>1
    <3>2. ToSet(<<<<"in", 1>>, <<"dev", 0>>>>) = {<<"in", 1>>, <<"dev", 0>>}
      BY DEF ToSet
    <3>3. <<<<"in", 1>>, <<"dev", 0>>>> \in Seq(Resource)
      BY DEF Resource, Kinds
    <3>4. ToSet(Device) = {<<"dev", 0>>, <<"in", 1>>}
      BY <2>1, DeviceIs
    <3> QED
      BY <3>1, <3>2, <3>3, <3>4
  <2>2. CASE backend = "linux"
    <3> DEFINE ig == Inputs \o Gates
               d == <<<<"chip", 0>>, <<"spi", 0>>, <<"dev", 0>>>>
    <3>1. x = ig \o d
      BY <2>2
    <3>2. d \in Seq(Resource) /\ ToSet(d) = {<<"chip", 0>>, <<"spi", 0>>, <<"dev", 0>>}
      <4>1. d \in Seq(Resource)
        BY DEF Resource, Kinds
      <4>2. ToSet(d) = {<<"chip", 0>>, <<"spi", 0>>, <<"dev", 0>>}
        BY DEF ToSet
      <4> QED
        BY <4>1, <4>2
    <3> HIDE DEF d
    <3>3. ig \in Seq(Resource) /\ ToSet(ig) = ToSet(Inputs) \cup ToSet(Gates)
      BY Pieces, ConcatIs
    <3> HIDE DEF ig, x
    <3>4. x \in Seq(Resource) /\ ToSet(x) = ToSet(ig) \cup ToSet(d)
      BY <3>1, <3>2, <3>3, ConcatIs
    <3>5. ToSet(Device) = {<<"dev", 0>>, <<"spi", 0>>, <<"chip", 0>>} \cup ToSet(Inputs) \cup ToSet(Gates)
      BY <2>2, DeviceIs
    <3> QED
      BY <3>2, <3>3, <3>4, <3>5
  <2> QED
    BY <2>1, <2>2
<1>2. Reverse(Rings) \in Seq(Resource) /\ ToSet(Reverse(Rings)) = ToSet(Rings)
  <2>1. Reverse(Rings) = <<<<"tev", 0>>, <<"ev", 0>>, <<"cv", 0>>>>
    BY DEF Reverse, Rings
  <2>2. <<<<"tev", 0>>, <<"ev", 0>>, <<"cv", 0>>>> \in Seq(Resource)
    BY DEF Resource, Kinds
  <2>3. ToSet(<<<<"tev", 0>>, <<"ev", 0>>, <<"cv", 0>>>>) = {<<"tev", 0>>, <<"ev", 0>>, <<"cv", 0>>}
    BY DEF ToSet
  <2> QED
    BY <2>1, <2>2, <2>3, RingsAre
<1>3. CloseOrder = xr \o c
  BY Zenon DEF CloseOrder
<1>4. c \in Seq(Resource) /\ ToSet(c) = {<<"ctx", 0>>} /\ Len(c) = 1
  BY Pieces, ToSetTuples
<1> HIDE DEF x, c
<1>5. xr \in Seq(Resource) /\ ToSet(xr) = ToSet(Device) \cup ToSet(Rings) /\ Len(xr) \in Nat
  BY <1>1, <1>2, ConcatIs
<1> HIDE DEF xr
<1>6. /\ CloseOrder \in Seq(Resource) /\ Len(CloseOrder) = Len(xr) + Len(c)
      /\ ToSet(CloseOrder) = ToSet(Device) \cup ToSet(Rings) \cup {<<"ctx", 0>>}
  <2>1. /\ CloseOrder \in Seq(Resource) /\ Len(CloseOrder) = Len(xr) + Len(c)
        /\ ToSet(CloseOrder) = ToSet(xr) \cup ToSet(c)
    <3>1. xr \in Seq(Resource) /\ c \in Seq(Resource)
      BY <1>4, <1>5
    <3> QED
      BY <1>3, <3>1, ConcatIs
  <2> QED
    BY <1>4, <1>5, <2>1
<1>7. FirstOf(CloseOrder, Len(CloseOrder)) = ToSet(CloseOrder)
  BY <1>6, ToSetIs, Zenon DEF FirstOf
<1>8. Thread \notin ToSet(Device) \cup ToSet(Rings) \cup {<<"ctx", 0>>}
  <2>1. \A r \in ToSet(Device) : r[1] \in {"dev", "spi", "chip", "in", "gate"}
    BY DeviceIs
  <2> QED
    BY <2>1, RingsAre DEF Thread
<1>9. All = {<<"ctx", 0>>} \cup ToSet(Rings) \cup ToSet(Device) \cup {Thread}
  BY OrderIs
<1> QED
  BY <1>4, <1>5, <1>6, <1>7, <1>8, <1>9
\* One more of a sequence.
LEMMA FirstOfNext ==
  ASSUME NEW s, NEW m \in Nat \ {0}
  PROVE  FirstOf(s, m) = FirstOf(s, m - 1) \cup {s[m]}
<1>1. 1 .. m = (1 .. m - 1) \cup {m}
  OBVIOUS
<1> QED
  BY <1>1, Zenon DEF FirstOf

\* None of a sequence.
LEMMA FirstOfNone ==
  ASSUME NEW s
  PROVE  FirstOf(s, 1 - 1) = {}
<1>1. 1 .. 1 - 1 = {}
  OBVIOUS
<1> QED
  BY <1>1, Zenon DEF FirstOf

-----------------------------------------------------------------------------
(* The invariant *)

\* The backend and the binding, and with them the orders, never change.
LEMMA BackendStays ==
  ASSUME [Next]_vars
  PROVE  /\ backend' = backend /\ binding' = binding
         /\ Order' = Order /\ All' = All /\ CloseOrder' = CloseOrder
<1>1. backend' = backend /\ binding' = binding
  BY DEF Next, Main, Acquire, OpenFails, Join, Release, Reset, JackStep, JackQuit, New, Free,
         Process, Sample, Edge, ST!Thread, ST!Loop, ST!Scan, ST!Poll, ST!Read, ST!LineDone,
         ST!Handle, ST!GatesAndSleep, ST!Edge, host, jack, sampler, vars
<1> QED
  BY <1>1 DEF Order, All, CloseOrder, Device

\* The invariant holds at the start.
LEMMA FirstStates == Init => IInv
<1> SUFFICES ASSUME Init PROVE IInv
  OBVIOUS
<1> USE DEF Init
<1>1. Flags /\ Values
  BY BackendAssumption, BindingAssumption DEF Flags, Values
<1>2. Holding /\ Threads
  BY DEF Holding, Threads
<1>3. Sharing
  <2>1. Live = {}
    BY DEF Live
  <2>2. Cardinality({}) = 0
    BY FS_EmptySet
  <2> QED
    BY <2>1, <2>2 DEF Sharing
<1> QED
  BY <1>1, <1>2, <1>3 DEF IInv, TypeOK

\* The thread's steps are its own.
LEMMA SampleKeeps ==
  ASSUME Values, Sample
  PROVE  /\ UNCHANGED <<host, jack, running, backend>>
         /\ spc # "none" /\ spc' # "none"
         /\ spc' \in {"none", "loop", "scan", "poll", "read", "events", "gates", "exited"}
<1>1. UNCHANGED <<host, jack>>
  BY DEF Sample
<1>2. /\ UNCHANGED <<running, backend>> /\ spc # "none" /\ spc' # "none"
      /\ spc' \in {"none", "loop", "scan", "poll", "read", "events", "gates", "exited"}
  BY DEF Sample, ST!Thread, ST!Loop, ST!Scan, ST!Poll, ST!Read, ST!LineDone, ST!Handle,
         ST!GatesAndSleep
<1> QED
  BY <1>1, <1>2

\* The count of the live objects is 0 only when there is none.
LEMMA LiveCount ==
  ASSUME Values
  PROVE  /\ IsFiniteSet(Live) /\ Cardinality(Live) \in Nat
         /\ Live # {} => Cardinality(Live) > 0
<1>1. IsFiniteSet(Live)
  BY ObjectsAssumption, FS_Subset DEF Live
<1>2. Cardinality(Live) \in Nat
  BY <1>1, FS_CardinalityType
<1>3. Cardinality(Live) = 0 <=> Live = {}
  BY <1>1, FS_EmptySet
<1> QED
  BY <1>1, <1>2, <1>3

\* Every step keeps the flags' types.
LEMMA FlagsStep ==
  ASSUME Flags, Values, [Next]_vars
  PROVE  Flags'
<1> USE DEF Flags, host, jack, sampler
<1>1. CASE Acquire
  BY <1>1, Zenon DEF Acquire
<1>2. CASE OpenFails
  BY <1>2, Zenon DEF OpenFails
<1>3. CASE Join
  BY <1>3, Zenon DEF Join
<1>4. CASE Release
  BY <1>4, Zenon DEF Release
<1>5. CASE Reset
  BY <1>5, Zenon DEF Reset, CloseBegin
<1>6. CASE JackStep
  BY <1>6, Zenon DEF JackStep, CloseBegin
<1>7. CASE JackQuit
  BY <1>7, Zenon DEF JackQuit, CloseBegin
<1>8. ASSUME NEW o \in Objects, New(o) PROVE Flags'
  BY <1>8, Zenon DEF New
<1>9. ASSUME NEW o \in Objects, Free(o) PROVE Flags'
  BY <1>9, Zenon DEF Free, CloseBegin
<1>10. CASE Process
  <2>1. UNCHANGED <<running, g_ctx>>
    BY <1>10 DEF Process
  <2>2. audio' = ~ audio
    BY <1>10, Zenon DEF Process
  <2> QED
    BY <2>1, <2>2, Zenon
<1>11. CASE Sample
  <2>1. UNCHANGED <<running, g_ctx, audio>>
    BY <1>11, SampleKeeps
  <2> QED
    BY <2>1, Zenon
<1>12. CASE Edge
  BY <1>12, Zenon DEF Edge, ST!Edge
<1>13. CASE UNCHANGED vars
  BY <1>13, Zenon DEF vars
<1> QED
  BY <1>1, <1>2, <1>3, <1>4, <1>5, <1>6, <1>7, <1>8, <1>9, <1>10, <1>11, <1>12, <1>13
     DEF Next, Main

\* Every step keeps the other variables' types.
LEMMA ValuesStep ==
  ASSUME Values, Sharing, [Next]_vars
  PROVE  Values'
<1> USE DEF Values, host, jack, sampler
<1>1. CASE Acquire
  <2>1. spc' \in {"loop", spc}
    BY <1>1, Zenon DEF Acquire
  <2>2. /\ pc' \in {"open", "idle"} /\ k' \in Nat /\ g_refs' \in Nat
        /\ obj' \in [Objects -> {"none", "live", "silent"}]
    BY <1>1 DEF Acquire
  <2>3. UNCHANGED <<binding, backend, maker, client>>
    BY <1>1 DEF Acquire
  <2> QED
    BY <2>1, <2>2, <2>3
<1>2. CASE OpenFails
  BY <1>2 DEF OpenFails
<1>3. CASE Join
  BY <1>3 DEF Join
<1>4. CASE Release
  BY <1>4 DEF Release
<1>5. CASE Reset
  BY <1>5 DEF Reset, CloseBegin
<1>6. CASE JackStep
  BY <1>6 DEF JackStep, CloseBegin
<1>7. CASE JackQuit
  BY <1>7 DEF JackQuit, CloseBegin
<1>8. ASSUME NEW o \in Objects, New(o) PROVE Values'
  BY <1>8 DEF New
<1>9. ASSUME NEW o \in Objects, Free(o) PROVE Values'
  <2>1. g_refs' \in Nat
    <3>1. CASE obj[o] = "silent"
      BY <1>9, <3>1 DEF Free
    <3>2. CASE obj[o] # "silent"
      <4>1. o \in Live /\ binding = "refs" /\ pc = "idle" /\ g_refs' = g_refs - 1
        BY <1>9, <3>2 DEF Free, Live
      <4>2. g_refs = Cardinality(Live) /\ Cardinality(Live) > 0
        BY <4>1, LiveCount DEF Sharing
      <4> QED
        BY <4>1, <4>2
    <3> QED
      BY <3>1, <3>2
  <2>2. pc' \in {"idle", "join"} /\ k' \in Nat
    BY <1>9 DEF Free, CloseBegin
  <2>3. obj' \in [Objects -> {"none", "live", "silent"}]
    BY <1>9 DEF Free
  <2>4. UNCHANGED <<binding, backend, spc, maker, client>>
    BY <1>9 DEF Free
  <2> QED
    BY <2>1, <2>2, <2>3, <2>4
<1>10. CASE Process
  BY <1>10 DEF Process
<1>11. CASE Sample
  BY <1>11, SampleKeeps
<1>12. CASE Edge
  BY <1>12 DEF Edge, ST!Edge
<1>13. CASE UNCHANGED vars
  BY <1>13 DEF vars
<1> QED
  BY <1>1, <1>2, <1>3, <1>4, <1>5, <1>6, <1>7, <1>8, <1>9, <1>10, <1>11, <1>12, <1>13
     DEF Next, Main

\* Every step keeps what is held at each place of open and close.
LEMMA HoldingStep ==
  ASSUME Values, Holding, Threads, Sharing, [Next]_vars
  PROVE  Holding'
<1>b. /\ backend \in {"linux", "sim"}
      /\ Order' = Order /\ All' = All /\ CloseOrder' = CloseOrder
  BY BackendStays DEF Values
<1>o. /\ Len(Order) \in Nat /\ Len(Order) >= 1 /\ FirstOf(Order, Len(Order)) = All
      /\ Len(CloseOrder) \in Nat /\ Len(CloseOrder) >= 1
      /\ FirstOf(CloseOrder, Len(CloseOrder)) = All \ {Thread}
  BY <1>b, OpenIsComplete, CloseIsComplete
<1>n. \A s : FirstOf(s, 1 - 1) = {}
  BY FirstOfNone
<1> USE DEF Holding, host, jack, sampler
<1>1. CASE Acquire
  <2>1. k \in 1 .. Len(Order) /\ held' = FirstOf(Order, k - 1) \cup {Order[k]} /\ ~ g_ctx
    BY <1>1 DEF Acquire
  <2>2. held' = FirstOf(Order, k)
    BY <2>1, <1>o, FirstOfNext
  <2>3. CASE k < Len(Order)
    <3>1. pc' = "open" /\ k' = k + 1 /\ g_ctx' = g_ctx /\ k + 1 \in 1 .. Len(Order) /\ (k + 1) - 1 = k
      BY <1>1, <1>o, <2>1, <2>3 DEF Acquire
    <3> QED
      BY <1>b, <2>1, <2>2, <3>1
  <2>4. CASE ~ (k < Len(Order))
    <3>1. pc' = "idle" /\ k' = 1 /\ g_ctx' = TRUE /\ k = Len(Order)
      BY <1>1, <1>o, <2>1, <2>4 DEF Acquire
    <3> QED
      BY <1>b, <1>o, <2>2, <3>1
  <2> QED
    BY <2>3, <2>4
<1>2. CASE OpenFails
  <2>1. k \in 1 .. Len(Order) /\ held = FirstOf(Order, k - 1) /\ ~ g_ctx
    BY <1>2 DEF OpenFails
  <2>2. held' = {}
    BY <1>2, <1>b, <2>1, CleanUpIsComplete DEF OpenFails
  <2> QED
    BY <1>2, <2>1, <2>2 DEF OpenFails
<1>3. CASE Join
  BY <1>3, <1>b, <1>o, <1>n DEF Join
<1>4. CASE Release
  <2>1. /\ k \in 1 .. Len(CloseOrder) /\ g_ctx
        /\ held' = ((All \ {Thread}) \ FirstOf(CloseOrder, k - 1)) \ {CloseOrder[k]}
    BY <1>4 DEF Release
  <2>2. held' = (All \ {Thread}) \ FirstOf(CloseOrder, k)
    BY <2>1, <1>o, FirstOfNext
  <2>3. CASE k < Len(CloseOrder)
    <3>1. pc' = "close" /\ k' = k + 1 /\ g_ctx' = g_ctx /\ k + 1 \in 1 .. Len(CloseOrder)
          /\ (k + 1) - 1 = k
      BY <1>4, <1>o, <2>1, <2>3 DEF Release
    <3> QED
      BY <1>b, <2>1, <2>2, <3>1 DEF Thread
  <2>4. CASE ~ (k < Len(CloseOrder))
    <3>1. pc' = "idle" /\ k' = 1 /\ g_ctx' = FALSE /\ k = Len(CloseOrder)
      BY <1>4, <1>o, <2>1, <2>4 DEF Release
    <3> QED
      BY <1>o, <2>2, <3>1
  <2> QED
    BY <2>3, <2>4
<1>5. CASE Reset
  BY <1>5, <1>b DEF Reset, CloseBegin
<1>6. CASE JackStep
  BY <1>6, <1>b DEF JackStep, CloseBegin
<1>7. CASE JackQuit
  BY <1>7, <1>b DEF JackQuit, CloseBegin, Threads
<1>8. ASSUME NEW o \in Objects, New(o) PROVE Holding'
  BY <1>8, <1>b, <1>o, <1>n DEF New
<1>9. ASSUME NEW o \in Objects, Free(o) PROVE Holding'
  <2>1. obj[o] = "live" => g_ctx
    BY DEF Sharing, Live
  <2> QED
    BY <1>9, <1>b, <2>1 DEF Free, CloseBegin
<1>10. CASE Process \/ Sample \/ Edge \/ UNCHANGED vars
  <2>1. UNCHANGED <<pc, k, held, g_ctx>>
    BY <1>10, SampleKeeps DEF Process, Edge, vars
  <2> QED
    BY <1>b, <2>1 DEF Thread
<1> QED
  BY <1>1, <1>2, <1>3, <1>4, <1>5, <1>6, <1>7, <1>8, <1>9, <1>10 DEF Next, Main
\* Every step keeps which threads run, and with what.
LEMMA ThreadsStep ==
  ASSUME Flags, Values, Holding, Threads, Sharing, [Next]_vars
  PROVE  Threads'
<1>f. g_ctx \in BOOLEAN /\ audio \in BOOLEAN
  BY Zenon DEF Flags
<1> USE DEF Threads, host, jack, sampler
<1>1. CASE Acquire
  <2>1. pc = "open" /\ spc = "none" /\ client = "none" /\ ~ audio
    BY <1>1 DEF Acquire
  <2>2. k \in 1 .. Len(Order) /\ Len(Order) \in Nat
        /\ (Order[k] = Thread <=> k = Len(Order))
    BY <2>1, OpenIsComplete DEF Holding, Values
  <2>3. CASE k = Len(Order)
    <3>1. pc' = "idle" /\ g_ctx' = TRUE /\ client' = client /\ audio' = audio
      BY <1>1, <2>2, <2>3 DEF Acquire
    <3> QED
      BY <2>1, <3>1
  <2>4. CASE k # Len(Order)
    <3>1. spc' = spc
      BY <1>1, <2>2, <2>4, Zenon DEF Acquire
    <3>2. client' = client /\ audio' = audio
      BY <1>1 DEF Acquire
    <3> QED
      BY <2>1, <3>1, <3>2
  <2> QED
    BY <2>3, <2>4
<1>2. CASE OpenFails
  BY <1>2 DEF OpenFails
<1>3. CASE Join
  BY <1>3 DEF Join
<1>4. CASE Release
  BY <1>4 DEF Release
<1>5. CASE Reset
  BY <1>5 DEF Reset, CloseBegin
<1>6. CASE JackStep
  BY <1>6 DEF JackStep, CloseBegin
<1>7. CASE JackQuit
  BY <1>7 DEF JackQuit, CloseBegin
<1>8. ASSUME NEW o \in Objects, New(o) PROVE Threads'
  BY <1>8 DEF New
<1>9. ASSUME NEW o \in Objects, Free(o) PROVE Threads'
  BY <1>9 DEF Free, CloseBegin
<1>10. CASE Process
  BY <1>10 DEF Process
<1>11. CASE Sample
  BY <1>11, SampleKeeps
<1>12. CASE Edge
  BY <1>12 DEF Edge, ST!Edge
<1>13. CASE UNCHANGED vars
  BY <1>13 DEF vars
<1> QED
  BY <1>1, <1>2, <1>3, <1>4, <1>5, <1>6, <1>7, <1>8, <1>9, <1>10, <1>11, <1>12, <1>13
     DEF Next, Main

\* Every step keeps which objects share the context.
LEMMA SharingStep ==
  ASSUME Flags, Values, Holding, Threads, Sharing, [Next]_vars
  PROVE  Sharing'
<1>0. binding' = binding /\ obj \in [Objects -> {"none", "live", "silent"}] /\ maker \in Objects
  BY BackendStays DEF Values
<1>1. Live \subseteq Objects /\ IsFiniteSet(Live) /\ Cardinality(Live) \in Nat
      /\ (Live # {} => Cardinality(Live) > 0) /\ Cardinality({}) = 0
  BY LiveCount, FS_EmptySet DEF Live
<1>2. ASSUME UNCHANGED <<obj, maker, pc, g_ctx, g_refs>> PROVE Sharing'
  <2>1. Live' = Live
    BY <1>2 DEF Live
  <2> QED
    BY <1>0, <1>2, <2>1 DEF Sharing
<1> USE DEF host, jack, sampler
\* A close begins, and nothing lives then.
<1>3. ASSUME pc' = "join", Live' = {}, UNCHANGED maker, \A o \in Objects \ {maker} : obj[o] = "none" => obj'[o] = "none"
      PROVE  Sharing'
  BY <1>0, <1>3 DEF Sharing
<1>4. CASE Acquire
  <2>1. pc = "open" /\ ~ g_ctx
    BY <1>4 DEF Acquire, Holding
  <2>2. obj[maker] = "none" /\ Live = {}
    BY <2>1 DEF Sharing
  <2>3. CASE k < Len(Order)
    <3>1. UNCHANGED <<obj, maker, pc, g_ctx, g_refs>>
      BY <1>4, <2>3 DEF Acquire
    <3> QED
      BY <1>2, <3>1
  <2>4. CASE ~ (k < Len(Order))
    <3>1. /\ pc' = "idle" /\ g_ctx' = TRUE /\ g_refs' = 1 /\ maker' = maker
          /\ obj' = [obj EXCEPT ![maker] = "live"]
      BY <1>4, <2>4 DEF Acquire
    <3>2. Live' = {maker}
      BY <1>0, <2>2, <3>1 DEF Live
    <3>3. Cardinality({maker}) = 1
      BY FS_Singleton
    <3> QED
      BY <1>0, <3>1, <3>2, <3>3 DEF Sharing
  <2> QED
    BY <2>3, <2>4
<1>5. CASE OpenFails
  <2>1. pc = "open" /\ pc' = "idle" /\ UNCHANGED <<g_ctx, g_refs, maker>>
        /\ obj' = [obj EXCEPT ![maker] = "silent"]
    BY <1>5 DEF OpenFails
  <2>2. Live = {}
    BY <2>1 DEF Sharing
  <2>3. Live' = {}
    BY <1>0, <2>1, <2>2 DEF Live
  <2> QED
    BY <1>0, <1>1, <2>1, <2>2, <2>3 DEF Sharing
<1>6. CASE Join
  <2>1. pc = "join" /\ pc' = "close" /\ UNCHANGED <<obj, maker>>
    BY <1>6 DEF Join
  <2>2. Live = {} /\ Live' = Live
    BY <2>1 DEF Sharing, Live
  <2> QED
    BY <1>0, <2>1, <2>2 DEF Sharing
<1>7. CASE Release
  <2>1. pc = "close" /\ UNCHANGED <<obj, maker>> /\ (pc' = "close" \/ (pc' = "idle" /\ g_refs' = 0))
    BY <1>7 DEF Release
  <2>2. Live = {} /\ Live' = Live
    BY <2>1 DEF Sharing, Live
  <2> QED
    BY <1>0, <1>1, <2>1, <2>2 DEF Sharing
<1>8. CASE Reset
  <2>1. obj' = [o \in Objects |-> "none"] /\ UNCHANGED <<maker, g_ctx, g_refs>> /\ binding = "reset"
        /\ pc = "idle" /\ (pc' = "idle" \/ pc' = "join")
    BY <1>8 DEF Reset, CloseBegin
  <2>2. Live' = {}
    BY <2>1 DEF Live
  <2> QED
    BY <1>0, <2>1, <2>2 DEF Sharing
<1>9. CASE JackStep \/ JackQuit
  <2>1. /\ UNCHANGED maker /\ pc = "idle"
        /\ \/ UNCHANGED <<obj, pc, g_ctx, g_refs>>
           \/ pc' = "join" /\ obj' = [obj EXCEPT ![maker] = "silent"]
    BY <1>9 DEF JackStep, JackQuit, CloseBegin
  <2>2. binding = "jack"
    BY <1>9 DEF JackStep, JackQuit, Threads
  <2>3. CASE pc' = "join" /\ obj' = [obj EXCEPT ![maker] = "silent"]
    <3>1. Live' = {}
      BY <1>0, <2>2, <2>3 DEF Live, Sharing
    <3> QED
      BY <1>0, <1>3, <2>1, <2>3, <3>1
  <2> QED
    BY <1>2, <2>1, <2>3
<1>10. ASSUME NEW o \in Objects, New(o) PROVE Sharing'
  <2>1. /\ pc = "idle" /\ obj[o] = "none" /\ maker' = o /\ UNCHANGED g_ctx
        /\ binding = "jack" => \A p \in Objects : obj[p] = "none"
    BY <1>10 DEF New
  <2>2. CASE g_ctx
    <3>1. obj' = [obj EXCEPT ![o] = "live"] /\ g_refs' = g_refs + 1 /\ pc' = pc
      BY <1>10, <2>2 DEF New
    <3>2. Live' = Live \cup {o} /\ o \notin Live
      BY <1>0, <2>1, <3>1 DEF Live
    <3>3. Cardinality(Live') = Cardinality(Live) + 1
      BY <1>1, <3>2, FS_AddElement
    <3> QED
      BY <1>0, <2>1, <2>2, <3>1, <3>2, <3>3 DEF Sharing
  <2>3. CASE ~ g_ctx
    <3>1. pc' = "open" /\ UNCHANGED <<g_refs, obj>>
      BY <1>10, <2>3 DEF New
    <3>2. Live' = Live /\ Live = {}
      BY <2>3, <3>1 DEF Sharing, Live
    <3> QED
      BY <1>0, <2>1, <3>1, <3>2 DEF Sharing
  <2> QED
    BY <2>2, <2>3
<1>11. ASSUME NEW o \in Objects, Free(o) PROVE Sharing'
  <2>1. /\ binding = "refs" /\ pc = "idle" /\ obj[o] \in {"live", "silent"}
        /\ obj' = [obj EXCEPT ![o] = "none"] /\ UNCHANGED <<g_ctx, maker>>
    BY <1>11 DEF Free
  <2>2. CASE obj[o] = "silent"
    <3>1. UNCHANGED <<pc, g_refs>>
      BY <1>11, <2>2 DEF Free
    <3>2. Live' = Live
      BY <1>0, <2>1, <2>2 DEF Live
    <3> QED
      BY <1>0, <2>1, <3>1, <3>2 DEF Sharing
  <2>3. CASE obj[o] = "live"
    <3>1. Live' = Live \ {o} /\ o \in Live
      BY <1>0, <2>1, <2>3 DEF Live
    <3>2. Cardinality(Live') = Cardinality(Live) - 1 /\ IsFiniteSet(Live')
      BY <1>1, <3>1, FS_RemoveElement
    <3>3. g_refs' = g_refs - 1 /\ g_refs = Cardinality(Live) /\ g_ctx
      BY <1>11, <2>1, <2>3, <3>1 DEF Free, Sharing
    <3>4. CASE g_refs - 1 <= 0
      <4>1. pc' = "join"
        BY <1>11, <2>3, <3>4 DEF Free, CloseBegin
      <4>2. Cardinality(Live') = 0
        BY <1>1, <3>1, <3>2, <3>3, <3>4
      <4>3. Live' = {}
        BY <3>2, <4>2, FS_EmptySet
      <4> QED
        BY <1>0, <2>1, <4>1, <4>3 DEF Sharing
    <3>5. CASE ~ (g_refs - 1 <= 0)
      <4>1. pc' = pc
        BY <1>11, <2>3, <3>5 DEF Free
      <4> QED
        BY <1>0, <2>1, <3>2, <3>3, <4>1 DEF Sharing
    <3> QED
      BY <3>4, <3>5
  <2> QED
    BY <2>1, <2>2, <2>3
<1>12. CASE Process \/ Edge \/ UNCHANGED vars
  BY <1>2, <1>12 DEF Process, Edge, vars
<1>13. CASE Sample
  BY <1>2, <1>13, SampleKeeps
<1> QED
  BY <1>4, <1>5, <1>6, <1>7, <1>8, <1>9, <1>10, <1>11, <1>12, <1>13 DEF Next, Main

\* The invariant holds for every number of objects, lines and gates, every backend
\* and binding.
THEOREM Invariance == Spec => []IInv
<1>1. Init => IInv
  BY FirstStates
<1>2. IInv /\ [Next]_vars => IInv'
  BY FlagsStep, ValuesStep, HoldingStep, ThreadsStep, SharingStep DEF IInv, TypeOK
<1> QED
  BY <1>1, <1>2, PTL DEF Spec

-----------------------------------------------------------------------------
(* What follows from it *)

\* Between two calls everything is held or nothing is, whichever acquisition failed.
THEOREM NothingLeaks == Spec => []AllOrNothing
<1>1. IInv => AllOrNothing
  BY DEF IInv, Holding, AllOrNothing
<1> QED
  BY <1>1, Invariance, PTL

\* No step of the sampling thread, nor a process(), works with what is released.
THEOREM ReleasedIsUnused == Spec => []NoUseAfterRelease
<1>1. IInv => NoUseAfterRelease
  <2> SUFFICES ASSUME IInv PROVE NoUseAfterRelease
    OBVIOUS
  <2> USE DEF IInv
  <2>1. backend \in {"linux", "sim"}
    BY DEF TypeOK, Values
  <2>2. All = {<<"ctx", 0>>} \cup ToSet(Rings) \cup ToSet(Device) \cup {Thread}
    BY <2>1, OrderIs
  <2>3. spc \notin {"none", "exited"} => held = All
    BY DEF Threads, Holding
  <2>4. UsedAt(spc) \subseteq All
    <3>1. CASE spc = "scan"
      BY <2>2, <3>1, RingsAre DEF UsedAt
    <3>2. CASE spc \in {"poll", "read", "gates"}
      BY <2>2, <3>2 DEF UsedAt
    <3>3. CASE spc = "events"
      BY <2>2, <3>3, RingsAre DEF UsedAt
    <3>4. CASE spc \notin {"scan", "poll", "read", "gates", "events"}
      BY <2>2, <3>4 DEF UsedAt
    <3> QED
      BY <3>1, <3>2, <3>3, <3>4
  <2>5. audio => held = All
    BY DEF Threads, Holding
  <2> QED
    BY <2>2, <2>3, <2>4, <2>5 DEF NoUseAfterRelease
<1> QED
  BY <1>1, Invariance, PTL

\* An object that got the context has it while it lives, and it goes with the last.
THEOREM ContextIsShared == Spec => []ContextOutlivesObjects
<1>1. IInv => ContextOutlivesObjects
  BY DEF IInv, Sharing, Live, ContextOutlivesObjects
<1> QED
  BY <1>1, Invariance, PTL
=============================================================================
