-------------------------- MODULE DataQueueProofs --------------------------
(***************************************************************************)
(* What holds of the data queue for any handlers, keys and retry budget,   *)
(* however senders, pollers and handlers interleave with the dispatch      *)
(* loop.                                                                   *)
(***************************************************************************)
EXTENDS DataQueue, SequenceTheorems, TLAPS

EntryRecord == [key : Keys \cup {NoKey}, count : 0..MaxReceiveCount]

\* Entries e are in their places: q waits, d is dead, c is in flight (or None),
\* out has left.  Every entry is in one place; what waits has a delivery left,
\* what is dead had all of them; and what nobody has seen waits in the order
\* of the sends.

PlaceTypes(e, q, d, c, out) ==
  /\ e \in Seq(EntryRecord)
  /\ q \in Seq(DOMAIN e)
  /\ d \in Seq(DOMAIN e)
  /\ c \in DOMAIN e \cup {None}
  /\ out \subseteq DOMAIN e

Once(s) == \A i, j \in DOMAIN s : s[i] = s[j] => i = j

Apart(q, d, c, out) ==
  /\ Once(q) /\ Once(d)
  /\ \A n \in Range(q) : n \notin Range(d) /\ n # c /\ n \notin out
  /\ \A n \in Range(d) : n # c /\ n \notin out
  /\ c \notin out

Somewhere(e, q, d, c, out) ==
  \A n \in DOMAIN e : n \in Range(q) \/ n \in Range(d) \/ n = c \/ n \in out

Budget(e, q, d) ==
  /\ \A n \in Range(q) : e[n].count < MaxReceiveCount
  /\ \A n \in Range(d) : e[n].count = MaxReceiveCount

Unseen(e, q) ==
  /\ \A n \in DOMAIN e : e[n].count = 0 => n \in Range(q)
  /\ \A i, j \in DOMAIN q :
       i < j /\ e[q[i]].count = 0 /\ e[q[j]].count = 0 => q[i] < q[j]
  /\ \A m, n \in DOMAIN e : m < n /\ e[n].count > 0 => e[m].count > 0

Sound(e, q, d, c, out) ==
  /\ PlaceTypes(e, q, d, c, out)
  /\ Apart(q, d, c, out)
  /\ Somewhere(e, q, d, c, out)
  /\ Budget(e, q, d)
  /\ Unseen(e, q)

IInv ==
  /\ Sound(entry, queue, dlq, current, done \cup thrown)
  /\ dedupIndex \subseteq Keys
  /\ consumers \in Seq(Handlers)
  /\ pos \in 0..Len(consumers)
  /\ ConsumersAreFed

-----------------------------------------------------------------------------
\* Sequences.

LEMMA RangeOf ==
  ASSUME NEW S, NEW s \in Seq(S)
  PROVE  /\ Range(s) \subseteq S
         /\ DOMAIN s = 1..Len(s) /\ Len(s) \in Nat
         /\ \A i \in DOMAIN s : s[i] \in Range(s)
         /\ \A x \in Range(s) : \E i \in DOMAIN s : s[i] = x
<1>1. DOMAIN s = 1..Len(s) /\ Len(s) \in Nat
  BY LenProperties
<1>2. \A i \in DOMAIN s : s[i] \in S
  BY <1>1, ElementOfSeq
<1> QED
  BY <1>1, <1>2 DEF Range

\* The head of a sequence without repetitions, and the rest.
LEMMA Taken ==
  ASSUME NEW S, NEW s \in Seq(S), s # <<>>
  PROVE  /\ Head(s) \in S /\ Tail(s) \in Seq(S)
         /\ 1 \in DOMAIN s /\ s[1] = Head(s)
         /\ \A i \in DOMAIN Tail(s) : i \in Nat /\ i >= 1 /\ i + 1 \in DOMAIN s
                                      /\ Tail(s)[i] = s[i + 1]
         /\ Range(s) = Range(Tail(s)) \cup {Head(s)}
         /\ Once(s) => Once(Tail(s)) /\ Head(s) \notin Range(Tail(s))
<1>1. /\ Head(s) \in S /\ Tail(s) \in Seq(S)
      /\ Len(Tail(s)) = Len(s) - 1
      /\ \A i \in 1..Len(Tail(s)) : Tail(s)[i] = s[i + 1]
  BY HeadTailProperties
<1>2. /\ DOMAIN s = 1..Len(s) /\ Len(s) \in Nat \ {0}
      /\ DOMAIN Tail(s) = 1..Len(Tail(s))
  BY <1>1, LenProperties, EmptySeq
<1>3. 1 \in DOMAIN s /\ s[1] = Head(s)
  BY <1>2
<1>4. \A i \in DOMAIN Tail(s) :
        i \in Nat /\ i >= 1 /\ i + 1 \in DOMAIN s /\ Tail(s)[i] = s[i + 1]
  BY <1>1, <1>2
<1>5. ASSUME NEW j \in DOMAIN s, j # 1
      PROVE  j - 1 \in DOMAIN Tail(s) /\ Tail(s)[j - 1] = s[j]
  BY <1>1, <1>2, <1>5
<1>6. Range(s) \subseteq Range(Tail(s)) \cup {Head(s)}
  BY <1>3, <1>5 DEF Range
<1>7. Range(Tail(s)) \cup {Head(s)} \subseteq Range(s)
  BY <1>3, <1>4 DEF Range
<1>8. ASSUME Once(s) PROVE Once(Tail(s)) /\ Head(s) \notin Range(Tail(s))
  <2>1. ASSUME NEW i \in DOMAIN Tail(s), NEW j \in DOMAIN Tail(s), Tail(s)[i] = Tail(s)[j]
        PROVE  i = j
    <3>1. i + 1 = j + 1
      BY <1>4, <1>8, <2>1 DEF Once
    <3> QED
      BY <1>4, <3>1
  <2>2. ASSUME NEW i \in DOMAIN Tail(s) PROVE Tail(s)[i] # Head(s)
    <3>1. i + 1 # 1
      BY <1>4
    <3> QED
      BY <1>3, <1>4, <1>8, <3>1 DEF Once
  <2> QED
    BY <2>1, <2>2 DEF Once, Range
<1> QED
  BY <1>1, <1>3, <1>4, <1>6, <1>7, <1>8

\* An element that was not in a sequence is appended.
LEMMA Put ==
  ASSUME NEW S, NEW s \in Seq(S), NEW x \in S
  PROVE  /\ Append(s, x) \in Seq(S)
         /\ DOMAIN Append(s, x) = 1..(Len(s) + 1)
         /\ DOMAIN s = 1..Len(s) /\ Len(s) \in Nat
         /\ \A i \in DOMAIN s : Append(s, x)[i] = s[i]
         /\ Append(s, x)[Len(s) + 1] = x
         /\ Range(Append(s, x)) = Range(s) \cup {x}
         /\ Once(s) /\ x \notin Range(s) => Once(Append(s, x))
<1>1. /\ Append(s, x) \in Seq(S)
      /\ DOMAIN Append(s, x) = 1..(Len(s) + 1)
      /\ DOMAIN s = 1..Len(s) /\ Len(s) \in Nat
      /\ \A i \in DOMAIN s : Append(s, x)[i] = s[i]
      /\ Append(s, x)[Len(s) + 1] = x
  BY AppendProperties, LenProperties
<1>2. \A i \in DOMAIN Append(s, x) : i \in DOMAIN s \/ i = Len(s) + 1
  BY <1>1
<1>3. Range(Append(s, x)) \subseteq Range(s) \cup {x}
  BY <1>1, <1>2 DEF Range
<1>4. DOMAIN s \subseteq DOMAIN Append(s, x) /\ Len(s) + 1 \in DOMAIN Append(s, x)
  BY <1>1
<1>5. Range(s) \cup {x} \subseteq Range(Append(s, x))
  BY <1>1, <1>4 DEF Range
<1>6. ASSUME Once(s), x \notin Range(s) PROVE Once(Append(s, x))
  BY <1>1, <1>2, <1>6 DEF Once, Range
<1> QED
  BY <1>1, <1>3, <1>5, <1>6

\* The places.

\* The head of the queue is taken and counted.
LEMMA TakenEntry ==
  ASSUME NEW e, NEW q, NEW d, NEW c, NEW out, Sound(e, q, d, c, out), q # <<>>
  PROVE  LET n == Head(q)
             f == Counted(e, n)
         IN /\ f \in Seq(EntryRecord) /\ DOMAIN f = DOMAIN e
            /\ n \in DOMAIN e /\ n \in Nat \ {None} /\ n \in Range(q)
            /\ \A m \in DOMAIN e : m # n => f[m] = e[m]
            /\ f[n].count = e[n].count + 1
            /\ e[n].count \in Nat
<1> DEFINE n == Head(q)
           r == [key |-> e[n].key, count |-> e[n].count + 1]
           f == [e EXCEPT ![n] = r]
<1>1. e \in Seq(EntryRecord) /\ q \in Seq(DOMAIN e)
  BY DEF Sound, PlaceTypes
<1>2. DOMAIN e = 1..Len(e) /\ Len(e) \in Nat
  BY <1>1, LenProperties
<1>3. n \in DOMAIN e /\ n \in Range(q)
  BY <1>1, Taken
<1>4. n \in Nat \ {None}
  BY <1>2, <1>3 DEF None
<1>5. e[n] \in EntryRecord /\ e[n].count < MaxReceiveCount
  BY <1>1, <1>2, <1>3, ElementOfSeq DEF Sound, Budget
<1>6. e[n].count \in Nat /\ r \in EntryRecord /\ r.count = e[n].count + 1
  BY <1>5, DataQueueAssumption DEF EntryRecord, DataQueueAssumption
<1>7. f = Counted(e, n)
  BY DEF Counted
<1> HIDE DEF r, n
<1>8. /\ f \in Seq(EntryRecord) /\ DOMAIN f = DOMAIN e
      /\ \A m \in DOMAIN e : m # n => f[m] = e[m]
      /\ f[n] = r
  <2>1. f \in [1..Len(e) -> EntryRecord]
    BY <1>1, <1>2, <1>3, <1>6, LenProperties
  <2> QED
    BY <1>1, <1>2, <1>3, <1>6, <2>1, ExceptSeq
<1> QED
  BY <1>3, <1>4, <1>6, <1>7, <1>8 DEF n

\* Once taken, an entry may be in flight or out: what is left is as it was.
LEMMA TakenSound ==
  ASSUME NEW e, NEW q, NEW d, NEW c, NEW out, Sound(e, q, d, c, out), q # <<>>,
         NEW c2, NEW out2,
         \/ c = None /\ c2 = Head(q) /\ out2 = out
         \/ c2 = c /\ out2 = out \cup {Head(q)}
  PROVE  Sound(Counted(e, Head(q)), Tail(q), d, c2, out2)
<1> DEFINE n == Head(q)
           f == Counted(e, n)
           t == Tail(q)
<1>1. /\ e \in Seq(EntryRecord) /\ q \in Seq(DOMAIN e) /\ d \in Seq(DOMAIN e)
      /\ c \in DOMAIN e \cup {None} /\ out \subseteq DOMAIN e
  BY DEF Sound, PlaceTypes
<1>2. /\ f \in Seq(EntryRecord) /\ DOMAIN f = DOMAIN e
      /\ n \in DOMAIN e /\ n \in Nat \ {None} /\ n \in Range(q)
      /\ \A m \in DOMAIN e : m # n => f[m] = e[m]
      /\ f[n].count = e[n].count + 1
      /\ e[n].count \in Nat
  BY TakenEntry
<1>3. /\ t \in Seq(DOMAIN e) /\ 1 \in DOMAIN q /\ q[1] = n
      /\ \A i \in DOMAIN t : i \in Nat /\ i >= 1 /\ i + 1 \in DOMAIN q /\ t[i] = q[i + 1]
      /\ Range(q) = Range(t) \cup {n}
      /\ Once(t) /\ n \notin Range(t)
  BY <1>1, Taken DEF Sound, Apart
<1> HIDE DEF n, f, t
<1>4. c2 \in DOMAIN e \cup {None} /\ out2 \subseteq DOMAIN e
  BY <1>1, <1>2 DEF n
<1>5. PlaceTypes(f, t, d, c2, out2)
  BY <1>1, <1>2, <1>3, <1>4 DEF PlaceTypes
<1>6. Apart(t, d, c2, out2)
  <2>1. Apart(q, d, c, out)
    BY DEF Sound
  <2>2. CASE c = None /\ c2 = n /\ out2 = out
    BY <1>2, <1>3, <2>1, <2>2 DEF Apart
  <2>3. CASE c2 = c /\ out2 = out \cup {n}
    BY <1>2, <1>3, <2>1, <2>3 DEF Apart
  <2> QED
    BY <2>2, <2>3 DEF n
<1>7. Somewhere(f, t, d, c2, out2)
  <2>1. Somewhere(e, q, d, c, out)
    BY DEF Sound
  <2>2. CASE c = None /\ c2 = n /\ out2 = out
    <3>1. None \notin DOMAIN e
      BY <1>1, LenProperties DEF None
    <3> QED
      BY <1>2, <1>3, <2>1, <2>2, <3>1 DEF Somewhere
  <2>3. CASE c2 = c /\ out2 = out \cup {n}
    BY <1>2, <1>3, <2>1, <2>3 DEF Somewhere
  <2> QED
    BY <2>2, <2>3 DEF n
<1>8. Budget(f, t, d)
  <2>1. Budget(e, q, d) /\ n \notin Range(d)
    BY <1>2 DEF Sound, Apart
  <2>2. Range(t) \subseteq DOMAIN e /\ Range(d) \subseteq DOMAIN e
    BY <1>1, <1>3, RangeOf
  <2> QED
    BY <1>2, <1>3, <2>1, <2>2 DEF Budget
<1>9. Unseen(f, t)
  <2>1. Unseen(e, q)
    BY DEF Sound
  <2>2. \A m \in DOMAIN e : f[m].count = 0 => m # n /\ e[m].count = 0
    BY <1>2
  <2>3. \A m \in DOMAIN f : f[m].count = 0 => m \in Range(t)
    BY <1>2, <1>3, <2>1, <2>2 DEF Unseen
  <2>4. ASSUME NEW i \in DOMAIN t, NEW j \in DOMAIN t,
               i < j, f[t[i]].count = 0, f[t[j]].count = 0
        PROVE  t[i] < t[j]
    <3>1. t[i] \in DOMAIN e /\ t[j] \in DOMAIN e
      BY <1>3, RangeOf
    <3>2. e[t[i]].count = 0 /\ e[t[j]].count = 0
      BY <2>2, <2>4, <3>1
    <3>3. i + 1 < j + 1
      BY <1>3, <2>4
    <3> QED
      BY <1>3, <2>1, <3>2, <3>3 DEF Unseen
  <2>5. ASSUME NEW m \in DOMAIN e, NEW k \in DOMAIN e, m < k, f[k].count > 0
        PROVE  f[m].count > 0
    <3>1. DOMAIN e \subseteq Nat /\ \A x \in DOMAIN e : e[x].count \in Nat
      <4>1. DOMAIN e = 1..Len(e) /\ Len(e) \in Nat
        BY <1>1, LenProperties
      <4>2. \A x \in DOMAIN e : e[x] \in EntryRecord
        BY <1>1, <4>1, ElementOfSeq
      <4> QED
        BY <4>1, <4>2, DataQueueAssumption DEF EntryRecord, DataQueueAssumption
    <3>2. CASE m = n
      BY <1>2, <3>2
    <3>3. CASE m # n /\ k # n
      BY <1>2, <2>1, <2>5, <3>3 DEF Unseen
    <3>4. CASE m # n /\ k = n
      <4>1. SUFFICES ASSUME e[m].count = 0 PROVE FALSE
        BY <1>2, <3>1, <3>4
      <4>2. m \in Range(q)
        BY <2>1, <4>1 DEF Unseen
      <4>3. PICK j \in DOMAIN q : q[j] = m
        BY <1>1, <4>2, RangeOf
      <4>4. j > 1
        <5>1. j \in Nat /\ j >= 1
          BY SMTT(30), <1>1, RangeOf
        <5> QED
          BY <1>3, <3>4, <4>3, <5>1
      <4>5. CASE e[n].count = 0
        <5>1. q[1] < q[j]
          BY <1>3, <2>1, <4>1, <4>3, <4>4, <4>5 DEF Unseen
        <5> QED
          BY <1>2, <1>3, <2>5, <3>1, <3>4, <4>3, <5>1
      <4>6. CASE e[n].count > 0
        BY <2>1, <2>5, <3>4, <4>1, <4>6 DEF Unseen
      <4> QED
        BY <1>2, <4>5, <4>6
    <3> QED
      BY <3>2, <3>3, <3>4
  <2> QED
    BY <1>2, <2>3, <2>4, <2>5 DEF Unseen
<1> QED
  BY <1>5, <1>6, <1>7, <1>8, <1>9 DEF Sound, f, t, n

\* The steps of an entry from place to place.

\* An entry in flight has been counted; it is an entry, and in no other place.
LEMMA InFlight ==
  ASSUME NEW e, NEW q, NEW d, NEW c, NEW out, Sound(e, q, d, c, out), c # None
  PROVE  /\ c \in DOMAIN e /\ c \notin Range(q) /\ c \notin Range(d) /\ c \notin out
         /\ e[c].count > 0 /\ e[c].count <= MaxReceiveCount /\ e[c].count \in Nat
         /\ None \notin DOMAIN e
<1>1. e \in Seq(EntryRecord) /\ c \in DOMAIN e
  BY DEF Sound, PlaceTypes
<1>2. DOMAIN e = 1..Len(e)
  BY <1>1, LenProperties
<1>3. c \notin Range(q) /\ c \notin Range(d) /\ c \notin out
  BY DEF Sound, Apart
<1>4. e[c].count # 0
  BY <1>1, <1>3 DEF Sound, Unseen
<1>5. e[c].count \in 0..MaxReceiveCount
  <2>1. e[c] \in EntryRecord
    BY <1>1, <1>2, ElementOfSeq
  <2> QED
    BY <2>1 DEF EntryRecord
<1> QED
  BY <1>1, <1>2, <1>3, <1>4, <1>5, DataQueueAssumption DEF None, DataQueueAssumption

\* It is acked, or a handler throws on it.
LEMMA OutSound ==
  ASSUME NEW e, NEW q, NEW d, NEW c, NEW out, Sound(e, q, d, c, out), c # None
  PROVE  Sound(e, q, d, None, out \cup {c})
<1>1. c \in DOMAIN e /\ c \notin Range(q) /\ c \notin Range(d) /\ None \notin DOMAIN e
  BY InFlight
<1>2. /\ q \in Seq(DOMAIN e) /\ d \in Seq(DOMAIN e) /\ out \subseteq DOMAIN e
  BY DEF Sound, PlaceTypes
<1>3. Range(q) \subseteq DOMAIN e /\ Range(d) \subseteq DOMAIN e
  BY <1>2, RangeOf
<1>4. PlaceTypes(e, q, d, None, out \cup {c})
  BY <1>1 DEF Sound, PlaceTypes
<1>5. Apart(q, d, None, out \cup {c})
  BY <1>1, <1>2, <1>3 DEF Sound, Apart
<1>6. Somewhere(e, q, d, None, out \cup {c})
  BY DEF Sound, Somewhere
<1> QED
  BY <1>4, <1>5, <1>6 DEF Sound

\* It goes to the tail of the queue.
LEMMA RetriedSound ==
  ASSUME NEW e, NEW q, NEW d, NEW c, NEW out, Sound(e, q, d, c, out), c # None,
         e[c].count < MaxReceiveCount
  PROVE  Sound(e, Append(q, c), d, None, out)
<1> DEFINE t == Append(q, c)
<1>1. /\ c \in DOMAIN e /\ c \notin Range(q) /\ c \notin Range(d) /\ c \notin out
      /\ None \notin DOMAIN e /\ e[c].count > 0
  BY InFlight
<1>2. /\ q \in Seq(DOMAIN e) /\ d \in Seq(DOMAIN e) /\ out \subseteq DOMAIN e
  BY DEF Sound, PlaceTypes
<1>3. Range(q) \subseteq DOMAIN e /\ Range(d) \subseteq DOMAIN e
  BY <1>2, RangeOf
<1>4. /\ t \in Seq(DOMAIN e) /\ DOMAIN t = 1..(Len(q) + 1)
      /\ DOMAIN q = 1..Len(q) /\ Len(q) \in Nat
      /\ \A i \in DOMAIN q : t[i] = q[i]
      /\ t[Len(q) + 1] = c
      /\ Range(t) = Range(q) \cup {c}
      /\ Once(t)
  BY <1>1, <1>2, Put DEF Sound, Apart
<1> HIDE DEF t
<1>5. PlaceTypes(e, t, d, None, out)
  BY <1>4 DEF Sound, PlaceTypes
<1>6. Apart(t, d, None, out)
  BY <1>1, <1>2, <1>3, <1>4 DEF Sound, Apart
<1>7. Somewhere(e, t, d, None, out)
  BY <1>4 DEF Sound, Somewhere
<1>8. Budget(e, t, d)
  BY <1>4 DEF Sound, Budget
<1>9. Unseen(e, t)
  <2>1. Unseen(e, q)
    BY DEF Sound
  <2>2. ASSUME NEW i \in DOMAIN t, NEW j \in DOMAIN t,
               i < j, e[t[i]].count = 0, e[t[j]].count = 0
        PROVE  t[i] < t[j]
    <3>1. i # Len(q) + 1 /\ j # Len(q) + 1
      BY <1>1, <1>4, <2>2
    <3>2. i \in DOMAIN q /\ j \in DOMAIN q
      BY <1>4, <3>1
    <3> QED
      BY <1>4, <2>1, <2>2, <3>2 DEF Unseen
  <2> QED
    BY <1>4, <2>1, <2>2 DEF Unseen
<1> QED
  BY <1>5, <1>6, <1>7, <1>8, <1>9 DEF Sound, t

\* It has had all its deliveries.
LEMMA DeadSound ==
  ASSUME NEW e, NEW q, NEW d, NEW c, NEW out, Sound(e, q, d, c, out), c # None,
         ~(e[c].count < MaxReceiveCount)
  PROVE  Sound(e, q, Append(d, c), None, out)
<1> DEFINE t == Append(d, c)
<1>1. /\ c \in DOMAIN e /\ c \notin Range(q) /\ c \notin Range(d) /\ c \notin out
      /\ None \notin DOMAIN e /\ e[c].count = MaxReceiveCount
  BY InFlight, DataQueueAssumption DEF DataQueueAssumption
<1>2. /\ q \in Seq(DOMAIN e) /\ d \in Seq(DOMAIN e) /\ out \subseteq DOMAIN e
  BY DEF Sound, PlaceTypes
<1>3. Range(q) \subseteq DOMAIN e /\ Range(d) \subseteq DOMAIN e
  BY <1>2, RangeOf
<1>4. t \in Seq(DOMAIN e) /\ Range(t) = Range(d) \cup {c} /\ Once(t)
  BY <1>1, <1>2, Put DEF Sound, Apart
<1> HIDE DEF t
<1>5. PlaceTypes(e, q, t, None, out)
  BY <1>4 DEF Sound, PlaceTypes
<1>6. Apart(q, t, None, out)
  BY <1>1, <1>2, <1>3, <1>4 DEF Sound, Apart
<1>7. Somewhere(e, q, t, None, out)
  BY <1>4 DEF Sound, Somewhere
<1>8. Budget(e, q, t)
  BY <1>1, <1>4 DEF Sound, Budget
<1> QED
  BY <1>5, <1>6, <1>7, <1>8 DEF Sound, t

\* The dead letters are drained.
LEMMA DrainedSound ==
  ASSUME NEW e, NEW q, NEW d, NEW c, NEW out, Sound(e, q, d, c, out)
  PROVE  Sound(e, q, <<>>, c, out \cup Range(d))
<1>1. d \in Seq(DOMAIN e) /\ <<>> \in Seq(DOMAIN e)
  BY EmptySeq DEF Sound, PlaceTypes
<1>2. DOMAIN <<>> = {} /\ Range(<<>>) = {}
  BY <1>1, EmptySeq DEF Range
<1>3. Range(d) \subseteq DOMAIN e
  BY <1>1, RangeOf
<1>4. PlaceTypes(e, q, <<>>, c, out \cup Range(d))
  BY <1>1, <1>3 DEF Sound, PlaceTypes
<1>5. Apart(q, <<>>, c, out \cup Range(d))
  BY <1>2 DEF Sound, Apart, Once
<1>6. Somewhere(e, q, <<>>, c, out \cup Range(d))
  BY DEF Sound, Somewhere
<1>7. Budget(e, q, <<>>)
  BY <1>2 DEF Sound, Budget
<1> QED
  BY <1>4, <1>5, <1>6, <1>7 DEF Sound

\* A new entry is the last of the entries and of the queue.
LEMMA SentSound ==
  ASSUME NEW e, NEW q, NEW d, NEW c, NEW out, Sound(e, q, d, c, out),
         NEW k \in Keys \cup {NoKey}
  PROVE  Sound(Append(e, [key |-> k, count |-> 0]), Append(q, Len(e) + 1), d, c, out)
<1>n. PICK n \in Nat : n = Len(e) + 1
  BY LenProperties DEF Sound, PlaceTypes
<1>r. PICK r \in EntryRecord : r = [key |-> k, count |-> 0] /\ r.count = 0
  <2>1. 0 \in 0..MaxReceiveCount
    BY DataQueueAssumption DEF DataQueueAssumption
  <2>2. [key |-> k, count |-> 0] \in EntryRecord
    BY <2>1 DEF EntryRecord
  <2> QED
    BY <2>2
<1> DEFINE f == Append(e, r)
           t == Append(q, n)
<1>1. /\ e \in Seq(EntryRecord) /\ q \in Seq(DOMAIN e) /\ d \in Seq(DOMAIN e)
      /\ c \in DOMAIN e \cup {None} /\ out \subseteq DOMAIN e
  BY DEF Sound, PlaceTypes
<1>2. /\ f \in Seq(EntryRecord) /\ DOMAIN f = 1..n /\ f[n] = r
      /\ DOMAIN e = 1..(n - 1)
      /\ \A m \in DOMAIN e : f[m] = e[m]
  BY <1>n, <1>1, Put
<1>3. n \notin DOMAIN e /\ DOMAIN f = DOMAIN e \cup {n} /\ n # None
      /\ \A m \in DOMAIN e : m \in Nat /\ m < n
  BY <1>2 DEF None
<1>4. Range(q) \subseteq DOMAIN e /\ Range(d) \subseteq DOMAIN e
  BY <1>1, RangeOf
<1>5. q \in Seq(DOMAIN f) /\ d \in Seq(DOMAIN f)
  BY <1>1, <1>3, SeqMonotonic
<1>6. /\ t \in Seq(DOMAIN f) /\ DOMAIN t = 1..(Len(q) + 1)
      /\ DOMAIN q = 1..Len(q) /\ Len(q) \in Nat
      /\ \A i \in DOMAIN q : t[i] = q[i]
      /\ t[Len(q) + 1] = n
      /\ Range(t) = Range(q) \cup {n}
      /\ Once(t)
  BY <1>3, <1>4, <1>5, Put DEF Sound, Apart
<1> HIDE DEF f, t
<1>7. PlaceTypes(f, t, d, c, out)
  BY <1>1, <1>2, <1>3, <1>5, <1>6 DEF PlaceTypes
<1>8. Apart(t, d, c, out)
  BY <1>1, <1>3, <1>4, <1>6 DEF Sound, Apart
<1>9. Somewhere(f, t, d, c, out)
  BY <1>3, <1>6 DEF Sound, Somewhere
<1>10. Budget(f, t, d)
  <2>1. Budget(e, q, d)
    BY DEF Sound
  <2> QED
    BY <1>r, <1>2, <1>4, <1>6, <2>1, DataQueueAssumption DEF Budget, DataQueueAssumption
<1>11. Unseen(f, t)
  <2>1. Unseen(e, q)
    BY DEF Sound
  <2>2. \A m \in DOMAIN f : f[m].count = 0 => m \in Range(t)
    BY <1>2, <1>3, <1>6, <2>1 DEF Unseen
  <2>3. ASSUME NEW i \in DOMAIN t, NEW j \in DOMAIN t,
               i < j, f[t[i]].count = 0, f[t[j]].count = 0
        PROVE  t[i] < t[j]
    <3>1. i \in DOMAIN q /\ q[i] \in DOMAIN e
      BY <1>1, <1>6, <2>3, RangeOf
    <3>2. CASE j \in DOMAIN q
      <4>1. q[j] \in DOMAIN e
        BY <1>1, <3>2, RangeOf
      <4> QED
        BY <1>2, <1>6, <2>1, <2>3, <3>1, <3>2, <4>1 DEF Unseen
    <3>3. CASE j = Len(q) + 1
      BY <1>3, <1>6, <3>1, <3>3
    <3> QED
      BY <1>6, <3>2, <3>3
  <2>4. ASSUME NEW m \in DOMAIN f, NEW x \in DOMAIN f, m < x, f[x].count > 0
        PROVE  f[m].count > 0
    <3>1. x \in DOMAIN e
      BY <1>r, <1>2, <1>3, <2>4
    <3>2. m \in DOMAIN e
      BY <1>2, <2>4, <3>1
    <3> QED
      BY <1>2, <2>1, <2>4, <3>1, <3>2 DEF Unseen
  <2> QED
    BY <2>2, <2>3, <2>4 DEF Unseen
<1> QED
  BY <1>n, <1>r, <1>7, <1>8, <1>9, <1>10, <1>11 DEF Sound, f, t

\* The steps of the specification.

\* The loop goes on, with nothing in flight.
LEMMA DispatchSound ==
  ASSUME NEW e, NEW q, NEW d, NEW out, Sound(e, q, d, None, out),
         NEW cs \in Seq(Handlers), Dispatch(e, q, cs)
  PROVE  /\ Sound(entry', queue', d, current', out)
         /\ pos' \in 0..Len(cs)
         /\ queue' # <<>> /\ cs # <<>> => current' # None
<1>1. Len(cs) \in Nat /\ (cs # <<>> => Len(cs) > 0)
  BY EmptySeq, LenProperties
<1>2. CASE q # <<>> /\ cs # <<>>
  <2>1. entry' = Counted(e, Head(q)) /\ queue' = Tail(q) /\ current' = Head(q) /\ pos' = 1
    BY <1>2 DEF Dispatch
  <2>2. Sound(entry', queue', d, current', out)
    BY <1>2, <2>1, TakenSound
  <2>3. current' # None
    BY <1>2, <2>1, TakenEntry
  <2> QED
    BY <1>1, <1>2, <2>1, <2>2, <2>3
<1>3. CASE ~(q # <<>> /\ cs # <<>>)
  BY <1>1, <1>3 DEF Dispatch
<1> QED
  BY <1>2, <1>3

\* dispatch() is called: it does nothing while a loop is in progress.
LEMMA CallDispatchSound ==
  ASSUME NEW e, NEW q, NEW d, NEW out, Sound(e, q, d, current, out),
         NEW cs \in Seq(Handlers), pos \in 0..Len(cs), CallDispatch(e, q, cs)
  PROVE  /\ Sound(entry', queue', d, current', out)
         /\ pos' \in 0..Len(cs)
         /\ queue' # <<>> /\ cs # <<>> => current' # None
<1>1. CASE current = None
  <2>1. Dispatch(e, q, cs)
    BY <1>1 DEF CallDispatch
  <2> QED
    BY <1>1, <2>1, DispatchSound
<1>2. CASE current # None
  BY <1>2 DEF CallDispatch
<1> QED
  BY <1>1, <1>2

LEMMA InitIInv == Init => IInv
<1> SUFFICES ASSUME Init PROVE IInv
  OBVIOUS
<1>1. /\ entry \in Seq(EntryRecord) /\ queue \in Seq(DOMAIN entry) /\ dlq \in Seq(DOMAIN entry)
      /\ DOMAIN entry = {} /\ DOMAIN queue = {} /\ DOMAIN dlq = {}
      /\ consumers \in Seq(Handlers) /\ Len(consumers) = 0
  BY EmptySeq DEF Init
<1>2. Range(queue) = {} /\ Range(dlq) = {}
  BY <1>1 DEF Range
<1>3. done \cup thrown = {} /\ current = None /\ pos = 0 /\ dedupIndex = {}
  BY DEF Init
<1>4. Sound(entry, queue, dlq, current, done \cup thrown)
  BY <1>1, <1>2, <1>3 DEF Sound, PlaceTypes, Apart, Once, Somewhere, Budget, Unseen
<1>5. ConsumersAreFed
  BY DEF Init, ConsumersAreFed
<1> QED
  BY <1>1, <1>3, <1>4, <1>5 DEF IInv

LEMMA SendIInv ==
  ASSUME IInv, NEW k \in Keys \cup {NoKey}, Send(k)
  PROVE  IInv'
<1> DEFINE e == Append(entry, [key |-> k, count |-> 0])
           q == Append(queue, Len(entry) + 1)
<1>1. Sound(e, q, dlq, current, done \cup thrown)
  BY SentSound DEF IInv
<1>2. /\ CallDispatch(e, q, consumers) /\ dlq' = dlq /\ consumers' = consumers
      /\ done' = done /\ thrown' = thrown
      /\ dedupIndex' = dedupIndex \cup ({k} \ {NoKey})
  BY DEF Send, Enqueued
<1>3. consumers \in Seq(Handlers) /\ pos \in 0..Len(consumers)
  BY DEF IInv
<1> HIDE DEF e, q
<1>4. /\ Sound(entry', queue', dlq, current', done \cup thrown)
      /\ pos' \in 0..Len(consumers)
      /\ queue' # <<>> /\ consumers # <<>> => current' # None
  BY <1>1, <1>2, <1>3, CallDispatchSound
<1> QED
  BY <1>2, <1>3, <1>4 DEF IInv, ConsumersAreFed

LEMMA ReceiveIInv ==
  ASSUME IInv, Receive
  PROVE  IInv'
<1> DEFINE out == (done \cup thrown) \cup {Head(queue)}
<1>1. Sound(Counted(entry, Head(queue)), Tail(queue), dlq, current, out)
  BY TakenSound DEF IInv, Receive
<1>2. Sound(entry', queue', dlq', current', out)
  BY <1>1 DEF Receive
<1>3. done' \cup thrown' = out
  BY DEF Receive
<1>4. consumers' = consumers /\ pos' = pos /\ dedupIndex' = dedupIndex
      /\ current' = current /\ thrown' = thrown /\ queue # <<>>
  BY DEF Receive
<1> HIDE DEF out
<1> QED
  BY <1>2, <1>3, <1>4 DEF IInv, ConsumersAreFed

LEMMA ConsumeIInv ==
  ASSUME IInv, NEW h \in Handlers, Consume(h)
  PROVE  IInv'
<1>1. consumers \in Seq(Handlers) /\ pos \in 0..Len(consumers)
  BY DEF IInv
<1>2. consumers' \in Seq(Handlers) /\ Len(consumers') \in Nat /\ Len(consumers) <= Len(consumers')
  BY <1>1, AppendProperties, LenProperties DEF Consume
<1>3. pos \in 0..Len(consumers')
  BY <1>1, <1>2, LenProperties
<1>4. /\ Sound(entry', queue', dlq, current', done \cup thrown)
      /\ pos' \in 0..Len(consumers')
      /\ queue' # <<>> /\ consumers' # <<>> => current' # None
  BY <1>2, <1>3, CallDispatchSound DEF Consume, IInv
<1>5. dlq' = dlq /\ done' = done /\ thrown' = thrown /\ dedupIndex' = dedupIndex
  BY DEF Consume
<1> QED
  BY <1>2, <1>4, <1>5 DEF IInv, ConsumersAreFed

LEMMA UnsubscribeIInv ==
  ASSUME IInv, NEW h \in Handlers, Unsubscribe(h)
  PROVE  IInv'
<1>1. PICK i \in DOMAIN consumers :
        consumers' = RemoveAt(consumers, i) /\ pos' = PosAfterRemoval(i)
  BY DEF Unsubscribe
<1>2. UNCHANGED <<entry, queue, dlq, dedupIndex, current, done, thrown>>
  BY DEF Unsubscribe
<1>3. /\ consumers \in Seq(Handlers) /\ pos \in 0..Len(consumers)
      /\ Len(consumers) \in Nat /\ i \in 1..Len(consumers) /\ consumers # <<>>
  BY EmptySeq, LenProperties DEF IInv
<1> DEFINE a == SubSeq(consumers, 1, i - 1)
           b == SubSeq(consumers, i + 1, Len(consumers))
<1>4. \A j \in 1..Len(consumers) : consumers[j] \in Handlers
  BY <1>3, ElementOfSeq
<1>5. a \in Seq(Handlers) /\ Len(a) = i - 1
  <2>1. \A j \in 1..(i - 1) : consumers[j] \in Handlers
    BY <1>3, <1>4
  <2>2. 1 \in Int /\ i - 1 \in Int
    BY <1>3
  <2>3. /\ a \in Seq(Handlers)
        /\ Len(a) = IF 1 <= i - 1 THEN (i - 1) - 1 + 1 ELSE 0
    BY <2>1, <2>2, SubSeqProperties
  <2> QED
    BY <1>3, <2>3
<1>6. b \in Seq(Handlers) /\ Len(b) = Len(consumers) - i
  <2>1. \A j \in (i + 1)..Len(consumers) : consumers[j] \in Handlers
    BY <1>3, <1>4
  <2>2. i + 1 \in Int /\ Len(consumers) \in Int
    BY <1>3
  <2>3. /\ b \in Seq(Handlers)
        /\ Len(b) = IF i + 1 <= Len(consumers) THEN Len(consumers) - (i + 1) + 1 ELSE 0
    BY <2>1, <2>2, SubSeqProperties
  <2> QED
    BY <1>3, <2>3
<1>7. consumers' = a \o b
  BY <1>1 DEF RemoveAt
<1> HIDE DEF a, b
<1>8. consumers' \in Seq(Handlers) /\ Len(consumers') = Len(consumers) - 1
  BY <1>3, <1>5, <1>6, <1>7, ConcatProperties
<1>9. pos' \in 0..Len(consumers')
  BY <1>1, <1>3, <1>8 DEF PosAfterRemoval
<1>10. ConsumersAreFed'
  BY <1>2, <1>3 DEF IInv, ConsumersAreFed
<1> QED
  BY <1>2, <1>8, <1>9, <1>10 DEF IInv

LEMMA NextHandlerIInv ==
  ASSUME IInv, NextHandler
  PROVE  IInv'
<1>1. pos' \in 0..Len(consumers)
  BY LenProperties DEF IInv, NextHandler
<1>2. UNCHANGED <<entry, queue, dlq, dedupIndex, consumers, current, done, thrown>>
  BY DEF NextHandler
<1> QED
  BY <1>1, <1>2 DEF IInv, ConsumersAreFed

LEMMA AckedIInv ==
  ASSUME IInv, Acked
  PROVE  IInv'
<1>1. Sound(entry, queue, dlq, None, (done \cup thrown) \cup {current})
  BY OutSound DEF IInv, Acked
<1>2. Dispatch(entry, queue, consumers) /\ dlq' = dlq /\ consumers' = consumers
      /\ dedupIndex' \subseteq dedupIndex
      /\ done' \cup thrown' = (done \cup thrown) \cup {current}
  BY DEF Acked, KeyFreed
<1>3. consumers \in Seq(Handlers)
  BY DEF IInv
<1>4. /\ Sound(entry', queue', dlq, current', (done \cup thrown) \cup {current})
      /\ pos' \in 0..Len(consumers)
      /\ queue' # <<>> /\ consumers # <<>> => current' # None
  BY <1>1, <1>2, <1>3, DispatchSound
<1> QED
  BY <1>2, <1>3, <1>4 DEF IInv, ConsumersAreFed

LEMMA NotAckedIInv ==
  ASSUME IInv, NotAcked
  PROVE  IInv'
<1>1. /\ Sound(entry, queue, dlq, current, done \cup thrown) /\ current # None
      /\ entry[current].count \in Nat
  BY InFlight DEF IInv, NotAcked
<1>2. /\ consumers' = consumers /\ done' = done /\ thrown' = thrown
      /\ dedupIndex' \subseteq dedupIndex /\ consumers \in Seq(Handlers)
  BY DEF IInv, NotAcked, KeyFreed
<1>3. /\ Sound(entry', queue', dlq', current', done \cup thrown)
      /\ pos' \in 0..Len(consumers)
      /\ queue' # <<>> /\ consumers # <<>> => current' # None
  <2>1. CASE Exhausted
    <3>1. ~(entry[current].count < MaxReceiveCount)
      BY <1>1, <2>1, DataQueueAssumption DEF Exhausted, DataQueueAssumption
    <3>2. Sound(entry, queue, Append(dlq, current), None, done \cup thrown)
      BY <1>1, <3>1, DeadSound
    <3>3. dlq' = Append(dlq, current) /\ Dispatch(entry, queue, consumers)
      BY <2>1 DEF NotAcked
    <3> QED
      BY <1>2, <3>2, <3>3, DispatchSound
  <2>2. CASE ~Exhausted
    <3>1. entry[current].count < MaxReceiveCount
      BY <1>1, <2>2, DataQueueAssumption DEF Exhausted, DataQueueAssumption
    <3>2. Sound(entry, Append(queue, current), dlq, None, done \cup thrown)
      BY <1>1, <3>1, RetriedSound
    <3>3. dlq' = dlq /\ Dispatch(entry, Append(queue, current), consumers)
      BY <2>2 DEF NotAcked, Retried
    <3> QED
      BY <1>2, <3>2, <3>3, DispatchSound
  <2> QED
    BY <2>1, <2>2
<1> QED
  BY <1>2, <1>3 DEF IInv, ConsumersAreFed

LEMMA HandlerThrowsIInv ==
  ASSUME IInv, HandlerThrows
  PROVE  IInv'
<1>1. Sound(entry, queue, dlq, None, (done \cup thrown) \cup {current})
  BY OutSound DEF IInv, HandlerThrows
<1>2. done' \cup thrown' = (done \cup thrown) \cup {current} /\ thrown' # {}
  BY DEF HandlerThrows
<1>3. /\ UNCHANGED <<entry, queue, dlq, dedupIndex, consumers>>
      /\ current' = None /\ pos' = 0
  BY DEF HandlerThrows
<1>4. pos' \in 0..Len(consumers)
  BY <1>3, LenProperties DEF IInv
<1> QED
  BY <1>1, <1>2, <1>3, <1>4 DEF IInv, ConsumersAreFed

LEMMA DrainDlqIInv ==
  ASSUME IInv, DrainDlq
  PROVE  IInv'
<1>1. Sound(entry, queue, <<>>, current, (done \cup thrown) \cup Range(dlq))
  BY DrainedSound DEF IInv
<1>2. done' \cup thrown' = (done \cup thrown) \cup Range(dlq)
  BY DEF DrainDlq
<1>3. UNCHANGED <<entry, queue, dedupIndex, consumers, current, pos, thrown>> /\ dlq' = <<>>
  BY DEF DrainDlq
<1> QED
  BY <1>1, <1>2, <1>3 DEF IInv, ConsumersAreFed

LEMMA NextIInv == IInv /\ [Next]_vars => IInv'
<1> SUFFICES ASSUME IInv, [Next]_vars PROVE IInv'
  OBVIOUS
<1>1. ASSUME NEW k \in Keys \cup {NoKey}, Send(k) PROVE IInv'
  BY <1>1, SendIInv
<1>2. CASE Receive
  BY <1>2, ReceiveIInv
<1>3. ASSUME NEW h \in Handlers, Consume(h) \/ Unsubscribe(h) PROVE IInv'
  BY <1>3, ConsumeIInv, UnsubscribeIInv
<1>4. CASE HandlerSettles
  BY <1>4, NextHandlerIInv, AckedIInv, NotAckedIInv, HandlerThrowsIInv DEF HandlerSettles
<1>5. CASE DrainDlq
  BY <1>5, DrainDlqIInv
<1>6. CASE UNCHANGED vars
  BY <1>6 DEF vars, IInv, ConsumersAreFed
<1> QED
  BY <1>1, <1>2, <1>3, <1>4, <1>5, <1>6 DEF Next

-----------------------------------------------------------------------------
\* The invariant holds in every reachable state, and with it what the runs check.
THEOREM SpecIInv == Spec => []IInv
BY InitIInv, NextIInv, PTL DEF Spec

\* Types: what waits, is dead, in flight or gone is an entry that was sent.
THEOREM SpecTypeOK == Spec => []TypeOK
<1>1. IInv => TypeOK
  BY DEF IInv, Sound, PlaceTypes, TypeOK, EntryRecord, Entries
<1> QED
  BY <1>1, SpecIInv, PTL

\* However retries, pollers and drains interleave, an entry is in one place at most.
THEOREM SpecOnePlace == Spec => []OnePlace
<1>1. IInv => OnePlace
  <2> SUFFICES ASSUME IInv PROVE OnePlace
    OBVIOUS
  <2> DEFINE head == IF current = None THEN <<>> ELSE <<current>>
             front == head \o queue
             inside == front \o dlq
  <2>1. /\ queue \in Seq(Entries) /\ dlq \in Seq(Entries)
        /\ current \in Entries \cup {None}
        /\ Apart(queue, dlq, current, done \cup thrown)
    BY DEF IInv, Sound, PlaceTypes, Entries
  <2>2. /\ head \in Seq(Entries) /\ Once(head)
        /\ Range(head) = IF current = None THEN {} ELSE {current}
    <3>1. CASE current = None
      <4>1. head = <<>> /\ <<>> \in Seq(Entries) /\ DOMAIN <<>> = {}
        BY <3>1, EmptySeq
      <4> QED
        BY <3>1, <4>1 DEF Once, Range
    <3>2. CASE current # None
      <4>1. head = <<current>> /\ current \in Entries
        BY <2>1, <3>2
      <4>2. <<current>> \in Seq(Entries) /\ DOMAIN <<current>> = {1} /\ <<current>>[1] = current
        BY <4>1
      <4> QED
        BY <3>2, <4>1, <4>2 DEF Once, Range
    <3> QED
      BY <3>1, <3>2
  <2> HIDE DEF head
  <2>3. ASSUME NEW s \in Seq(Entries), NEW t \in Seq(Entries), Once(s), Once(t),
               Range(s) \cap Range(t) = {}
        PROVE  s \o t \in Seq(Entries) /\ Once(s \o t) /\ Range(s \o t) = Range(s) \cup Range(t)
    <3>1. /\ s \o t \in Seq(Entries) /\ Len(s \o t) = Len(s) + Len(t)
          /\ \A i \in 1..(Len(s) + Len(t)) :
               (s \o t)[i] = IF i <= Len(s) THEN s[i] ELSE t[i - Len(s)]
      BY ConcatProperties
    <3>2. /\ DOMAIN s = 1..Len(s) /\ DOMAIN t = 1..Len(t)
          /\ Len(s) \in Nat /\ Len(t) \in Nat
          /\ DOMAIN (s \o t) = 1..(Len(s) + Len(t))
      BY <3>1, LenProperties
    <3>3. ASSUME NEW i \in DOMAIN (s \o t)
          PROVE  \/ i <= Len(s) /\ i \in DOMAIN s /\ (s \o t)[i] = s[i]
                 \/ i > Len(s) /\ i - Len(s) \in DOMAIN t /\ (s \o t)[i] = t[i - Len(s)]
      BY <3>1, <3>2
    <3>4. /\ \A i \in DOMAIN s : s[i] \in Range(s)
          /\ \A i \in DOMAIN t : t[i] \in Range(t)
      BY DEF Range
    <3>5. Once(s \o t)
      <4>1. SUFFICES ASSUME NEW i \in DOMAIN (s \o t), NEW j \in DOMAIN (s \o t),
                            (s \o t)[i] = (s \o t)[j]
                     PROVE  i = j
        BY DEF Once
      <4>2. CASE i <= Len(s) /\ j <= Len(s)
        BY <2>3, <3>2, <3>3, <4>1, <4>2 DEF Once
      <4>3. CASE i > Len(s) /\ j > Len(s)
        <5>1. i - Len(s) = j - Len(s)
          BY <2>3, <3>2, <3>3, <4>1, <4>3 DEF Once
        <5> QED
          BY <3>2, <5>1
      <4>4. CASE ~(i <= Len(s) /\ j <= Len(s)) /\ ~(i > Len(s) /\ j > Len(s))
        BY <2>3, <3>2, <3>3, <3>4, <4>1, <4>4
      <4> QED
        BY <4>2, <4>3, <4>4
    <3>6. Range(s \o t) \subseteq Range(s) \cup Range(t)
      BY <3>3, <3>4 DEF Range
    <3>7. ASSUME NEW x \in Range(s) \cup Range(t) PROVE x \in Range(s \o t)
      <4>1. CASE x \in Range(s)
        <5>1. PICK i \in DOMAIN s : s[i] = x
          BY <4>1 DEF Range
        <5>2. i \in DOMAIN (s \o t) /\ (s \o t)[i] = x
          BY <3>1, <3>2, <5>1
        <5> QED
          BY <5>2 DEF Range
      <4>2. CASE x \in Range(t)
        <5>1. PICK i \in DOMAIN t : t[i] = x
          BY <4>2 DEF Range
        <5>2. i + Len(s) \in DOMAIN (s \o t) /\ (s \o t)[i + Len(s)] = x
          BY <3>1, <3>2, <5>1
        <5> QED
          BY <5>2 DEF Range
      <4> QED
        BY <3>7, <4>1, <4>2
    <3> QED
      BY <3>1, <3>5, <3>6, <3>7
  <2>4. front \in Seq(Entries) /\ Once(front) /\ Range(front) = Range(head) \cup Range(queue)
    <3>1. Once(queue) /\ Range(head) \cap Range(queue) = {}
      BY <2>1, <2>2 DEF Apart
    <3> QED
      BY <2>1, <2>2, <2>3, <3>1
  <2>5. Once(inside) /\ Range(inside) = Range(front) \cup Range(dlq)
    <3>1. Once(dlq) /\ Range(front) \cap Range(dlq) = {}
      BY <2>1, <2>2, <2>4 DEF Apart
    <3> HIDE DEF front
    <3> QED
      BY <2>1, <2>3, <2>4, <3>1
  <2>6. Range(inside) \cap (done \cup thrown) = {}
    BY <2>1, <2>2, <2>4, <2>5 DEF Apart
  <2> QED
    BY <2>5, <2>6 DEF OnePlace, Once, head
<1> QED
  BY <1>1, SpecIInv, PTL

\* An entry disappears only when a handler throws while it is in flight.
THEOREM SpecLostOnlyByThrow == Spec => []LostOnlyByThrow
<1>1. IInv => LostOnlyByThrow
  BY DEF IInv, Sound, Somewhere, LostOnlyByThrow, Entries
<1> QED
  BY <1>1, SpecIInv, PTL

\* The retry budget is exact for any maxReceiveCount.
THEOREM SpecBudgetIsExact == Spec => []BudgetIsExact
<1>1. IInv => BudgetIsExact
  BY DEF IInv, Sound, Budget, BudgetIsExact
<1> QED
  BY <1>1, SpecIInv, PTL

\* First deliveries are in the order of the sends.
THEOREM SpecFirstDeliveryInOrder == Spec => []FirstDeliveryInOrder
<1>1. IInv => FirstDeliveryInOrder
  BY DEF IInv, Sound, Unseen, FirstDeliveryInOrder, Entries
<1> QED
  BY <1>1, SpecIInv, PTL

\* The loop never sleeps next to an entry and a consumer, unless one has thrown.
THEOREM SpecConsumersAreFed == Spec => []ConsumersAreFed
<1>1. IInv => ConsumersAreFed
  BY DEF IInv
<1> QED
  BY <1>1, SpecIInv, PTL

-----------------------------------------------------------------------------
\* When sends collapse.  The entries that send() would have to look through are
\* those that wait and the one in flight, which may come back to the queue.

Alive == Range(queue) \cup ({current} \ {None})

\* No two of them have one key, and the index has the keys of all of them.
KeysApart ==
  /\ \A m, n \in Alive : entry[m].key = entry[n].key /\ entry[m].key # NoKey => m = n
  /\ \A m \in Alive : entry[m].key \in dedupIndex \cup {NoKey}

\* A test sends no key while an entry of that key is being handled.
NoSendInFlight ==
  [][\A k \in Keys : Send(k) /\ current # None => entry[current].key # k]_vars

\* Of the entries, a step of the loop changes only counts, and it brings none
\* to life.
LEMMA DispatchKeys ==
  ASSUME NEW e \in Seq(EntryRecord), NEW q \in Seq(DOMAIN e), NEW cs, Dispatch(e, q, cs)
  PROVE  /\ Alive' \subseteq Range(q)
         /\ \A m \in DOMAIN e : entry'[m].key = e[m].key
<1>1. CASE q # <<>> /\ cs # <<>>
  <2>1. entry' = Counted(e, Head(q)) /\ queue' = Tail(q) /\ current' = Head(q)
    BY <1>1 DEF Dispatch
  <2>2. Range(q) = Range(Tail(q)) \cup {Head(q)}
    BY <1>1, Taken
  <2>3. Alive' \subseteq Range(q)
    BY <2>1, <2>2 DEF Alive
  <2>4. \A m \in DOMAIN e : entry'[m].key = e[m].key
    BY <2>1 DEF Counted
  <2> QED
    BY <2>3, <2>4
<1>2. CASE ~(q # <<>> /\ cs # <<>>)
  BY <1>2 DEF Dispatch, Alive
<1> QED
  BY <1>1, <1>2

\* So does a call of dispatch().
LEMMA CallDispatchKeys ==
  ASSUME NEW e \in Seq(EntryRecord), NEW q \in Seq(DOMAIN e), NEW cs, CallDispatch(e, q, cs)
  PROVE  /\ Alive' \subseteq Range(q) \cup ({current} \ {None})
         /\ \A m \in DOMAIN e : entry'[m].key = e[m].key
<1>1. CASE current = None
  BY <1>1, DispatchKeys DEF CallDispatch
<1>2. CASE current # None
  BY <1>2 DEF CallDispatch, Alive
<1> QED
  BY <1>1, <1>2

\* KeysApart is kept by a step that brings no entry to life and takes from the
\* index no key but that of an entry that leaves.
LEMMA KeysStayApart ==
  ASSUME KeysApart, Alive' \subseteq Alive,
         \A m \in Alive : entry'[m].key = entry[m].key,
         \A m \in Alive' : entry[m].key \in dedupIndex => entry[m].key \in dedupIndex'
  PROVE  KeysApart'
BY DEF KeysApart

LEMMA SendKeysApart ==
  ASSUME IInv, KeysApart, NEW k \in Keys \cup {NoKey}, Send(k),
         k \in Keys /\ current # None => entry[current].key # k
  PROVE  KeysApart'
<1>1. /\ entry \in Seq(EntryRecord) /\ queue \in Seq(DOMAIN entry)
      /\ current \in DOMAIN entry \cup {None}
      /\ dedupIndex' = dedupIndex \cup ({k} \ {NoKey})
      /\ ~Collapses(k)
  BY DEF IInv, Sound, PlaceTypes, Send
<1>n. PICK n : n = Len(entry) + 1
  OBVIOUS
<1>r. PICK r \in EntryRecord : r = [key |-> k, count |-> 0] /\ r.key = k
  <2>1. 0 \in 0..MaxReceiveCount
    BY DataQueueAssumption DEF DataQueueAssumption
  <2>2. [key |-> k, count |-> 0] \in EntryRecord
    BY <2>1 DEF EntryRecord
  <2> QED
    BY <2>2
<1>e. PICK e : e = Append(entry, r)
  OBVIOUS
<1>q. PICK q : q = Append(queue, n)
  OBVIOUS
<1>2. /\ e \in Seq(EntryRecord) /\ DOMAIN e = 1..n /\ e[n] = r
      /\ DOMAIN entry = 1..Len(entry) /\ Len(entry) \in Nat
      /\ \A m \in DOMAIN entry : e[m] = entry[m]
  BY <1>1, <1>n, <1>e, Put
<1>3. DOMAIN entry \subseteq DOMAIN e /\ n \in DOMAIN e /\ n \notin DOMAIN entry
  BY <1>2, <1>n
<1>4. queue \in Seq(DOMAIN e)
  BY <1>1, <1>3, SeqMonotonic
<1>5. q \in Seq(DOMAIN e) /\ Range(q) = Range(queue) \cup {n}
  BY <1>3, <1>4, <1>q, Put
<1>6. CallDispatch(e, q, consumers)
  BY <1>n, <1>r, <1>e, <1>q DEF Send, Enqueued
<1>7. /\ Alive' \subseteq Alive \cup {n}
      /\ \A m \in DOMAIN e : entry'[m].key = e[m].key
  BY <1>2, <1>5, <1>6, CallDispatchKeys DEF Alive
<1>8. Alive \subseteq DOMAIN entry
  BY <1>1, RangeOf DEF Alive
<1>9. /\ \A m \in Alive : entry'[m].key = entry[m].key
      /\ entry'[n].key = k
  BY <1>2, <1>3, <1>7, <1>8, <1>r
<1>10. ASSUME NEW m \in Alive, entry[m].key = k PROVE k = NoKey
  <2> SUFFICES ASSUME k # NoKey PROVE FALSE
    OBVIOUS
  <2>1. k \in dedupIndex
    BY <1>10 DEF KeysApart
  <2>2. m \in Range(queue)
    BY <1>10 DEF Alive
  <2>3. PICK i \in DOMAIN queue : queue[i] = m
    BY <2>2, <1>1, RangeOf
  <2> QED
    BY <2>1, <2>3, <1>1, <1>10 DEF Collapses
<1>11. ASSUME NEW m \in Alive', NEW p \in Alive',
              entry'[m].key = entry'[p].key, entry'[m].key # NoKey
       PROVE  m = p
  <2>1. CASE m # n /\ p # n
    BY <2>1, <1>7, <1>9, <1>11 DEF KeysApart
  <2>2. CASE m = n /\ p # n
    BY <2>2, <1>7, <1>9, <1>10, <1>11
  <2>3. CASE m # n /\ p = n
    BY <2>3, <1>7, <1>9, <1>10, <1>11
  <2> QED
    BY <2>1, <2>2, <2>3
<1>12. ASSUME NEW m \in Alive' PROVE entry'[m].key \in dedupIndex' \cup {NoKey}
  BY <1>1, <1>7, <1>9, <1>12 DEF KeysApart
<1> QED
  BY <1>11, <1>12 DEF KeysApart

\* The entry in flight is acked or dead: its key is its own.
LEMMA FreedKeysApart ==
  ASSUME IInv, KeysApart, current # None,
         dedupIndex' = KeyFreed, Dispatch(entry, queue, consumers)
  PROVE  KeysApart'
<1>1. /\ entry \in Seq(EntryRecord) /\ queue \in Seq(DOMAIN entry)
      /\ current \notin Range(queue)
  BY DEF IInv, Sound, PlaceTypes, Apart
<1>2. /\ Alive' \subseteq Range(queue)
      /\ \A m \in DOMAIN entry : entry'[m].key = entry[m].key
  BY <1>1, DispatchKeys
<1>3. Range(queue) \subseteq DOMAIN entry
  BY <1>1, RangeOf
<1>4. Range(queue) \subseteq Alive /\ current \in Alive
  BY DEF Alive
<1>5. ASSUME NEW m \in Range(queue)
      PROVE  entry[m].key \in dedupIndex' \cup {NoKey}
  BY <1>1, <1>4, <1>5 DEF KeysApart, KeyFreed
<1> QED
  BY <1>2, <1>3, <1>4, <1>5 DEF KeysApart

LEMMA NextKeysApart ==
  ASSUME IInv, KeysApart, [Next]_vars,
         [\A k \in Keys : Send(k) /\ current # None => entry[current].key # k]_vars
  PROVE  KeysApart'
<1>1. /\ entry \in Seq(EntryRecord) /\ queue \in Seq(DOMAIN entry)
      /\ current \in DOMAIN entry \cup {None}
      /\ Alive \subseteq DOMAIN entry
  BY RangeOf DEF IInv, Sound, PlaceTypes, Alive
<1>2. ASSUME NEW k \in Keys \cup {NoKey}, Send(k) PROVE KeysApart'
  <2>1. CASE UNCHANGED vars
    BY <2>1 DEF KeysApart, Alive, vars
  <2>2. CASE ~UNCHANGED vars
    BY <1>2, <2>2, SendKeysApart
  <2> QED
    BY <2>1, <2>2
<1>3. CASE Receive
  <2>1. /\ queue # <<>> /\ entry' = Counted(entry, Head(queue)) /\ queue' = Tail(queue)
        /\ UNCHANGED <<dedupIndex, current>>
    BY <1>3 DEF Receive
  <2>2. Range(queue) = Range(Tail(queue)) \cup {Head(queue)}
    BY <1>1, <2>1, Taken
  <2>3. \A m \in DOMAIN entry : entry'[m].key = entry[m].key
    BY <2>1 DEF Counted
  <2> QED
    BY <1>1, <2>1, <2>2, <2>3, KeysStayApart DEF Alive
<1>4. ASSUME NEW h \in Handlers, Consume(h) PROVE KeysApart'
  <2>1. CallDispatch(entry, queue, consumers') /\ dedupIndex' = dedupIndex
    BY <1>4 DEF Consume
  <2>2. /\ Alive' \subseteq Alive
        /\ \A m \in DOMAIN entry : entry'[m].key = entry[m].key
    <3>1. PICK cs : cs = consumers'
      OBVIOUS
    <3> QED
      BY <1>1, <2>1, <3>1, CallDispatchKeys DEF Alive
  <2> QED
    BY <1>1, <2>1, <2>2, KeysStayApart
<1>5. CASE Acked
  BY <1>5, FreedKeysApart DEF Acked
<1>6. CASE NotAcked
  <2>1. CASE Exhausted
    BY <1>6, <2>1, FreedKeysApart DEF NotAcked
  <2>2. CASE ~Exhausted
    <3>1. /\ current # None
          /\ Dispatch(entry, Append(queue, current), consumers)
          /\ dedupIndex' = dedupIndex
      BY <1>6, <2>2 DEF NotAcked, Retried
    <3>2. /\ Append(queue, current) \in Seq(DOMAIN entry)
          /\ Range(Append(queue, current)) = Alive
      BY <1>1, <3>1, Put DEF Alive
    <3>3. /\ Alive' \subseteq Alive
          /\ \A m \in DOMAIN entry : entry'[m].key = entry[m].key
      BY <1>1, <3>1, <3>2, DispatchKeys
    <3> QED
      BY <1>1, <3>1, <3>3, KeysStayApart
  <2> QED
    BY <2>1, <2>2
<1>7. CASE HandlerThrows
  <2>1. current' = None /\ UNCHANGED <<entry, queue, dedupIndex>>
    BY <1>7 DEF HandlerThrows
  <2> QED
    BY <2>1, KeysStayApart DEF Alive
<1>8. CASE \/ NextHandler \/ DrainDlq \/ UNCHANGED vars
           \/ \E h \in Handlers : Unsubscribe(h)
  <2>1. UNCHANGED <<entry, queue, dedupIndex, current>>
    BY <1>8 DEF NextHandler, DrainDlq, Unsubscribe, vars
  <2> QED
    BY <2>1 DEF KeysApart, Alive
<1> QED
  BY <1>2, <1>3, <1>4, <1>5, <1>6, <1>7, <1>8 DEF Next, HandlerSettles

\* The comment at expectations.ts:8 holds as long as nobody sends a key while
\* an entry of that key is being handled.
THEOREM SendsCollapseOutOfFlight == Spec /\ NoSendInFlight => []SendsCollapse
<1>1. Init => KeysApart
  <2> SUFFICES ASSUME Init PROVE KeysApart
    OBVIOUS
  <2>1. DOMAIN queue = {} /\ current = None
    BY EmptySeq DEF Init
  <2>2. Range(queue) = {}
    BY <2>1 DEF Range
  <2> QED
    BY <2>1, <2>2 DEF KeysApart, Alive
<1>2. KeysApart => SendsCollapse
  BY DEF KeysApart, SendsCollapse, Alive
<1> QED
  BY <1>1, <1>2, SpecIInv, NextKeysApart, PTL DEF Spec, NoSendInFlight

\* In particular it holds of a queue that is only polled: no entry is ever in
\* flight.
Polled == consumers = <<>>
NothingInFlight == current = None

THEOREM SendsCollapseWhenPolled == Spec /\ []Polled => []SendsCollapse
<1>1. Init => NothingInFlight
  BY DEF Init, NothingInFlight
<1>2. NothingInFlight /\ Polled /\ Polled' /\ [Next]_vars => NothingInFlight'
  BY DEF NothingInFlight, Polled, Next, vars, Send, CallDispatch, Dispatch, Receive,
         Consume, Unsubscribe, HandlerSettles, NextHandler, Acked, NotAcked,
         HandlerThrows, DrainDlq
<1>3. NothingInFlight
        => [\A k \in Keys : Send(k) /\ current # None => entry[current].key # k]_vars
  BY DEF NothingInFlight
<1> QED
  BY <1>1, <1>2, <1>3, SendsCollapseOutOfFlight, PTL DEF Spec, NoSendInFlight

-----------------------------------------------------------------------------
\* The data queue implements a queue with acknowledgements.

PlaceIn(q, d, c, n) ==
  IF n \in Range(q) THEN "waits" ELSE IF n = c THEN "held" ELSE IF n \in Range(d) THEN "dead" ELSE "gone"

LetterOf(e, q, d, c, n) ==
  [queue |-> "queue", place |-> PlaceIn(q, d, c, n), given |-> e[n].count]

\* A letter that waits may be given.
MayBeGiven(a, b) ==
  \/ b = a
  \/ a.place = "waits" /\ b.place = "held" /\ b.given = a.given + 1 /\ b.queue = a.queue

\* A letter that is held may leave its holder.
MayLeave(a, b) ==
  \/ b = a
  \/ a.place = "held" /\ b.place \in {"waits", "dead", "gone"} /\ b.given = a.given /\ b.queue = a.queue

LEMMA LeavesAndIsGiven ==
  ASSUME NEW a, NEW b, NEW c, MayLeave(a, b), MayBeGiven(b, c)
  PROVE  Deliveries!Becomes(a, c)
BY DEF MayLeave, MayBeGiven, Deliveries!Becomes, Deliveries!Stays, Deliveries!IsGiven,
       Deliveries!Leaves, Deliveries!Returns

\* The loop goes on: it gives the head of the queue, or nothing.
LEMMA DispatchGives ==
  ASSUME NEW e, NEW q, NEW d, NEW out, Sound(e, q, d, None, out), NEW cs, Dispatch(e, q, cs)
  PROVE  /\ DOMAIN entry' = DOMAIN e
         /\ \A n \in DOMAIN e :
              MayBeGiven(LetterOf(e, q, d, None, n), LetterOf(entry', queue', d, current', n))
<1>1. CASE q # <<>> /\ cs # <<>>
  <2>1. PICK h : h = Head(q)
    OBVIOUS
  <2>2. entry' = Counted(e, h) /\ queue' = Tail(q) /\ current' = h
    BY <1>1, <2>1 DEF Dispatch
  <2>3. /\ DOMAIN entry' = DOMAIN e
        /\ h \in Range(q) /\ h # None
        /\ \A m \in DOMAIN e : m # h => entry'[m] = e[m]
        /\ entry'[h].count = e[h].count + 1
    BY <1>1, <2>1, <2>2, TakenEntry
  <2>4. Range(q) = Range(queue') \cup {h} /\ h \notin Range(queue')
    <3>1. q \in Seq(DOMAIN e) /\ Once(q)
      BY DEF Sound, PlaceTypes, Apart
    <3> QED
      BY <1>1, <2>1, <2>2, <3>1, Taken
  <2>5. ASSUME NEW n \in DOMAIN e, n # h
        PROVE  LetterOf(entry', queue', d, current', n) = LetterOf(e, q, d, None, n)
    <3>1. n # None
      <4>1. DOMAIN e = 1..Len(e)
        BY LenProperties DEF Sound, PlaceTypes
      <4> QED
        BY <4>1 DEF None
    <3> QED
      BY <2>2, <2>3, <2>4, <2>5, <3>1 DEF LetterOf, PlaceIn
  <2>6. MayBeGiven(LetterOf(e, q, d, None, h), LetterOf(entry', queue', d, current', h))
    BY <2>2, <2>3, <2>4 DEF MayBeGiven, LetterOf, PlaceIn
  <2> QED
    BY <2>3, <2>5, <2>6 DEF MayBeGiven
<1>2. CASE ~(q # <<>> /\ cs # <<>>)
  BY <1>2 DEF Dispatch, MayBeGiven
<1> QED
  BY <1>1, <1>2

\* The same, when a loop may be in progress.
LEMMA CallGives ==
  ASSUME NEW e, NEW q, NEW d, NEW out, Sound(e, q, d, current, out), NEW cs,
         CallDispatch(e, q, cs)
  PROVE  /\ DOMAIN entry' = DOMAIN e
         /\ \A n \in DOMAIN e :
              MayBeGiven(LetterOf(e, q, d, current, n), LetterOf(entry', queue', d, current', n))
<1>1. CASE current = None
  BY <1>1, DispatchGives DEF CallDispatch
<1>2. CASE current # None
  BY <1>2 DEF CallDispatch, MayBeGiven
<1> QED
  BY <1>1, <1>2

\* Entries that were there move as they may.
Moved ==
  /\ DOMAIN entry' = DOMAIN entry
  /\ \A n \in DOMAIN entry :
       Deliveries!Becomes(LetterOf(entry, queue, dlq, current, n),
                          LetterOf(entry, queue, dlq, current, n)')

\* The entry in flight leaves it, for the tail of the queue, the dead letters,
\* or for good, and the loop goes on.
LEMMA SettledMoves ==
  ASSUME IInv, Acked \/ NotAcked
  PROVE  Moved
<1>1. /\ Sound(entry, queue, dlq, current, done \cup thrown) /\ current # None
      /\ current \in DOMAIN entry /\ current \notin Range(queue) /\ current \notin Range(dlq)
      /\ entry[current].count \in Nat /\ None \notin DOMAIN entry
  BY InFlight DEF IInv, Acked, NotAcked
<1>2. PICK q, d, out :
        /\ Sound(entry, q, d, None, out) /\ Dispatch(entry, q, consumers) /\ dlq' = d
        /\ \A n \in DOMAIN entry : n # current =>
             (n \in Range(q) <=> n \in Range(queue)) /\ (n \in Range(d) <=> n \in Range(dlq))
  <2>1. CASE Acked
    <3>1. Sound(entry, queue, dlq, None, (done \cup thrown) \cup {current})
      BY <1>1, OutSound
    <3>2. Dispatch(entry, queue, consumers) /\ dlq' = dlq
      BY <2>1 DEF Acked
    <3> QED
      BY <3>1, <3>2
  <2>2. CASE NotAcked /\ Exhausted
    <3>1. ~(entry[current].count < MaxReceiveCount)
      BY <1>1, <2>2, DataQueueAssumption DEF Exhausted, DataQueueAssumption
    <3>2. Sound(entry, queue, Append(dlq, current), None, done \cup thrown)
      BY <1>1, <3>1, DeadSound
    <3>3. dlq' = Append(dlq, current) /\ Dispatch(entry, queue, consumers)
      BY <2>2 DEF NotAcked
    <3>4. Range(Append(dlq, current)) = Range(dlq) \cup {current}
      BY <1>1, Put DEF Sound, PlaceTypes
    <3> QED
      BY <3>2, <3>3, <3>4
  <2>3. CASE NotAcked /\ ~Exhausted
    <3>1. entry[current].count < MaxReceiveCount
      BY <1>1, <2>3, DataQueueAssumption DEF Exhausted, DataQueueAssumption
    <3>2. Sound(entry, Append(queue, current), dlq, None, done \cup thrown)
      BY <1>1, <3>1, RetriedSound
    <3>3. dlq' = dlq /\ Dispatch(entry, Append(queue, current), consumers)
      BY <2>3 DEF NotAcked, Retried
    <3>4. Range(Append(queue, current)) = Range(queue) \cup {current}
      BY <1>1, Put DEF Sound, PlaceTypes
    <3> QED
      BY <3>2, <3>3, <3>4
  <2> QED
    BY <2>1, <2>2, <2>3
<1>3. /\ DOMAIN entry' = DOMAIN entry
      /\ \A n \in DOMAIN entry :
           MayBeGiven(LetterOf(entry, q, d, None, n), LetterOf(entry', queue', d, current', n))
  BY <1>2, DispatchGives
<1>4. ASSUME NEW n \in DOMAIN entry
      PROVE  MayLeave(LetterOf(entry, queue, dlq, current, n), LetterOf(entry, q, d, None, n))
  <2>1. CASE n = current
    <3>1. PlaceIn(queue, dlq, current, n) = "held"
      BY <1>1, <2>1 DEF PlaceIn
    <3>2. PlaceIn(q, d, None, n) \in {"waits", "dead", "gone"}
      BY <1>1, <2>1 DEF PlaceIn
    <3> QED
      BY <3>1, <3>2 DEF MayLeave, LetterOf
  <2>2. CASE n # current
    <3>1. PlaceIn(q, d, None, n) = PlaceIn(queue, dlq, current, n)
      BY <1>1, <1>2, <2>2 DEF PlaceIn
    <3> QED
      BY <3>1 DEF MayLeave, LetterOf
  <2> QED
    BY <2>1, <2>2
<1>5. \A n \in DOMAIN entry : LetterOf(entry, queue, dlq, current, n)' =
                              LetterOf(entry', queue', d, current', n)
  BY <1>2 DEF LetterOf, PlaceIn
<1> QED
  BY <1>3, <1>4, <1>5, LeavesAndIsGiven DEF Moved

\* A poller takes the head; the dead letters are drained; a handler throws.
LEMMA TakenMoves ==
  ASSUME IInv, Receive \/ DrainDlq \/ HandlerThrows
  PROVE  Moved
<1>1. /\ Sound(entry, queue, dlq, current, done \cup thrown)
      /\ queue \in Seq(DOMAIN entry) /\ Once(queue)
      /\ \A n \in Range(queue) : n \notin Range(dlq) /\ n # current
      /\ \A n \in Range(dlq) : n # current
  BY DEF IInv, Sound, PlaceTypes, Apart
<1>2. CASE Receive
  <2>1. PICK h : h = Head(queue)
    OBVIOUS
  <2>2. /\ entry' = Counted(entry, h) /\ queue' = Tail(queue) /\ queue # <<>>
        /\ dlq' = dlq /\ current' = current
    BY <1>2, <2>1 DEF Receive
  <2>3. /\ DOMAIN entry' = DOMAIN entry
        /\ h \in Range(queue)
        /\ \A m \in DOMAIN entry : m # h => entry'[m] = entry[m]
        /\ entry'[h].count = entry[h].count + 1
    BY <1>1, <2>1, <2>2, TakenEntry
  <2>4. Range(queue) = Range(queue') \cup {h} /\ h \notin Range(queue')
    BY <1>1, <2>1, <2>2, Taken
  <2>5. ASSUME NEW n \in DOMAIN entry, n # h
        PROVE  LetterOf(entry, queue, dlq, current, n)' = LetterOf(entry, queue, dlq, current, n)
    BY <2>2, <2>3, <2>4, <2>5 DEF LetterOf, PlaceIn
  <2>6. Deliveries!IsGiven(LetterOf(entry, queue, dlq, current, h),
                           LetterOf(entry, queue, dlq, current, h)')
    BY <1>1, <2>2, <2>3, <2>4 DEF Deliveries!IsGiven, LetterOf, PlaceIn
  <2>7. LetterOf(entry, queue, dlq, current, h)'.queue = LetterOf(entry, queue, dlq, current, h).queue
    BY DEF LetterOf
  <2> QED
    BY <2>3, <2>5, <2>6, <2>7 DEF Moved, Deliveries!Becomes, Deliveries!Stays
<1>3. CASE DrainDlq
  <2>1. Range(dlq') = {} /\ UNCHANGED <<entry, queue, current>>
    <3>1. DOMAIN <<>> = {}
      OBVIOUS
    <3> QED
      BY <1>3, <3>1 DEF DrainDlq, Range
  <2>2. ASSUME NEW n \in DOMAIN entry
        PROVE  Deliveries!Becomes(LetterOf(entry, queue, dlq, current, n),
                                  LetterOf(entry, queue, dlq, current, n)')
    BY <2>1 DEF LetterOf, PlaceIn, Deliveries!Becomes, Deliveries!Stays, Deliveries!IsDrained
  <2> QED
    BY <2>1, <2>2 DEF Moved
<1>4. CASE HandlerThrows
  <2>1. UNCHANGED <<entry, queue, dlq>> /\ current' = None /\ None \notin DOMAIN entry
    BY <1>1, <1>4, InFlight DEF HandlerThrows
  <2>2. ASSUME NEW n \in DOMAIN entry
        PROVE  Deliveries!Becomes(LetterOf(entry, queue, dlq, current, n),
                                  LetterOf(entry, queue, dlq, current, n)')
    BY <1>1, <2>1 DEF LetterOf, PlaceIn, Deliveries!Becomes, Deliveries!Stays, Deliveries!Leaves
  <2> QED
    BY <2>1, <2>2 DEF Moved
<1> QED
  BY <1>2, <1>3, <1>4

\* A handler is subscribed: the loop may begin.
LEMMA ConsumeMoves ==
  ASSUME IInv, NEW h \in Handlers, Consume(h)
  PROVE  Moved
<1>1. Sound(entry, queue, dlq, current, done \cup thrown) /\ dlq' = dlq
      /\ CallDispatch(entry, queue, consumers')
  BY DEF IInv, Consume
<1>2. /\ DOMAIN entry' = DOMAIN entry
      /\ \A n \in DOMAIN entry :
           MayBeGiven(LetterOf(entry, queue, dlq, current, n),
                      LetterOf(entry', queue', dlq, current', n))
  BY <1>1, CallGives
<1>3. \A n \in DOMAIN entry : LetterOf(entry, queue, dlq, current, n)' =
                              LetterOf(entry', queue', dlq, current', n)
  BY <1>1 DEF LetterOf, PlaceIn
<1> QED
  BY <1>2, <1>3, LeavesAndIsGiven DEF Moved, MayLeave

\* One more entry is there.  It waits, or the loop has begun with it.
LEMMA SendMoves ==
  ASSUME IInv, NEW k \in Keys \cup {NoKey}, Send(k)
  PROVE  /\ \A n \in DOMAIN entry :
              Deliveries!Becomes(LetterOf(entry, queue, dlq, current, n),
                                 LetterOf(entry, queue, dlq, current, n)')
         /\ \E last : /\ last = Len(entry) + 1 /\ Len(entry') = last
                      /\ Deliveries!Arrives(LetterOf(entry, queue, dlq, current, last)')
<1>1. PICK last \in Nat : last = Len(entry) + 1
  BY LenProperties DEF IInv, Sound, PlaceTypes
<1>2. PICK e, q : e = Append(entry, [key |-> k, count |-> 0]) /\ q = Append(queue, last)
  OBVIOUS
<1>3. Sound(e, q, dlq, current, done \cup thrown)
  BY <1>1, <1>2, SentSound DEF IInv
<1>4. CallDispatch(e, q, consumers) /\ dlq' = dlq
  BY <1>1, <1>2 DEF Send, Enqueued
<1>5. /\ DOMAIN entry' = DOMAIN e
      /\ \A n \in DOMAIN e :
           MayBeGiven(LetterOf(e, q, dlq, current, n), LetterOf(entry', queue', dlq, current', n))
  BY <1>3, <1>4, CallGives
<1>6. /\ entry \in Seq(EntryRecord) /\ queue \in Seq(DOMAIN entry)
  BY DEF IInv, Sound, PlaceTypes
<1>7. [key |-> k, count |-> 0] \in EntryRecord
  BY DataQueueAssumption DEF DataQueueAssumption, EntryRecord
<1>8. /\ DOMAIN e = 1..last /\ e[last] = [key |-> k, count |-> 0]
      /\ DOMAIN entry = 1..(last - 1)
      /\ \A n \in DOMAIN entry : e[n] = entry[n]
  BY <1>1, <1>2, <1>6, <1>7, Put
<1>9. Range(q) = Range(queue) \cup {last}
  <2>1. queue \in Seq(Nat)
    <3>1. DOMAIN entry \subseteq Nat
      BY <1>8
    <3> QED
      BY <1>6, <3>1, SeqMonotonic
  <2> QED
    BY <1>1, <1>2, <2>1, Put
<1>10. \A n \in DOMAIN e : LetterOf(entry, queue, dlq, current, n)' =
                           LetterOf(entry', queue', dlq, current', n)
  BY <1>4 DEF LetterOf, PlaceIn
<1>11. Len(entry') = last
  <2>1. entry' \in Seq(EntryRecord)
    BY SendIInv DEF IInv, Sound, PlaceTypes
  <2> QED
    BY <1>1, <1>5, <1>8, <2>1, LenProperties
<1>12. ASSUME NEW n \in DOMAIN entry
       PROVE  Deliveries!Becomes(LetterOf(entry, queue, dlq, current, n),
                                 LetterOf(entry, queue, dlq, current, n)')
  <2>1. n \in DOMAIN e /\ n # last
    BY <1>8
  <2>2. LetterOf(e, q, dlq, current, n) = LetterOf(entry, queue, dlq, current, n)
    BY <1>8, <1>9, <2>1 DEF LetterOf, PlaceIn
  <2>3. MayBeGiven(LetterOf(e, q, dlq, current, n), LetterOf(entry', queue', dlq, current', n))
    BY <1>5, <2>1
  <2> QED
    BY <1>10, <2>1, <2>2, <2>3, LeavesAndIsGiven DEF MayLeave
<1>13. Deliveries!Arrives(LetterOf(entry, queue, dlq, current, last)')
  <2>1. last \in DOMAIN e
    BY <1>1, <1>8
  <2>2. LetterOf(e, q, dlq, current, last) = [queue |-> "queue", place |-> "waits", given |-> 0]
    BY <1>8, <1>9 DEF LetterOf, PlaceIn
  <2>3. MayBeGiven(LetterOf(e, q, dlq, current, last), LetterOf(entry', queue', dlq, current', last))
    BY <1>5, <2>1
  <2>4. PICK b : b = LetterOf(entry', queue', dlq, current', last)
    OBVIOUS
  <2>5. \/ b.place = "waits" /\ b.given = 0
        \/ b.place = "held" /\ b.given = 1
    BY <2>2, <2>3, <2>4 DEF MayBeGiven
  <2> QED
    BY <1>10, <2>1, <2>4, <2>5 DEF Deliveries!Arrives
<1> QED
  BY <1>1, <1>11, <1>12, <1>13

\* Whoever is given for the first time comes after all that were sent before.
LEMMA GivenInTurn ==
  ASSUME IInv'
  PROVE  \A m \in DOMAIN Letters' : Letters'[m].given > 0 => Deliveries!InTurn(m)
<1>1. Letters' = [n \in DOMAIN entry' |-> LetterOf(entry, queue, dlq, current, n)']
  BY DEF Letters, Place, LetterOf, PlaceIn, IsIn, Entries
<1>2. \A m, n \in DOMAIN entry' : n < m /\ entry'[m].count > 0 => entry'[n].count > 0
  BY DEF IInv, Sound, Unseen
<1>3. \A n \in DOMAIN entry' : Letters'[n].given = entry'[n].count
  BY <1>1 DEF LetterOf
<1> QED
  BY <1>1, <1>2, <1>3 DEF Deliveries!InTurn

LEMMA NextImplements ==
  ASSUME IInv, IInv', [Next]_vars
  PROVE  [Deliveries!Next]_Letters
<1>1. /\ Letters = [n \in DOMAIN entry |-> LetterOf(entry, queue, dlq, current, n)]
      /\ Letters' = [n \in DOMAIN entry' |-> LetterOf(entry, queue, dlq, current, n)']
  BY DEF Letters, Place, LetterOf, PlaceIn, IsIn, Entries
<1>2. /\ DOMAIN entry = 1..Len(entry) /\ Len(entry) \in Nat
      /\ DOMAIN entry' = 1..Len(entry') /\ Len(entry') \in Nat
  BY LenProperties DEF IInv, Sound, PlaceTypes
<1>3. Len(Letters) = Len(entry) /\ Len(Letters') = Len(entry')
  BY <1>1, <1>2
<1>4. CASE Moved
  <2>1. DOMAIN Letters' = DOMAIN Letters /\ Len(Letters') = Len(Letters)
    <3>1. DOMAIN entry' = DOMAIN entry
      BY <1>4 DEF Moved
    <3>2. PICK k \in Nat, l \in Nat : k = Len(entry') /\ l = Len(entry) /\ 1..k = 1..l
      BY <1>2, <3>1
    <3>3. k = l
      <4>1. (\A i \in 1..k : i <= l) /\ (\A i \in 1..l : i <= k)
        BY <3>2
      <4>2. (k > 0 => k \in 1..k) /\ (l > 0 => l \in 1..l)
        BY <3>2
      <4> HIDE <3>2
      <4> QED
        BY <4>1, <4>2
    <3> QED
      BY <1>1, <1>3, <3>1, <3>2, <3>3
  <2>2. \A m \in DOMAIN Letters : Deliveries!Becomes(Letters[m], Letters'[m])
    BY <1>1, <1>4 DEF Moved
  <2> QED
    BY <2>1, <2>2, GivenInTurn DEF Deliveries!Next, Deliveries!Moves, Deliveries!IsOrdered, Deliveries!IsFirstGiven
<1>5. ASSUME NEW k \in Keys \cup {NoKey}, Send(k) PROVE Deliveries!Next
  <2>1. /\ \A n \in DOMAIN entry :
             Deliveries!Becomes(LetterOf(entry, queue, dlq, current, n),
                                LetterOf(entry, queue, dlq, current, n)')
        /\ \E last : /\ last = Len(entry) + 1 /\ Len(entry') = last
                     /\ Deliveries!Arrives(LetterOf(entry, queue, dlq, current, last)')
    BY <1>5, SendMoves
  <2>2. PICK last : /\ last = Len(entry) + 1 /\ Len(entry') = last
                    /\ Deliveries!Arrives(LetterOf(entry, queue, dlq, current, last)')
    BY <2>1
  <2>3. /\ Len(Letters') = Len(Letters) + 1
        /\ DOMAIN Letters' = 1..last /\ DOMAIN Letters = 1..(last - 1) /\ last \in Nat \ {0}
    BY <1>1, <1>2, <1>3, <2>2
  <2>4. \A m \in DOMAIN Letters' : m \in DOMAIN Letters \/ m = last
    BY <2>3
  <2>5. \A m \in DOMAIN Letters : m \in DOMAIN Letters' /\ m \in DOMAIN entry
    BY <1>1, <2>3
  <2>6. \A m \in DOMAIN Letters : Deliveries!Becomes(Letters[m], Letters'[m])
    BY <1>1, <2>1, <2>5
  <2>7. last \in DOMAIN Letters' /\ last \notin DOMAIN Letters
    BY <2>3
  <2>8. Deliveries!Arrives(Letters'[last])
    BY <1>1, <2>2, <2>7
  <2> QED
    BY <2>3, <2>4, <2>6, <2>7, <2>8, GivenInTurn DEF Deliveries!Next, Deliveries!Moves, Deliveries!IsOrdered, Deliveries!IsFirstGiven
<1>6. ASSUME NEW h \in Handlers, Consume(h) PROVE Moved
  BY <1>6, ConsumeMoves
<1>7. CASE UNCHANGED <<entry, queue, dlq, current>>
  BY <1>7 DEF Letters, Place, IsIn, Entries
<1>8. ASSUME NEW h \in Handlers, Unsubscribe(h) PROVE UNCHANGED <<entry, queue, dlq, current>>
  BY <1>8 DEF Unsubscribe
<1>9. CASE NextHandler \/ UNCHANGED vars
  BY <1>7, <1>9 DEF NextHandler, vars
<1>10. CASE Acked \/ NotAcked \/ Receive \/ DrainDlq \/ HandlerThrows
  BY <1>4, <1>10, SettledMoves, TakenMoves
<1> QED
  BY <1>4, <1>5, <1>6, <1>7, <1>8, <1>9, <1>10 DEF Next, HandlerSettles

\* The data queue is a queue with acknowledgements, for any keys, handlers and
\* budget and whatever handlers do: to whoever sends and consumes, every step
\* of its loop is one of Delivery or none.
THEOREM SpecImplementsDelivery == Spec => ImplementsDelivery
<1>1. Init => Deliveries!Init
  <2> SUFFICES ASSUME Init PROVE Letters = <<>>
    BY DEF Deliveries!Init
  <2>1. entry = <<>> /\ DOMAIN <<>> = {}
    BY DEF Init
  <2> QED
    BY <2>1 DEF Letters, Entries
<1>2. IInv /\ IInv' /\ [Next]_vars => [Deliveries!Next]_Letters
  BY NextImplements
<1> QED
  BY <1>1, <1>2, SpecIInv, PTL DEF Spec, ImplementsDelivery, Deliveries!Spec
=============================================================================
