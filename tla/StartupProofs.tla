----------------------------- MODULE StartupProofs -----------------------------
(***************************************************************************)
(* Proofs about Startup and Logging, for every set of configurations,      *)
(* databases and writers, and without the bounds on messages and pieces.   *)
(*                                                                         *)
(* The log is either one of the threads of the pools or one of the main    *)
(* thread: the main thread writes to it only when something has failed,    *)
(* and the pools work only when nothing has.  For the former, what a       *)
(* writer has written is what is in the log, followed by the text of its   *)
(* unfinished message.                                                     *)
(***************************************************************************)
EXTENDS Startup, FiniteSetTheorems, TLAPS

Early == {"begin", "read", "level", "open", "http_run"}
States == Early \cup {"running", "finish", "exit"}

Texts == {"usage", "open", "not_to_the_end", "parse", "invalid", "databases",
          "db_server", "listen", "http_server", "exception",
          "Terminating after error"}
MainEntry == {"main"} \X Nat \X Texts
Entry == Writers \X Nat \X (Nat \cup {"endl"})

Count(log, w, n) == Cardinality(Places(log, w, n))

------------------------------------------------------------------------------
(* The inductive invariant.  Its parts take the variables as parameters.   *)

LogTyped(m, md, wr, o) ==
    /\ m \in [Writers -> [os : {"none", "cerr", "nullopt"}, text : Seq(Entry),
                          temporary : BOOLEAN]]
    /\ md \in [Writers -> Nat]
    /\ wr \in [Writers -> Seq(Entry)]
    /\ o \in Seq(Entry)

\* What the writer w has written is in the log o up to the text of its message.
Kept(w, text, wr, o) ==
    /\ Len(wr) = Count(o, w, Len(o)) + Len(text)
    /\ \A i \in Places(o, w, Len(o)) : o[i] = wr[Count(o, w, i)]
    /\ \A k \in 1 .. Len(text) : text[k] = wr[Count(o, w, Len(o)) + k]

\* The text of the unfinished message m, number n of the writer w, is its own.
OwnText(w, m, n) ==
    /\ m.os # "cerr" => m.text = <<>>
    /\ \A k \in 1 .. Len(m.text) : m.text[k][1] = w /\ m.text[k][2] = n

\* Nothing of a message that is still enabled is in the log.
Unsent(w, m, n, o) ==
    /\ \A i \in Places(o, w, Len(o)) : o[i][2] <= n
    /\ m.os = "cerr" => \A i \in Places(o, w, Len(o)) : o[i][2] < n

Unmixed(o) ==
    \A i, k \in 1 .. Len(o) :
        i < k /\ o[i][1] = o[k][1] /\ o[i][2] = o[k][2] =>
            \A j \in i .. k : o[j][1] = o[i][1]

PoolLog(m, md, wr, o) ==
    /\ LogTyped(m, md, wr, o)
    /\ \A w \in Writers : /\ Kept(w, m[w].text, wr[w], o)
                          /\ OwnText(w, m[w], md[w])
                          /\ Unsent(w, m[w], md[w], o)
    /\ Unmixed(o)

Idle(m, wr) == \A w \in Writers : m[w] = NoMsg /\ wr[w] = <<>>

\* The log when something has failed
MainLog(m, wr, o) == Idle(m, wr) /\ o \in Seq(MainEntry)

Log ==
    /\ cause = "none" => PoolLog(msg, made, written, out)
    /\ cause # "none" => MainLog(msg, written, out)

Control ==
    /\ main \in States
    /\ level \in Int
    /\ main \in Early =>
          /\ out = <<>> /\ Idle(msg, written)
          /\ cause = "none" /\ result = "EXIT_FAILURE"
    /\ main = "running" => cause = "none" /\ result = "EXIT_FAILURE"

Said(c, o) == \E i \in DOMAIN o : o[i][1] = "main" /\ o[i][3] = c

Reported ==
    main \in {"finish", "exit"} =>
        /\ result = "EXIT_SUCCESS" <=> cause = "none"
        /\ cause = "exception" => cout
        /\ cause # "none" /\ level >= log_levels.crit => Said(cause, out)

Thread == [opened : SUBSET Databases, sync : [Databases -> Nat]]

Complete(thread) == thread.opened = Databases /\ \A d \in Databases : thread.sync[d] # 0

\* Threads before the last are complete, and no thread has a db_sync_t other
\* than the one of the first.
Opened(s) ==
    /\ s \in Seq(Thread)
    /\ \A t \in 1 .. Len(s) : t < Len(s) => Complete(s[t])
    /\ \A t \in 1 .. Len(s) : \A d \in Databases :
          s[t].sync[d] # 0 => s[t].sync[d] = s[1].sync[d]

IInv == Log /\ Control /\ Reported /\ Opened(dbs) /\ DatabasesReady

------------------------------------------------------------------------------
(* Counting in the log                                                     *)

\* The places of a writer are a finite set, and those in a longer prefix are
\* those in a shorter one and the new ones.
LEMMA PlacesFinite ==
    ASSUME NEW log, NEW w, NEW n \in Nat
    PROVE  IsFiniteSet(Places(log, w, n)) /\ Count(log, w, n) \in Nat
<1>1. IsFiniteSet(1 .. n)
  BY FS_Interval
<1>2. Places(log, w, n) \subseteq 1 .. n
  BY DEF Places
<1>3. IsFiniteSet(Places(log, w, n))
  BY <1>1, <1>2, FS_Subset
<1> QED
  BY <1>3, FS_CardinalityType DEF Count

\* Appending a block keeps the counts of the prefix, adds the block to the
\* counts of the writer of all of it, and nothing to those of others: this is
\* what flushing an osyncstream does.
LEMMA Block ==
    ASSUME NEW o \in Seq(Entry), NEW b \in Seq(Entry), NEW w \in Writers,
           \A k \in 1 .. Len(b) : b[k][1] = w
    PROVE  /\ o \o b \in Seq(Entry) /\ Len(o \o b) = Len(o) + Len(b)
           /\ \A i \in 1 .. Len(o) : (o \o b)[i] = o[i]
           /\ \A k \in 1 .. Len(b) : (o \o b)[Len(o) + k] = b[k]
           /\ \A v \in Writers, i \in 1 .. Len(o) : Count(o \o b, v, i) = Count(o, v, i)
           /\ \A k \in 0 .. Len(b) : Count(o \o b, w, Len(o) + k) = Count(o, w, Len(o)) + k
           /\ \A v \in Writers \ {w} :
                 Count(o \o b, v, Len(o) + Len(b)) = Count(o, v, Len(o))
<1> DEFINE c == o \o b
<1>1. c \in Seq(Entry) /\ Len(c) = Len(o) + Len(b) /\ Len(o) \in Nat /\ Len(b) \in Nat
  OBVIOUS
<1>2. \A i \in 1 .. Len(o) : c[i] = o[i]
  OBVIOUS
<1>3. \A k \in 1 .. Len(b) : c[Len(o) + k] = b[k]
  OBVIOUS
<1>4. \A i \in Len(o) + 1 .. Len(o) + Len(b) : c[i][1] = w
  <2> TAKE i \in Len(o) + 1 .. Len(o) + Len(b)
  <2>1. i - Len(o) \in 1 .. Len(b) /\ i = Len(o) + (i - Len(o))
    BY <1>1
  <2> QED
    BY <2>1, <1>3
<1> HIDE DEF c
<1>5. ASSUME NEW v \in Writers, NEW i \in 0 .. Len(o)
      PROVE  Places(c, v, i) = Places(o, v, i)
  BY <1>1, <1>2 DEF Places
<1>6. ASSUME NEW v \in Writers, NEW i \in 1 .. Len(o)
      PROVE  Count(c, v, i) = Count(o, v, i)
  BY <1>1, <1>5 DEF Count
<1>7. ASSUME NEW k \in 0 .. Len(b)
      PROVE  Count(c, w, Len(o) + k) = Count(o, w, Len(o)) + k
  <2> DEFINE new == Len(o) + 1 .. Len(o) + k
             old == Places(o, w, Len(o))
  <2>1. Places(c, w, Len(o) + k) = old \cup new
    <3>1. old = Places(c, w, Len(o))
      BY <1>1, <1>5
    <3>2. \A i \in new : c[i][1] = w
      BY <1>1, <1>4
    <3> QED
      BY <1>1, <3>1, <3>2 DEF Places
  <2>2. old \cap new = {}
    BY <1>1 DEF Places
  <2>3. IsFiniteSet(old) /\ Cardinality(old) \in Nat
    BY <1>1, PlacesFinite DEF Count
  <2>4. IsFiniteSet(new) /\ Cardinality(new) = k
    <3> DEFINE a == Len(o) + 1
               z == Len(o) + k
    <3>1. a \in Int /\ z \in Int /\ z - a + 1 = k /\ (a > z => k = 0)
      BY <1>1
    <3>2. new = a .. z
      OBVIOUS
    <3> HIDE DEF a, z, new
    <3> QED
      BY <3>1, <3>2, FS_Interval
  <2> HIDE DEF old, new
  <2>5. Cardinality(old \cup new) = Cardinality(old) + Cardinality(new) - Cardinality(old \cap new)
    BY <2>3, <2>4, FS_Union
  <2>6. Cardinality(old \cap new) = 0
    BY <2>2, FS_EmptySet
  <2>7. Cardinality(old \cup new) = Cardinality(old) + k
    BY <2>3, <2>4, <2>5, <2>6
  <2> QED
    BY <2>1, <2>7 DEF Count, old
<1>8. ASSUME NEW v \in Writers \ {w}
      PROVE  Count(c, v, Len(o) + Len(b)) = Count(o, v, Len(o))
  <2>1. Places(c, v, Len(o) + Len(b)) = Places(c, v, Len(o))
    BY <1>1, <1>4 DEF Places
  <2> QED
    BY <2>1, <1>1, <1>5 DEF Count
<1> QED
  BY <1>1, <1>2, <1>3, <1>6, <1>7, <1>8 DEF c

\* An empty prefix of the log counts nothing.
LEMMA CountNone ==
    ASSUME NEW log, NEW w
    PROVE  Count(log, w, 0) = 0
<1>1. Places(log, w, 0) = {}
  BY DEF Places
<1> QED
  BY <1>1, FS_EmptySet DEF Count

\* A place of a writer in the log is counted among what it wrote.
LEMMA CountBound ==
    ASSUME NEW o \in Seq(Entry), NEW w \in Writers, NEW i \in 1 .. Len(o)
    PROVE  Count(o, w, i) <= Count(o, w, Len(o))
<1>1. Places(o, w, i) \subseteq Places(o, w, Len(o))
  BY DEF Places
<1>2. IsFiniteSet(Places(o, w, Len(o)))
  BY PlacesFinite
<1> QED
  BY <1>1, <1>2, FS_Subset DEF Count

\* And it is a place in what it wrote, counted from 1.
LEMMA CountPositive ==
    ASSUME NEW o \in Seq(Entry), NEW w \in Writers, NEW i \in Places(o, w, Len(o))
    PROVE  Count(o, w, i) \in 1 .. Count(o, w, Len(o))
<1>1. i \in 1 .. Len(o) /\ i \in Places(o, w, i) /\ Len(o) \in Nat
  BY DEF Places
<1>2. Count(o, w, i) \in Nat /\ IsFiniteSet(Places(o, w, i)) /\ Count(o, w, Len(o)) \in Nat
  BY <1>1, PlacesFinite
<1>3. Count(o, w, i) # 0
  BY <1>1, <1>2, FS_EmptySet DEF Count
<1> QED
  BY <1>1, <1>2, <1>3, CountBound

\* operator<< and the constructor: a piece goes to the text and is written.
LEMMA KeptInsert ==
    ASSUME NEW w \in Writers, NEW o \in Seq(Entry), NEW text \in Seq(Entry),
           NEW wr \in Seq(Entry), NEW piece \in Entry, Kept(w, text, wr, o)
    PROVE  Kept(w, Append(text, piece), Append(wr, piece), o)
<1> DEFINE n == Count(o, w, Len(o))
           text2 == Append(text, piece)
           wr2 == Append(wr, piece)
<1>1. n \in Nat
  BY PlacesFinite
<1>2. Len(wr) = n + Len(text) /\ Len(text) \in Nat
  BY DEF Kept
<1>3. /\ Len(text2) = Len(text) + 1 /\ text2[Len(text) + 1] = piece
      /\ \A k \in 1 .. Len(text) : text2[k] = text[k]
  OBVIOUS
<1>4. /\ Len(wr2) = Len(wr) + 1 /\ wr2[Len(wr) + 1] = piece
      /\ \A k \in 1 .. Len(wr) : wr2[k] = wr[k]
  OBVIOUS
<1> HIDE DEF text2, wr2
<1>5. ASSUME NEW i \in Places(o, w, Len(o))
      PROVE  o[i] = wr2[Count(o, w, i)]
  <2>1. Count(o, w, i) \in 1 .. n
    BY CountPositive
  <2>2. Count(o, w, i) \in 1 .. Len(wr)
    BY <2>1, <1>1, <1>2
  <2> QED
    BY <2>2, <1>4 DEF Kept
<1>6. ASSUME NEW k \in 1 .. Len(text2)
      PROVE  text2[k] = wr2[n + k]
  <2>1. CASE k = Len(text) + 1
    BY <2>1, <1>1, <1>2, <1>3, <1>4
  <2>2. CASE k \in 1 .. Len(text)
    <3>1. n + k \in 1 .. Len(wr)
      BY <2>2, <1>1, <1>2
    <3> QED
      BY <2>2, <3>1, <1>3, <1>4 DEF Kept
  <2> QED
    BY <2>1, <2>2, <1>2, <1>3
<1>7. Len(wr2) = n + Len(text2)
  BY <1>1, <1>2, <1>3, <1>4
<1> QED
  BY <1>5, <1>6, <1>7 DEF Kept, text2, wr2

\* The text of a message goes to the log: nothing of it is left to send.
LEMMA KeptFlush ==
    ASSUME NEW w \in Writers, NEW o \in Seq(Entry), NEW text \in Seq(Entry),
           NEW wr \in Seq(Entry), Kept(w, text, wr, o),
           \A k \in 1 .. Len(text) : text[k][1] = w
    PROVE  Kept(w, <<>>, wr, o \o text)
<1> DEFINE o2 == o \o text
           n == Count(o, w, Len(o))
<1>0. n \in Nat /\ Len(text) \in Nat /\ Len(o) \in Nat
  BY PlacesFinite
<1>1. /\ o2 \in Seq(Entry) /\ Len(o2) = Len(o) + Len(text)
      /\ \A i \in 1 .. Len(o) : o2[i] = o[i]
      /\ \A k \in 1 .. Len(text) : o2[Len(o) + k] = text[k]
  BY Block
<1>2. /\ \A i \in 1 .. Len(o) : Count(o2, w, i) = Count(o, w, i)
      /\ \A k \in 0 .. Len(text) : Count(o2, w, Len(o) + k) = n + k
  BY Block
<1> HIDE DEF o2, n
<1>3. Count(o2, w, Len(o2)) = n + Len(text)
  <2>1. Len(text) \in 0 .. Len(text)
    BY <1>0
  <2>2. Count(o2, w, Len(o) + Len(text)) = n + Len(text)
    BY <2>1, <1>2
  <2> QED
    BY <2>2, <1>1
<1>4. Len(wr) = n + Len(text)
  BY DEF Kept, n
<1>5. ASSUME NEW i \in Places(o2, w, Len(o2))
      PROVE  o2[i] = wr[Count(o2, w, i)]
  <2>0. i \in 1 .. Len(o) + Len(text) /\ o2[i][1] = w
    BY <1>1 DEF Places
  <2>1. CASE i \in 1 .. Len(o)
    <3>1. i \in Places(o, w, Len(o))
      BY <2>0, <2>1, <1>1 DEF Places
    <3> QED
      BY <3>1, <2>1, <1>1, <1>2 DEF Kept
  <2>2. CASE i \in Len(o) + 1 .. Len(o) + Len(text)
    <3>1. i - Len(o) \in 1 .. Len(text) /\ i = Len(o) + (i - Len(o))
      BY <2>2, <1>0
    <3>2. o2[i] = text[i - Len(o)] /\ Count(o2, w, i) = n + (i - Len(o))
      BY <3>1, <1>0, <1>1, <1>2
    <3>3. text[i - Len(o)] = wr[n + (i - Len(o))]
      BY <3>1 DEF Kept, n
    <3> QED
      BY <3>2, <3>3
  <2> QED
    BY <2>0, <2>1, <2>2, <1>0
<1>6. Len(<<>>) = 0
  OBVIOUS
<1>7. Len(wr) = Count(o2, w, Len(o2)) + Len(<<>>)
  BY <1>0, <1>3, <1>4, <1>6
<1>8. \A k \in 1 .. Len(<<>>) : <<>>[k] = wr[Count(o2, w, Len(o2)) + k]
  BY <1>6
<1> QED
  BY <1>5, <1>7, <1>8, Zenon DEF Kept, o2

\* What another writer sends does not matter.
LEMMA KeptOther ==
    ASSUME NEW w \in Writers, NEW v \in Writers, v # w, NEW o \in Seq(Entry),
           NEW b \in Seq(Entry), \A k \in 1 .. Len(b) : b[k][1] = w,
           NEW m, NEW n, NEW wr, Kept(v, m.text, wr, o), Unsent(v, m, n, o)
    PROVE  Kept(v, m.text, wr, o \o b) /\ Unsent(v, m, n, o \o b)
<1> DEFINE o2 == o \o b
<1>0. Len(b) \in Nat /\ Len(o) \in Nat
  OBVIOUS
<1>1. /\ Len(o2) = Len(o) + Len(b)
      /\ \A i \in 1 .. Len(o) : o2[i] = o[i]
      /\ \A k \in 1 .. Len(b) : o2[Len(o) + k] = b[k]
  BY Block
<1>2. /\ \A i \in 1 .. Len(o) : Count(o2, v, i) = Count(o, v, i)
      /\ Count(o2, v, Len(o) + Len(b)) = Count(o, v, Len(o))
  BY Block
<1> HIDE DEF o2
<1>3. ASSUME NEW i \in Places(o2, v, Len(o2))
      PROVE  i \in 1 .. Len(o)
  <2>0. i \in 1 .. Len(o) + Len(b) /\ o2[i][1] = v
    BY <1>1 DEF Places
  <2>1. CASE i \in Len(o) + 1 .. Len(o) + Len(b)
    <3>1. i - Len(o) \in 1 .. Len(b) /\ i = Len(o) + (i - Len(o))
      BY <2>1, <1>0
    <3>2. PICK k \in 1 .. Len(b) : i = Len(o) + k
      BY <3>1
    <3>3. o2[i] = b[k] /\ b[k][1] = w
      BY <3>2, <1>1
    <3> QED
      BY <2>0, <3>3
  <2> QED
    BY <2>0, <2>1, <1>0
<1>4. ASSUME NEW i \in Places(o2, v, Len(o2))
      PROVE  /\ i \in Places(o, v, Len(o)) /\ o2[i] = o[i]
             /\ Count(o2, v, i) = Count(o, v, i)
  BY <1>1, <1>2, <1>3 DEF Places
<1>5. Count(o2, v, Len(o2)) = Count(o, v, Len(o))
  BY <1>1, <1>2
<1>6. Kept(v, m.text, wr, o2)
  BY <1>4, <1>5 DEF Kept
<1>7. Unsent(v, m, n, o2)
  BY <1>4 DEF Unsent
<1> QED
  BY <1>6, <1>7 DEF o2

\* Messages stay apart in the log when one is sent of which nothing was there.
LEMMA UnmixedFlush ==
    ASSUME NEW w \in Writers, NEW n \in Nat, NEW o \in Seq(Entry), NEW b \in Seq(Entry),
           Unmixed(o), \A k \in 1 .. Len(b) : b[k][1] = w /\ b[k][2] = n,
           \A i \in Places(o, w, Len(o)) : o[i][2] # n
    PROVE  Unmixed(o \o b)
<1> DEFINE o2 == o \o b
<1>0. Len(b) \in Nat /\ Len(o) \in Nat
  OBVIOUS
<1>1. /\ Len(o2) = Len(o) + Len(b)
      /\ \A i \in 1 .. Len(o) : o2[i] = o[i]
      /\ \A k \in 1 .. Len(b) : o2[Len(o) + k] = b[k]
  BY Block
<1> HIDE DEF o2
<1>2. ASSUME NEW i \in Len(o) + 1 .. Len(o2)
      PROVE  o2[i][1] = w /\ o2[i][2] = n
  <2>1. i - Len(o) \in 1 .. Len(b) /\ i = Len(o) + (i - Len(o))
    BY <1>0, <1>1
  <2>2. PICK k \in 1 .. Len(b) : i = Len(o) + k
    BY <2>1
  <2>3. o2[i] = b[k]
    BY <2>2, <1>1
  <2> QED
    BY <2>3
<1>3. ASSUME NEW i \in 1 .. Len(o2), NEW k \in 1 .. Len(o2), i < k,
             o2[i][1] = o2[k][1], o2[i][2] = o2[k][2], NEW j \in i .. k
      PROVE  o2[j][1] = o2[i][1]
  <2>1. CASE k \in 1 .. Len(o)
    <3>1. i \in 1 .. Len(o) /\ j \in 1 .. Len(o)
      BY <1>3, <2>1, <1>0, <1>1
    <3>2. o2[i] = o[i] /\ o2[j] = o[j] /\ o2[k] = o[k]
      BY <2>1, <3>1, <1>1
    <3>3. o[i][1] = o[k][1] /\ o[i][2] = o[k][2]
      BY <1>3, <3>2
    <3>4. o[j][1] = o[i][1]
      BY <1>3, <2>1, <3>1, <3>3 DEF Unmixed
    <3> QED
      BY <3>2, <3>4
  <2>2. CASE k \in Len(o) + 1 .. Len(o2) /\ i \in 1 .. Len(o)
    BY <1>3, <2>2, <1>1, <1>2 DEF Places
  <2>3. CASE i \in Len(o) + 1 .. Len(o2)
    <3>1. j \in Len(o) + 1 .. Len(o2)
      BY <1>3, <2>3, <1>0, <1>1
    <3> QED
      BY <2>3, <3>1, <1>2
  <2> QED
    BY <2>1, <2>2, <2>3, <1>0, <1>1
<1> QED
  BY <1>3 DEF Unmixed, o2

------------------------------------------------------------------------------
(* What a writer does to the log of the pools                              *)

\* A step of w that leaves the log alone is checked for w only.
LEMMA LocalStep ==
    ASSUME NEW m, NEW md, NEW wr, NEW o, NEW m2, NEW md2, NEW wr2, NEW w \in Writers,
           PoolLog(m, md, wr, o), LogTyped(m2, md2, wr2, o),
           \A v \in Writers \ {w} : m2[v] = m[v] /\ md2[v] = md[v] /\ wr2[v] = wr[v],
           Kept(w, m2[w].text, wr2[w], o), OwnText(w, m2[w], md2[w]),
           Unsent(w, m2[w], md2[w], o)
    PROVE  PoolLog(m2, md2, wr2, o)
<1>1. ASSUME NEW v \in Writers
      PROVE  Kept(v, m2[v].text, wr2[v], o) /\ OwnText(v, m2[v], md2[v])
             /\ Unsent(v, m2[v], md2[v], o)
  <2>1. CASE v = w
    BY <2>1
  <2>2. CASE v # w
    <3>1. m2[v] = m[v] /\ md2[v] = md[v] /\ wr2[v] = wr[v]
      BY <2>2
    <3>2. Kept(v, m[v].text, wr[v], o) /\ OwnText(v, m[v], md[v]) /\ Unsent(v, m[v], md[v], o)
      BY DEF PoolLog
    <3> QED
      BY <3>1, <3>2
  <2> QED
    BY <2>1, <2>2
<1> QED
  BY <1>1 DEF PoolLog

\* The osyncstream of w sends b, its message, to the log and is destroyed.
LEMMA FlushStep ==
    ASSUME NEW m, NEW md, NEW wr, NEW o, NEW m2, NEW wr2, NEW w \in Writers,
           NEW b \in Seq(Entry), PoolLog(m, md, wr, o), LogTyped(m2, md, wr2, o),
           \A v \in Writers \ {w} : m2[v] = m[v] /\ wr2[v] = wr[v],
           m[w].os = "cerr", m2[w].os # "cerr", m2[w].text = <<>>,
           Kept(w, b, wr2[w], o),
           \A k \in 1 .. Len(b) : b[k][1] = w /\ b[k][2] = md[w]
    PROVE  PoolLog(m2, md, wr2, o \o b)
<1> DEFINE o2 == o \o b
<1>0. /\ o \in Seq(Entry) /\ wr2 \in [Writers -> Seq(Entry)] /\ md \in [Writers -> Nat]
      /\ Len(o) \in Nat /\ Len(b) \in Nat
  BY DEF LogTyped
<1>1. /\ o2 \in Seq(Entry) /\ Len(o2) = Len(o) + Len(b)
      /\ \A i \in 1 .. Len(o) : o2[i] = o[i]
      /\ \A k \in 1 .. Len(b) : o2[Len(o) + k] = b[k]
  BY <1>0, Block
<1>2. LogTyped(m2, md, wr2, o2)
  BY <1>1 DEF LogTyped
<1>3. Unsent(w, m[w], md[w], o)
  BY DEF PoolLog
<1>4. Unmixed(o2)
  <2>1. \A i \in Places(o, w, Len(o)) : o[i][2] # md[w]
    <3> TAKE i \in Places(o, w, Len(o))
    <3>1. o[i] \in Entry /\ o[i][2] < md[w]
      BY <1>0, <1>3 DEF Unsent, Places
    <3>2. o[i][2] \in Nat /\ md[w] \in Nat
      BY <1>0, <3>1 DEF Entry
    <3> QED
      BY <3>1, <3>2
  <2>2. Unmixed(o) /\ md[w] \in Nat
    BY <1>0 DEF PoolLog
  <2> QED
    BY <2>1, <2>2, <1>0, UnmixedFlush
<1>5. Kept(w, m2[w].text, wr2[w], o2)
  BY <1>0, KeptFlush
<1>6. OwnText(w, m2[w], md[w])
  <2>1. Len(<<>>) = 0
    OBVIOUS
  <2>2. \A k \in 1 .. Len(m2[w].text) : FALSE
    BY <2>1
  <2> QED
    BY <2>2, Zenon DEF OwnText
<1>7. Unsent(w, m2[w], md[w], o2)
  <2>1. ASSUME NEW i \in Places(o2, w, Len(o2))
        PROVE  o2[i][2] <= md[w]
    <3>0. i \in 1 .. Len(o) + Len(b) /\ o2[i][1] = w /\ md[w] \in Nat
      BY <1>0, <1>1 DEF Places
    <3>1. CASE i \in 1 .. Len(o)
      BY <3>0, <3>1, <1>1, <1>3 DEF Unsent, Places
    <3>2. CASE i \in Len(o) + 1 .. Len(o) + Len(b)
      <4>1. i - Len(o) \in 1 .. Len(b) /\ i = Len(o) + (i - Len(o))
        BY <3>2, <1>0
      <4>2. PICK k \in 1 .. Len(b) : i = Len(o) + k
        BY <4>1
      <4>3. o2[i] = b[k] /\ b[k][2] = md[w]
        BY <4>2, <1>1
      <4> QED
        BY <3>0, <4>3
    <3> QED
      BY <3>0, <3>1, <3>2, <1>0
  <2> QED
    BY <2>1 DEF Unsent
<1>8. ASSUME NEW v \in Writers, v # w
      PROVE  Kept(v, m2[v].text, wr2[v], o2) /\ OwnText(v, m2[v], md[v])
             /\ Unsent(v, m2[v], md[v], o2)
  <2>1. m2[v] = m[v] /\ wr2[v] = wr[v]
    BY <1>8
  <2>2. Kept(v, m[v].text, wr[v], o) /\ OwnText(v, m[v], md[v]) /\ Unsent(v, m[v], md[v], o)
    BY DEF PoolLog
  <2>3. \A k \in 1 .. Len(b) : b[k][1] = w
    OBVIOUS
  <2>4. Kept(v, m[v].text, wr[v], o2) /\ Unsent(v, m[v], md[v], o2)
    BY <2>2, <2>3, <1>0, <1>8, KeptOther
  <2> QED
    BY <2>1, <2>2, <2>4
<1> QED
  BY <1>2, <1>4, <1>5, <1>6, <1>7, <1>8 DEF PoolLog

\* Every step of a writer keeps the log of the pools.
LEMMA WriterKeeps ==
    ASSUME NEW w \in Writers, PoolLog(msg, made, written, out), WriterStep(w)
    PROVE  PoolLog(msg', made', written', out')
<1> DEFINE Msg == [os : {"none", "cerr", "nullopt"}, text : Seq(Entry), temporary : BOOLEAN]
<1>t. /\ msg \in [Writers -> Msg] /\ made \in [Writers -> Nat]
      /\ written \in [Writers -> Seq(Entry)] /\ out \in Seq(Entry)
  BY DEF PoolLog, LogTyped
<1>u. /\ msg[w] \in Msg /\ made[w] \in Nat /\ written[w] \in Seq(Entry)
      /\ msg[w].text \in Seq(Entry)
  BY <1>t
<1>w. Kept(w, msg[w].text, written[w], out) /\ OwnText(w, msg[w], made[w])
      /\ Unsent(w, msg[w], made[w], out)
  BY DEF PoolLog
<1>e. <<>> \in Seq(Entry) /\ Len(<<>>) = 0
  <2>1. Len(<<>>) = 0
    OBVIOUS
  <2>2. <<>> \in Seq(Entry)
    OBVIOUS
  <2> QED
    BY <2>1, <2>2
<1>own. ASSUME NEW m, m.text = <<>>, NEW n
        PROVE  OwnText(w, m, n)
  <2>1. \A k \in 1 .. Len(m.text) : FALSE
    BY <1>e, <1>own
  <2> QED
    BY <1>own, <2>1, Zenon DEF OwnText
<1>1. ASSUME NEW l \in Levels, Construct(w, l)
      PROVE  PoolLog(msg', made', written', out')
  <2> DEFINE piece == <<w, made[w] + 1, 0>>
  <2>1. piece \in Entry /\ piece[1] = w /\ piece[2] = made[w] + 1
    BY <1>u DEF Entry
  <2>2. /\ out' = out /\ msg[w] = NoMsg
        /\ made' = [made EXCEPT ![w] = @ + 1]
    BY <1>1 DEF Construct
  <2>3. made' \in [Writers -> Nat] /\ made'[w] = made[w] + 1
        /\ \A v \in Writers \ {w} : made'[v] = made[v]
    BY <2>2, <1>t
  <2>4. msg[w].text = <<>>
    BY <2>2 DEF NoMsg
  <2>5. \A i \in Places(out, w, Len(out)) : out[i][2] <= made[w] /\ out[i][2] < made[w] + 1
    <3> TAKE i \in Places(out, w, Len(out))
    <3>1. out[i] \in Entry /\ out[i][2] <= made[w]
      BY <1>t, <1>w DEF Unsent, Places
    <3>2. out[i][2] \in Nat
      BY <3>1 DEF Entry
    <3> QED
      BY <3>1, <3>2, <1>u
  <2>6. \A i \in Places(out, w, Len(out)) : out[i][2] <= made[w] + 1
    <3> TAKE i \in Places(out, w, Len(out))
    <3>1. out[i] \in Entry /\ out[i][2] <= made[w]
      BY <1>t, <1>w DEF Unsent, Places
    <3>2. out[i][2] \in Nat
      BY <3>1 DEF Entry
    <3> QED
      BY <3>1, <3>2, <1>u
  <2>7. CASE enabled(l)
    <3> DEFINE m2 == [os |-> "cerr", text |-> <<piece>>, temporary |-> TRUE]
    <3>1. msg' = [msg EXCEPT ![w] = m2] /\ written' = [written EXCEPT ![w] = Append(@, piece)]
      BY <1>1, <2>7 DEF Construct
    <3>2. <<piece>> \in Seq(Entry) /\ Len(<<piece>>) = 1 /\ <<piece>>[1] = piece
      BY <2>1
    <3>3. m2 \in Msg
      BY <3>2
    <3> HIDE DEF piece
    <3>4. <<piece>> = Append(msg[w].text, piece)
      BY <2>4
    <3>5. Append(written[w], piece) \in Seq(Entry)
      BY <1>u, <2>1
    <3>6. m2.text = <<piece>> /\ m2.os = "cerr"
      OBVIOUS
    <3> HIDE DEF m2, Msg
    <3>7. msg' \in [Writers -> Msg] /\ msg'[w] = m2 /\ \A v \in Writers \ {w} : msg'[v] = msg[v]
      BY <3>1, <3>3, <1>t
    <3>8. written' \in [Writers -> Seq(Entry)] /\ written'[w] = Append(written[w], piece)
          /\ \A v \in Writers \ {w} : written'[v] = written[v]
      BY <3>1, <3>5, <1>t
    <3>9. Kept(w, <<piece>>, written'[w], out)
      <4>1. Kept(w, Append(msg[w].text, piece), Append(written[w], piece), out)
        BY <1>t, <1>u, <1>w, <2>1, KeptInsert
      <4> QED
        BY <4>1, <3>4, <3>8
    <3>10. OwnText(w, m2, made'[w])
      BY <3>2, <3>6, <2>1, <2>3 DEF OwnText
    <3>11. Unsent(w, m2, made'[w], out)
      BY <2>3, <2>5, <2>6 DEF Unsent
    <3>12. LogTyped(msg', made', written', out)
      BY <3>7, <3>8, <2>3, <1>t DEF LogTyped, Msg
    <3>13. PoolLog(msg', made', written', out)
      <4>1. Kept(w, msg'[w].text, written'[w], out) /\ OwnText(w, msg'[w], made'[w])
            /\ Unsent(w, msg'[w], made'[w], out)
        BY <3>6, <3>7, <3>9, <3>10, <3>11
      <4>2. \A v \in Writers \ {w} :
              msg'[v] = msg[v] /\ made'[v] = made[v] /\ written'[v] = written[v]
        BY <3>7, <3>8, <2>3
      <4> QED
        BY <4>1, <4>2, <3>12, LocalStep
    <3> QED
      BY <3>13, <2>2
  <2>8. CASE ~enabled(l)
    <3> DEFINE m2 == [os |-> "nullopt", text |-> <<>>, temporary |-> TRUE]
    <3>1. msg' = [msg EXCEPT ![w] = m2] /\ written' = [written EXCEPT ![w] = @]
      BY <1>1, <2>8 DEF Construct
    <3>2. m2 \in Msg
      BY <1>e
    <3>3. m2.text = <<>> /\ m2.os = "nullopt"
      OBVIOUS
    <3> HIDE DEF m2, Msg
    <3>4. msg' \in [Writers -> Msg] /\ msg'[w] = m2 /\ \A v \in Writers \ {w} : msg'[v] = msg[v]
      BY <3>1, <3>2, <1>t
    <3>5. written' = written
      BY <3>1, <1>t
    <3>6. OwnText(w, m2, made'[w])
      BY <3>3, <1>own
    <3>7. Unsent(w, m2, made'[w], out)
      BY <3>3, <2>3, <2>6 DEF Unsent
    <3>8. LogTyped(msg', made', written', out)
      BY <3>4, <3>5, <2>3, <1>t DEF LogTyped, Msg
    <3>9. Kept(w, msg'[w].text, written'[w], out)
      BY <3>3, <3>4, <3>5, <2>4, <1>w
    <3>10. PoolLog(msg', made', written', out)
      BY <3>4, <3>5, <3>6, <3>7, <3>8, <3>9, <2>3, LocalStep
    <3> QED
      BY <3>10, <2>2
  <2> QED
    BY <2>7, <2>8
<1>2. ASSUME Insert(w)
      PROVE  PoolLog(msg', made', written', out')
  <2> DEFINE piece == <<w, made[w], Len(msg[w].text)>>
  <2>1. piece \in Entry /\ piece[1] = w /\ piece[2] = made[w]
    BY <1>u DEF Entry
  <2>2. /\ out' = out /\ made' = made /\ msg[w].os = "cerr"
        /\ msg' = [msg EXCEPT ![w].text = Append(@, piece)]
        /\ written' = [written EXCEPT ![w] = Append(@, piece)]
    BY <1>2 DEF Insert
  <2> HIDE DEF piece
  <2> DEFINE text == Append(msg[w].text, piece)
  <2>3. /\ text \in Seq(Entry) /\ Len(text) = Len(msg[w].text) + 1
        /\ text[Len(msg[w].text) + 1] = piece
        /\ \A k \in 1 .. Len(msg[w].text) : text[k] = msg[w].text[k]
    BY <1>u, <2>1
  <2>4. Append(written[w], piece) \in Seq(Entry)
    BY <1>u, <2>1
  <2>5. Kept(w, text, Append(written[w], piece), out)
    BY <1>t, <1>u, <1>w, <2>1, KeptInsert
  <2> HIDE DEF text
  <2>6. msg' = [msg EXCEPT ![w] = [msg[w] EXCEPT !.text = text]]
    BY <2>2, <1>t DEF text
  <2>7. /\ [msg[w] EXCEPT !.text = text] \in Msg
        /\ [msg[w] EXCEPT !.text = text].text = text
        /\ [msg[w] EXCEPT !.text = text].os = "cerr"
    BY <1>u, <2>2, <2>3
  <2> HIDE DEF Msg
  <2>8. /\ msg' \in [Writers -> Msg] /\ msg'[w] = [msg[w] EXCEPT !.text = text]
        /\ \A v \in Writers \ {w} : msg'[v] = msg[v]
    BY <2>6, <2>7, <1>t
  <2>9. msg'[w].text = text /\ msg'[w].os = "cerr"
    BY <2>7, <2>8
  <2>10. written' \in [Writers -> Seq(Entry)] /\ written'[w] = Append(written[w], piece)
         /\ \A v \in Writers \ {w} : written'[v] = written[v]
    BY <2>2, <2>4, <1>t
  <2>11. OwnText(w, msg'[w], made[w])
    <3>1. Len(msg[w].text) \in Nat
      BY <1>u
    <3>2. \A k \in 1 .. Len(msg[w].text) : text[k][1] = w /\ text[k][2] = made[w]
      BY <2>3, <1>w DEF OwnText
    <3>3. text[Len(msg[w].text) + 1][1] = w /\ text[Len(msg[w].text) + 1][2] = made[w]
      BY <2>1, <2>3
    <3>4. \A k \in 1 .. Len(text) :
            k \in 1 .. Len(msg[w].text) \/ k = Len(msg[w].text) + 1
      BY <2>3, <3>1
    <3> QED
      BY <2>9, <3>2, <3>3, <3>4, Zenon DEF OwnText
  <2>12. Unsent(w, msg'[w], made[w], out)
    BY <2>2, <1>w DEF Unsent
  <2>13. LogTyped(msg', made, written', out)
    BY <2>8, <2>10, <1>t DEF LogTyped, Msg
  <2>14. PoolLog(msg', made, written', out)
    <3>1. Kept(w, msg'[w].text, written'[w], out)
      BY <2>5, <2>9, <2>10
    <3>2. \A v \in Writers \ {w} :
            msg'[v] = msg[v] /\ made[v] = made[v] /\ written'[v] = written[v]
      BY <2>8, <2>10
    <3> QED
      BY <3>1, <3>2, <2>11, <2>12, <2>13, LocalStep
  <2> QED
    BY <2>14, <2>2
<1>3. ASSUME InsertThrows(w)
      PROVE  PoolLog(msg', made', written', out')
  <2> DEFINE m2 == [msg[w] EXCEPT !.os = "nullopt", !.text = <<>>]
  <2>1. /\ made' = made /\ written' = written /\ msg[w].os = "cerr"
        /\ out' = out \o msg[w].text
        /\ msg' = [msg EXCEPT ![w].os = "nullopt", ![w].text = <<>>]
    BY <1>3 DEF InsertThrows
  <2>2. msg' = [msg EXCEPT ![w] = m2]
    BY <2>1, <1>t
  <2>3. m2 \in Msg /\ m2.os = "nullopt" /\ m2.text = <<>>
    BY <1>u, <1>e
  <2> HIDE DEF m2, Msg
  <2>4. msg' \in [Writers -> Msg] /\ msg'[w] = m2 /\ \A v \in Writers \ {w} : msg'[v] = msg[v]
    BY <2>2, <2>3, <1>t
  <2>5. LogTyped(msg', made, written, out)
    BY <2>4, <1>t DEF LogTyped, Msg
  <2>6. \A k \in 1 .. Len(msg[w].text) : msg[w].text[k][1] = w /\ msg[w].text[k][2] = made[w]
    BY <1>w DEF OwnText
  <2>7. PoolLog(msg', made, written, out \o msg[w].text)
    BY <2>1, <2>3, <2>4, <2>5, <2>6, <1>u, <1>w, FlushStep
  <2> QED
    BY <2>7, <2>1
<1>4. ASSUME Move(w)
      PROVE  PoolLog(msg', made', written', out')
  <2> DEFINE m2 == [msg[w] EXCEPT !.temporary = FALSE]
  <2>1. /\ made' = made /\ written' = written
        /\ out' = out \o destroyed(w, moved_from(msg[w]))
        /\ msg' = [msg EXCEPT ![w] = m2]
    BY <1>4, <1>t DEF Move
  <2>2. moved_from(msg[w]).os # "cerr"
    BY <1>u DEF moved_from
  <2>3. out' = out
    BY <2>1, <2>2, <1>t DEF destroyed
  <2>4. m2 \in Msg /\ m2.os = msg[w].os /\ m2.text = msg[w].text
    BY <1>u
  <2> HIDE DEF m2, Msg
  <2>5. msg' \in [Writers -> Msg] /\ msg'[w] = m2 /\ \A v \in Writers \ {w} : msg'[v] = msg[v]
    BY <2>1, <2>4, <1>t
  <2>6. LogTyped(msg', made, written, out)
    BY <2>5, <1>t DEF LogTyped, Msg
  <2>7. Kept(w, m2.text, written[w], out) /\ OwnText(w, m2, made[w])
        /\ Unsent(w, m2, made[w], out)
    BY <2>4, <1>w DEF OwnText, Unsent
  <2>8. PoolLog(msg', made, written, out)
    <3>1. \A v \in Writers \ {w} :
            msg'[v] = msg[v] /\ made[v] = made[v] /\ written[v] = written[v]
      BY <2>5
    <3>2. Kept(w, msg'[w].text, written[w], out) /\ OwnText(w, msg'[w], made[w])
          /\ Unsent(w, msg'[w], made[w], out)
      BY <2>5, <2>7
    <3> QED
      BY <3>1, <3>2, <2>6, LocalStep
  <2> QED
    BY <2>8, <2>1, <2>3
<1>5. ASSUME Destroy(w)
      PROVE  PoolLog(msg', made', written', out')
  <2>1. made' = made /\ msg' = [msg EXCEPT ![w] = NoMsg]
    BY <1>5 DEF Destroy
  <2>2. NoMsg \in Msg /\ NoMsg.os = "none" /\ NoMsg.text = <<>>
    BY <1>e DEF NoMsg
  <2> HIDE DEF Msg
  <2>3. msg' \in [Writers -> Msg] /\ msg'[w] = NoMsg /\ \A v \in Writers \ {w} : msg'[v] = msg[v]
    BY <2>1, <2>2, <1>t
  <2>4. CASE msg[w].os = "cerr"
    <3> DEFINE end == <<w, made[w], "endl">>
               b == Append(msg[w].text, end)
    <3>1. out' = out \o b /\ written' = [written EXCEPT ![w] = Append(@, end)]
      BY <1>5, <2>4 DEF Destroy, destroyed
    <3>2. end \in Entry /\ end[1] = w /\ end[2] = made[w]
      BY <1>u DEF Entry
    <3> HIDE DEF end
    <3>3. /\ b \in Seq(Entry) /\ Len(b) = Len(msg[w].text) + 1
          /\ b[Len(msg[w].text) + 1] = end
          /\ \A k \in 1 .. Len(msg[w].text) : b[k] = msg[w].text[k]
      BY <1>u, <3>2
    <3>4. Append(written[w], end) \in Seq(Entry)
      BY <1>u, <3>2
    <3>5. Kept(w, b, Append(written[w], end), out)
      BY <1>t, <1>u, <1>w, <3>2, KeptInsert
    <3> HIDE DEF b
    <3>6. written' \in [Writers -> Seq(Entry)] /\ written'[w] = Append(written[w], end)
          /\ \A v \in Writers \ {w} : written'[v] = written[v]
      BY <3>1, <3>4, <1>t
    <3>7. \A k \in 1 .. Len(b) : b[k][1] = w /\ b[k][2] = made[w]
      <4>1. \A k \in 1 .. Len(msg[w].text) : b[k][1] = w /\ b[k][2] = made[w]
        BY <3>3, <1>w DEF OwnText
      <4> TAKE k \in 1 .. Len(b)
      <4>2. k \in 1 .. Len(msg[w].text) \/ k = Len(msg[w].text) + 1
        BY <3>3, <1>u
      <4> QED
        BY <4>1, <4>2, <3>2, <3>3
    <3>8. LogTyped(msg', made, written', out)
      BY <2>3, <3>6, <1>t DEF LogTyped, Msg
    <3>9. PoolLog(msg', made, written', out \o b)
      BY <2>2, <2>3, <2>4, <3>3, <3>5, <3>6, <3>7, <3>8, FlushStep
    <3> QED
      BY <3>9, <3>1, <2>1
  <2>5. CASE msg[w].os # "cerr"
    <3>1. out' = out \o <<>> /\ written' = [written EXCEPT ![w] = @]
      BY <1>5, <2>5 DEF Destroy, destroyed
    <3>2. out' = out
      BY <3>1, <1>t
    <3>3. written' = written
      BY <3>1, <1>t
    <3>4. msg[w].text = <<>>
      BY <2>5, <1>w DEF OwnText
    <3>5. Kept(w, NoMsg.text, written[w], out)
      BY <3>4, <2>2, <1>w
    <3>6. OwnText(w, NoMsg, made[w])
      BY <2>2, <1>own
    <3>7. Unsent(w, NoMsg, made[w], out)
      BY <2>2, <1>w DEF Unsent
    <3>8. LogTyped(msg', made, written, out)
      BY <2>3, <1>t DEF LogTyped, Msg
    <3>9. PoolLog(msg', made, written, out)
      <4>1. \A v \in Writers \ {w} :
              msg'[v] = msg[v] /\ made[v] = made[v] /\ written[v] = written[v]
        BY <2>3
      <4>2. Kept(w, msg'[w].text, written[w], out) /\ OwnText(w, msg'[w], made[w])
            /\ Unsent(w, msg'[w], made[w], out)
        BY <2>3, <3>5, <3>6, <3>7
      <4> QED
        BY <4>1, <4>2, <3>8, LocalStep
    <3> QED
      BY <3>9, <3>2, <3>3, <2>1
  <2> QED
    BY <2>4, <2>5
<1> QED
  BY <1>1, <1>2, <1>3, <1>4, <1>5 DEF WriterStep

------------------------------------------------------------------------------
(* Databases of the threads                                                *)

\* Every thread shares the db_sync_t of the first.
Shared(s) ==
    \A t \in DOMAIN s :
        /\ s[t].opened = Databases
        /\ \A d \in Databases : s[t].sync[d] # 0 /\ s[t].sync[d] = s[1].sync[d]

\* When the last thread is ready, all of them are.
LEMMA AllReady ==
    ASSUME Opened(dbs), ThreadReady
    PROVE  Shared(dbs)
<1>1. dbs \in Seq(Thread) /\ Len(dbs) \in Nat /\ DOMAIN dbs = 1 .. Len(dbs)
  BY DEF Opened
<1>2. ASSUME NEW t \in 1 .. Len(dbs)
      PROVE  Complete(dbs[t])
  <2>1. CASE t < Len(dbs)
    BY <2>1 DEF Opened
  <2>2. CASE t = Len(dbs)
    BY <2>2, <1>1 DEF ThreadReady, Unprepared, Last, Complete
  <2>3. t < Len(dbs) \/ t = Len(dbs)
    <3>1. Len(dbs) \in Nat
      BY <1>1
    <3> QED
      BY <3>1
  <2> QED
    BY <2>1, <2>2, <2>3, Zenon
<1> QED
  BY <1>1, <1>2 DEF Opened, Shared, Complete

\* A new thread is added when the others are complete.
LEMMA NextThreadOpens ==
    ASSUME Opened(dbs), NextThread
    PROVE  Opened(dbs')
<1> DEFINE new == [opened |-> {}, sync |-> [d \in Databases |-> 0]]
<1>1. Shared(dbs) /\ dbs' = Append(dbs, new)
  BY AllReady DEF NextThread
<1>2. dbs \in Seq(Thread) /\ Len(dbs) \in Nat /\ DOMAIN dbs = 1 .. Len(dbs)
  BY DEF Opened
<1>3. new \in Thread /\ \A d \in Databases : new.sync[d] = 0
  BY DEF Thread
<1> HIDE DEF new
<1>4. /\ dbs' \in Seq(Thread) /\ Len(dbs') = Len(dbs) + 1 /\ dbs'[Len(dbs) + 1] = new
      /\ \A t \in 1 .. Len(dbs) : dbs'[t] = dbs[t]
  BY <1>1, <1>2, <1>3
<1>5. ASSUME NEW t \in 1 .. Len(dbs'), t < Len(dbs')
      PROVE  Complete(dbs'[t])
  <2>1. t \in 1 .. Len(dbs)
    BY <1>5, <1>2, <1>4
  <2> QED
    BY <2>1, <1>1, <1>2, <1>4 DEF Shared, Complete
<1>6. ASSUME NEW t \in 1 .. Len(dbs'), NEW d \in Databases, dbs'[t].sync[d] # 0
      PROVE  dbs'[t].sync[d] = dbs'[1].sync[d]
  <2>1. t # Len(dbs) + 1
    BY <1>6, <1>3, <1>4
  <2>2. t \in 1 .. Len(dbs) /\ 1 \in 1 .. Len(dbs)
    BY <2>1, <1>2, <1>4
  <2> QED
    BY <2>2, <1>1, <1>2, <1>4 DEF Shared
<1> QED
  BY <1>4, <1>5, <1>6 DEF Opened

\* A change of the last thread that keeps it a thread and gives no database
\* another db_sync_t than that of the first
LEMMA LastChanges ==
    ASSUME NEW s, NEW s2, Opened(s), s # <<>>, NEW new \in Thread,
           s2 = [s EXCEPT ![Len(s)] = new],
           Len(s) = 1 \/ \A d \in Databases :
                            new.sync[d] # 0 => new.sync[d] = s[1].sync[d]
    PROVE  Opened(s2)
<1> DEFINE n == Len(s)
<1>1. s \in Seq(Thread) /\ n \in Nat /\ n # 0
  BY DEF Opened
<1>2. s2 \in Seq(Thread) /\ Len(s2) = n /\ s2[n] = new
  BY <1>1
<1>3. \A t \in 1 .. n : t # n => s2[t] = s[t]
  BY <1>1
<1>4. \A t \in 1 .. n : t < n => Complete(s[t])
  BY DEF Opened
<1>5. \A t \in 1 .. n : \A d \in Databases :
         s[t].sync[d] # 0 => s[t].sync[d] = s[1].sync[d]
  BY DEF Opened
<1> HIDE DEF n
<1>6. ASSUME NEW t \in 1 .. n, t < n
      PROVE  Complete(s2[t])
  <2>1. t # n
    BY <1>6, <1>1
  <2> QED
    BY <2>1, <1>6, <1>3, <1>4
<1>7. ASSUME NEW t \in 1 .. n, NEW d \in Databases, s2[t].sync[d] # 0
      PROVE  s2[t].sync[d] = s2[1].sync[d]
  <2>1. CASE n = 1
    <3>1. t = 1
      BY <2>1
    <3> QED
      BY <3>1
  <2>2. CASE n # 1
    <3>1. 1 \in 1 .. n /\ s2[1] = s[1]
      BY <2>2, <1>1, <1>3
    <3>2. CASE t = n
      BY <3>1, <3>2, <2>2, <1>2, <1>7 DEF n
    <3>3. CASE t # n
      BY <3>1, <3>3, <1>3, <1>5, <1>7
    <3> QED
      BY <3>2, <3>3
  <2> QED
    BY <2>1, <2>2
<1>8. \A t \in 1 .. Len(s2) : t < Len(s2) => Complete(s2[t])
  BY <1>2, <1>6
<1>9. \A t \in 1 .. Len(s2) : \A d \in Databases :
         s2[t].sync[d] # 0 => s2[t].sync[d] = s2[1].sync[d]
  BY <1>2, <1>7
<1> QED
  BY <1>2, <1>8, <1>9, Zenon DEF Opened

\* open_db() adds a database to the last thread.
LEMMA OpenDatabaseOpens ==
    ASSUME NEW d \in Databases, Opened(dbs), OpenDatabase(d)
    PROVE  Opened(dbs')
<1> DEFINE last == dbs[Len(dbs)]
           new == [last EXCEPT !.opened = @ \cup {d}]
<1>1. dbs # <<>> /\ dbs \in Seq(Thread) /\ Len(dbs) \in Nat \ {0}
  BY DEF Opened, OpenDatabase, Opening
<1>2. last \in Thread
  BY <1>1
<1>3. new \in Thread /\ new.sync = last.sync
  BY <1>2 DEF Thread
<1>4. dbs' = [dbs EXCEPT ![Len(dbs)] = new]
  BY <1>1 DEF OpenDatabase
<1>5. \A e \in Databases : last.sync[e] # 0 => last.sync[e] = dbs[1].sync[e]
  BY <1>1 DEF Opened
<1> HIDE DEF new, last
<1>6. \A e \in Databases : new.sync[e] # 0 => new.sync[e] = dbs[1].sync[e]
  BY <1>3, <1>5
<1> QED
  BY <1>1, <1>3, <1>4, <1>6, LastChanges

\* Preparing the queries of a database gives it the db_sync_t of the first
\* thread, or makes it there.
LEMMA PrepareQueriesOpens ==
    ASSUME NEW d \in Databases, Opened(dbs), PrepareQueries(d)
    PROVE  Opened(dbs')
<1> DEFINE last == dbs[Len(dbs)]
           new == [last EXCEPT !.sync = [last.sync EXCEPT ![d] = new_sync(d)]]
<1>1. dbs # <<>> /\ dbs \in Seq(Thread) /\ Len(dbs) \in Nat \ {0}
  BY DEF Opened, PrepareQueries, Preparing
<1>2. last \in Thread /\ dbs[1] \in Thread
  BY <1>1
<1>3. new_sync(d) \in Nat
  BY <1>2 DEF new_sync, Thread
<1>4. [last.sync EXCEPT ![d] = new_sync(d)] \in [Databases -> Nat]
  BY <1>2, <1>3 DEF Thread
<1>5. new \in Thread /\ new.sync = [last.sync EXCEPT ![d] = new_sync(d)]
  BY <1>2, <1>4 DEF Thread
<1>6. /\ new.sync[d] = new_sync(d)
      /\ \A e \in Databases : e # d => new.sync[e] = last.sync[e]
  BY <1>2, <1>5 DEF Thread
<1>7. dbs' = [dbs EXCEPT ![Len(dbs)] = new]
  BY <1>1 DEF PrepareQueries
<1>8. \A e \in Databases : last.sync[e] # 0 => last.sync[e] = dbs[1].sync[e]
  BY <1>1 DEF Opened
<1> HIDE DEF new, last
<1>9. Len(dbs) = 1 \/ \A e \in Databases :
                         new.sync[e] # 0 => new.sync[e] = dbs[1].sync[e]
  BY <1>6, <1>8 DEF new_sync
<1> QED
  BY <1>1, <1>5, <1>7, <1>9, LastChanges

------------------------------------------------------------------------------
(* The main thread                                                         *)

Lines(texts) == [i \in DOMAIN texts |-> <<"main", i, texts[i]>>]

\* Messages of the main thread keep the log its own, and all of them are there,
\* as well as those before.
LEMMA SayAppends ==
    ASSUME NEW o \in Seq(MainEntry), NEW texts \in Seq(Texts)
    PROVE  /\ o \o Lines(texts) \in Seq(MainEntry)
           /\ \A k \in 1 .. Len(texts) : Said(texts[k], o \o Lines(texts))
           /\ \A c : Said(c, o) => Said(c, o \o Lines(texts))
<1> DEFINE b == Lines(texts)
           o2 == o \o b
<1>1. /\ Len(texts) \in Nat /\ DOMAIN texts = 1 .. Len(texts)
      /\ \A i \in 1 .. Len(texts) : texts[i] \in Texts
  OBVIOUS
<1>2. \A i \in 1 .. Len(texts) : <<"main", i, texts[i]>> \in MainEntry
  BY <1>1 DEF MainEntry
<1>3. b \in Seq(MainEntry) /\ Len(b) = Len(texts)
  BY <1>1, <1>2 DEF Lines
<1>4. \A i \in 1 .. Len(texts) : b[i][1] = "main" /\ b[i][3] = texts[i]
  BY <1>1 DEF Lines
<1> HIDE DEF b
<1>5. /\ o2 \in Seq(MainEntry) /\ Len(o2) = Len(o) + Len(b)
      /\ DOMAIN o2 = 1 .. Len(o) + Len(b)
      /\ DOMAIN o = 1 .. Len(o) /\ Len(o) \in Nat
  BY <1>3
<1>6. \A i \in 1 .. Len(o) : o2[i] = o[i]
  BY <1>3
<1>7. \A i \in 1 .. Len(b) : o2[Len(o) + i] = b[i]
  BY <1>3
<1> HIDE DEF o2
<1>8. ASSUME NEW k \in 1 .. Len(texts)
      PROVE  Said(texts[k], o2)
  <2>1. Len(o) + k \in DOMAIN o2
    BY <1>1, <1>3, <1>5
  <2>2. o2[Len(o) + k][1] = "main" /\ o2[Len(o) + k][3] = texts[k]
    BY <1>3, <1>4, <1>7
  <2> QED
    BY <2>1, <2>2 DEF Said
<1>9. ASSUME NEW c, Said(c, o)
      PROVE  Said(c, o2)
  <2>1. PICK i \in DOMAIN o : o[i][1] = "main" /\ o[i][3] = c
    BY <1>9 DEF Said
  <2>2. i \in DOMAIN o2 /\ o2[i] = o[i]
    BY <1>1, <1>3, <1>5, <1>6
  <2> QED
    BY <2>1, <2>2 DEF Said
<1> QED
  BY <1>5, <1>8, <1>9 DEF o2, b

\* Something fails before the application runs: it is reported.
LEMMA FailStep ==
    ASSUME IInv, main \in Early, NEW what, what # "none",
           NEW texts \in Seq(Texts), NEW k \in 1 .. Len(texts), texts[k] = what,
           NEW l \in {log_levels.emerg, log_levels.crit}, say(l, texts),
           cause' = what, main' \in {"finish", "exit"}, UNCHANGED <<cfg, dbs, result>>,
           what = "exception" => cout'
    PROVE  IInv'
<1>1. /\ out = <<>> /\ Idle(msg, written) /\ result = "EXIT_FAILURE" /\ level \in Int
      /\ Opened(dbs)
  BY DEF IInv, Control
<1>2. level' = level /\ msg' = msg /\ made' = made /\ written' = written
  BY DEF say
<1>3. out' = IF enabled(l) THEN out \o Lines(texts) ELSE out
  BY DEF say, Lines
<1>4. out \in Seq(MainEntry)
  BY <1>1
<1>5. out' \in Seq(MainEntry) /\ (enabled(l) => Said(what, out'))
  BY <1>3, <1>4, SayAppends
<1>6. Log'
  BY <1>1, <1>2, <1>5 DEF Log, MainLog
<1>7. Control'
  BY <1>1, <1>2 DEF Control, States, Early
<1>8. Reported'
  <2>1. level >= log_levels.crit => enabled(l)
    BY <1>1 DEF enabled, log_levels
  <2>2. level' >= log_levels.crit => Said(cause', out')
    BY <2>1, <1>2, <1>5
  <2>3. cause' # "none" /\ result' # "EXIT_SUCCESS" /\ (cause' = "exception" => cout')
    BY <1>1
  <2> QED
    BY <2>2, <2>3 DEF Reported
<1>9. Opened(dbs') /\ DatabasesReady'
  BY <1>1 DEF DatabasesReady
<1> QED
  BY <1>6, <1>7, <1>8, <1>9 DEF IInv

\* fail() is such a step.
LEMMA FailKeeps ==
    ASSUME IInv, main \in Early, NEW what, what \notin {"none", "exception"},
           NEW texts \in Seq(Texts), NEW k \in 1 .. Len(texts), texts[k] = what,
           fail(what, texts)
    PROVE  IInv'
<1>1. /\ say(log_levels.crit, texts) /\ cause' = what /\ main' = "finish"
      /\ UNCHANGED <<cfg, dbs, result>>
  BY DEF fail
<1> QED
  BY <1>1, FailStep

\* A step of main() that neither fails nor ends
LEMMA MainStep ==
    ASSUME IInv, main \in Early, main' \in Early \cup {"running"}, level' \in Int,
           UNCHANGED <<cause, result, cout, msg, made, written, out>>,
           Opened(dbs'), DatabasesReady'
    PROVE  IInv'
<1>1. /\ out = <<>> /\ Idle(msg, written) /\ cause = "none"
      /\ result = "EXIT_FAILURE" /\ PoolLog(msg, made, written, out)
  BY DEF IInv, Control, Log
<1>2. Log'
  BY <1>1 DEF Log
<1>3. Control'
  BY <1>1 DEF Control, States, Early
<1>4. Reported'
  BY DEF Reported, Early
<1> QED
  BY <1>2, <1>3, <1>4 DEF IInv

------------------------------------------------------------------------------
(* The invariant                                                           *)

\* It holds when the program starts.
LEMMA Initial == Init => IInv
<1> SUFFICES ASSUME Init PROVE IInv
  OBVIOUS
<1>1. /\ out = <<>> /\ msg = [w \in Writers |-> NoMsg] /\ made = [w \in Writers |-> 0]
      /\ written = [w \in Writers |-> <<>>] /\ level = 6
      /\ main = "begin" /\ dbs = <<>> /\ cause = "none" /\ result = "EXIT_FAILURE"
  BY DEF Init, LogInit, log_levels
<1>2. Idle(msg, written)
  BY <1>1 DEF Idle
<1>3. Len(<<>>) = 0
  OBVIOUS
<1>4. <<>> \in Seq(Entry)
  OBVIOUS
<1>5. <<>> \in Seq(Thread)
  OBVIOUS
<1>6. Len(out) = 0 /\ Len(dbs) = 0
  BY <1>1, <1>3
<1>7. LogTyped(msg, made, written, out)
  <2>1. NoMsg \in [os : {"none", "cerr", "nullopt"}, text : Seq(Entry), temporary : BOOLEAN]
    BY <1>4 DEF NoMsg
  <2> QED
    BY <2>1, <1>1, <1>4 DEF LogTyped
<1>8. ASSUME NEW w \in Writers
      PROVE  /\ Kept(w, msg[w].text, written[w], out) /\ OwnText(w, msg[w], made[w])
             /\ Unsent(w, msg[w], made[w], out)
  <2>1. msg[w].text = <<>> /\ written[w] = <<>>
    BY <1>1 DEF NoMsg
  <2>2. Len(msg[w].text) = 0 /\ Len(written[w]) = 0
    BY <2>1, <1>3
  <2>3. Places(out, w, Len(out)) = {} /\ Count(out, w, Len(out)) = 0
    BY <1>6, CountNone DEF Places
  <2>4. Kept(w, msg[w].text, written[w], out)
    BY <2>2, <2>3 DEF Kept
  <2>5. OwnText(w, msg[w], made[w])
    BY <2>1, <2>2 DEF OwnText
  <2>6. Unsent(w, msg[w], made[w], out)
    BY <2>3 DEF Unsent
  <2> QED
    BY <2>4, <2>5, <2>6
<1>9. Unmixed(out)
  BY <1>6 DEF Unmixed
<1>10. Log
  BY <1>1, <1>7, <1>8, <1>9 DEF Log, PoolLog
<1>11. Control
  BY <1>1, <1>2 DEF Control, States, Early
<1>12. Opened(dbs)
  BY <1>1, <1>5, <1>6 DEF Opened
<1> QED
  BY <1>1, <1>10, <1>11, <1>12 DEF IInv, Reported, DatabasesReady

\* Every step keeps it.
LEMMA Inductive == IInv /\ [Next]_vars => IInv'
<1> SUFFICES ASSUME IInv, [Next]_vars PROVE IInv'
  OBVIOUS
<1>t. /\ level \in Int /\ Opened(dbs) /\ main \in States
      /\ main = "running" => cause = "none" /\ result = "EXIT_FAILURE"
      /\ cause = "none" => PoolLog(msg, made, written, out)
      /\ cause # "none" => MainLog(msg, written, out)
      /\ DatabasesReady /\ Reported
  BY DEF IInv, Control, Log
<1>0. CASE UNCHANGED vars
  <2>1. /\ cfg' = cfg /\ main' = main /\ dbs' = dbs /\ cause' = cause /\ result' = result
        /\ cout' = cout /\ level' = level /\ msg' = msg /\ made' = made
        /\ written' = written /\ out' = out
    BY <1>0 DEF vars, startVars, logVars
  <2> QED
    BY <2>1 DEF IInv, Log, Control, Reported, DatabasesReady, database_threads
<1>1. CASE Usage
  <2>1. <<"usage">> \in Seq(Texts) /\ 1 \in 1 .. Len(<<"usage">>) /\ <<"usage">>[1] = "usage"
    BY DEF Texts
  <2>2. /\ main \in Early /\ say(log_levels.crit, <<"usage">>) /\ cause' = "usage"
        /\ main' = "finish" /\ UNCHANGED <<cfg, dbs, result>>
    BY <1>1 DEF Usage, Early
  <2> QED
    BY <2>1, <2>2, FailStep
<1>2. CASE CommandLine
  <2>1. main \in Early /\ main' \in Early /\ level' = level /\ dbs' = dbs /\ main' = "read"
        /\ UNCHANGED <<cause, result, cout, msg, made, written, out>>
    BY <1>2 DEF CommandLine, Early, logVars
  <2> QED
    BY <2>1, <1>t, MainStep DEF DatabasesReady
<1>3. CASE ReadFails
  <2>1. PICK what \in {"open", "not_to_the_end", "parse"} : fail(what, <<what>>)
    BY <1>3 DEF ReadFails, ReadError
  <2>2. <<what>> \in Seq(Texts) /\ 1 \in 1 .. Len(<<what>>) /\ <<what>>[1] = what
    <3>1. what \in Texts
      BY DEF Texts
    <3> QED
      BY <3>1
  <2>3. main \in Early /\ what \notin {"none", "exception"}
    BY <1>3 DEF ReadFails, Early
  <2> QED
    BY <2>1, <2>2, <2>3, FailKeeps
<1>4. CASE Refuse
  <2> DEFINE n == Cardinality(Complaints(cfg))
             texts == [i \in 1 .. n |-> "invalid"]
  <2>1. n \in Nat /\ n # 0
    <3> DEFINE all == {"level", "threads", "port", "idle_timeout", "keepalive_timeout"}
    <3>1. IsFiniteSet(all)
      <4>1. IsFiniteSet({"level"})
        BY FS_Singleton
      <4>2. IsFiniteSet({"level"} \cup {"threads"})
        BY <4>1, FS_AddElement
      <4>3. IsFiniteSet(({"level"} \cup {"threads"}) \cup {"port"})
        BY <4>2, FS_AddElement
      <4>4. IsFiniteSet((({"level"} \cup {"threads"}) \cup {"port"}) \cup {"idle_timeout"})
        BY <4>3, FS_AddElement
      <4>5. IsFiniteSet(((({"level"} \cup {"threads"}) \cup {"port"}) \cup {"idle_timeout"})
                        \cup {"keepalive_timeout"})
        BY <4>4, FS_AddElement
      <4>6. all = ((({"level"} \cup {"threads"}) \cup {"port"}) \cup {"idle_timeout"})
                  \cup {"keepalive_timeout"}
        OBVIOUS
      <4> QED
        BY <4>5, <4>6
    <3>2. Complaints(cfg) \subseteq all
      BY DEF Complaints
    <3> HIDE DEF all
    <3>3. IsFiniteSet(Complaints(cfg))
      BY <3>1, <3>2, FS_Subset
    <3>4. Complaints(cfg) # {}
      BY <1>4 DEF Refuse, validate
    <3> QED
      BY <3>3, <3>4, FS_EmptySet, FS_CardinalityType
  <2>2. main \in Early /\ fail("invalid", texts)
    BY <1>4 DEF Refuse, Early
  <2> HIDE DEF n
  <2>3. texts \in Seq(Texts) /\ Len(texts) = n /\ texts[1] = "invalid" /\ 1 \in 1 .. Len(texts)
    <3>1. "invalid" \in Texts
      BY DEF Texts
    <3> QED
      BY <3>1, <2>1
  <2> HIDE DEF texts
  <2> QED
    BY <2>2, <2>3, FailKeeps
<1>5. CASE ReadConfiguration
  <2>1. main \in Early /\ main' \in Early /\ level' = level /\ dbs' = dbs /\ main' = "level"
        /\ UNCHANGED <<cause, result, cout, msg, made, written, out>>
    BY <1>5 DEF ReadConfiguration, Early, logVars
  <2> QED
    BY <2>1, <1>t, MainStep DEF DatabasesReady
<1>6. CASE SetLevel
  <2>1. main \in Early /\ main' \in Early /\ dbs' = dbs /\ main' = "open"
        /\ UNCHANGED <<cause, result, cout, msg, made, written, out>>
        /\ level' = IF get_log_level(cfg) = None THEN level ELSE get_log_level(cfg)
    BY <1>6 DEF SetLevel, Early
  <2>2. get_log_level(cfg) = None \/ get_log_level(cfg) \in Int
    BY DEF get_log_level, LevelRefused, valid_level
  <2>3. level' \in Int
    BY <2>1, <2>2, <1>t
  <2> QED
    BY <2>1, <2>3, <1>t, MainStep DEF DatabasesReady
<1>7. CASE NextThread
  <2>1. main \in Early /\ main' = main /\ level' = level /\ main' = "open"
        /\ UNCHANGED <<cause, result, cout, msg, made, written, out>>
    BY <1>7 DEF NextThread, Early, logVars
  <2> QED
    BY <2>1, <1>7, <1>t, NextThreadOpens, MainStep DEF DatabasesReady
<1>8. CASE DbRunEnds
  <2>1. main \in Early /\ main' \in Early /\ level' = level /\ dbs' = dbs /\ cfg' = cfg
        /\ UNCHANGED <<cause, result, cout, msg, made, written, out>>
        /\ ThreadReady /\ Len(dbs) = database_threads
    BY <1>8 DEF DbRunEnds, Early, logVars
  <2>2. Shared(dbs)
    BY <2>1, <1>t, AllReady
  <2>3. DatabasesReady'
    BY <2>1, <2>2 DEF DatabasesReady, Shared, database_threads
  <2> QED
    BY <2>1, <2>3, <1>t, MainStep
<1>9. ASSUME NEW d \in Databases, DatabaseStep(d)
      PROVE  IInv'
  <2>1. CASE OpenDatabase(d)
    <3>1. main \in Early /\ main' = main /\ level' = level /\ main' = "open"
          /\ UNCHANGED <<cause, result, cout, msg, made, written, out>>
      BY <2>1 DEF OpenDatabase, Opening, Early, logVars
    <3> QED
      BY <3>1, <2>1, <1>t, OpenDatabaseOpens, MainStep DEF DatabasesReady
  <2>2. CASE PrepareQueries(d)
    <3>1. main \in Early /\ main' = main /\ level' = level /\ main' = "open"
          /\ UNCHANGED <<cause, result, cout, msg, made, written, out>>
      BY <2>2 DEF PrepareQueries, Preparing, Early, logVars
    <3> QED
      BY <3>1, <2>2, <1>t, PrepareQueriesOpens, MainStep DEF DatabasesReady
  <2>3. CASE OpenFails(d) \/ PrepareFails(d)
    <3> DEFINE texts == <<"databases", "db_server">>
    <3>1. main \in Early /\ fail("databases", texts)
      BY <2>3 DEF OpenFails, PrepareFails, Opening, Preparing, sqlite_error, Early
    <3>2. texts \in Seq(Texts) /\ 1 \in 1 .. Len(texts) /\ texts[1] = "databases"
      BY DEF Texts
    <3> HIDE DEF texts
    <3> QED
      BY <3>1, <3>2, FailKeeps
  <2> QED
    BY <1>9, <2>1, <2>2, <2>3 DEF DatabaseStep
<1>10. CASE HttpRun
  <2>1. main = "http_run" /\ main' = "running" /\ level' = level /\ dbs' = dbs /\ cfg' = cfg
        /\ UNCHANGED <<cause, result, cout, msg, made, written, out>>
    BY <1>10 DEF HttpRun, logVars
  <2>2. main \in Early
    BY <2>1 DEF Early
  <2>3. DatabasesReady'
    BY <2>1, <1>t DEF DatabasesReady, database_threads
  <2> QED
    BY <2>1, <2>2, <2>3, <1>t, MainStep
<1>11. CASE HttpRunFails
  <2> DEFINE texts == <<"listen", "http_server">>
  <2>1. main \in Early /\ fail("listen", texts)
    BY <1>11 DEF HttpRunFails, Early
  <2>2. texts \in Seq(Texts) /\ 1 \in 1 .. Len(texts) /\ texts[1] = "listen"
    BY DEF Texts
  <2> HIDE DEF texts
  <2> QED
    BY <2>1, <2>2, FailKeeps
<1>12. CASE AcceptorThrows
  <2>1. <<"exception">> \in Seq(Texts) /\ 1 \in 1 .. Len(<<"exception">>)
        /\ <<"exception">>[1] = "exception"
    BY DEF Texts
  <2>2. /\ main \in Early /\ say(log_levels.emerg, <<"exception">>) /\ cause' = "exception"
        /\ main' = "exit" /\ UNCHANGED <<cfg, dbs, result>> /\ cout'
    BY <1>12 DEF AcceptorThrows, final_exception, Early
  <2> QED
    BY <2>1, <2>2, FailStep
<1>13. CASE Work
  <2>1. /\ main = "running" /\ cfg' = cfg /\ main' = main /\ dbs' = dbs /\ cause' = cause
        /\ result' = result /\ cout' = cout
    BY <1>13 DEF Work, startVars
  <2>2. PICK w \in Writers : WriterStep(w)
    BY <1>13 DEF Work
  <2>3. level' = level
    BY <2>2 DEF WriterStep, Construct, Insert, InsertThrows, Move, Destroy
  <2>4. PoolLog(msg', made', written', out')
    BY <2>1, <2>2, <1>t, WriterKeeps
  <2>5. Log' /\ Control' /\ Reported'
    BY <2>1, <2>3, <2>4, <1>t DEF Log, Control, Reported, Early, States
  <2>6. Opened(dbs') /\ DatabasesReady'
    BY <2>1, <1>t DEF DatabasesReady, database_threads
  <2> QED
    BY <2>5, <2>6 DEF IInv
<1>14. CASE RunEnds
  <2>1. /\ main = "running" /\ main' = "finish" /\ result' = "EXIT_SUCCESS"
        /\ dbs' = dbs /\ cause' = cause
        /\ level' = level /\ msg' = msg /\ made' = made /\ written' = written /\ out' = out
    BY <1>14 DEF RunEnds, logVars
  <2>2. Log' /\ Control' /\ Reported'
    BY <2>1, <1>t DEF Log, Control, Reported, Early, States
  <2> QED
    BY <2>1, <2>2, <1>t DEF IInv, DatabasesReady
<1>15. CASE Finish
  <2>1. /\ main = "finish" /\ main' = "exit" /\ dbs' = dbs /\ cause' = cause
        /\ result' = result /\ cout' = cout
        /\ level' = level /\ msg' = msg /\ made' = made /\ written' = written
    BY <1>15 DEF Finish, say
  <2>2. Control'
    BY <2>1, <1>t DEF Control, Early, States
  <2>3. Log' /\ Reported'
    <3>1. CASE result = "EXIT_SUCCESS"
      <4>1. cause = "none"
        BY <3>1, <2>1, <1>t DEF Reported
      <4>2. out \in Seq(Entry)
        BY <4>1, <1>t DEF PoolLog, LogTyped
      <4>3. out' = IF enabled(log_levels.crit) THEN out \o Lines(<<>>) ELSE out
        BY <1>15, <3>1 DEF Finish, say, Lines
      <4>4. Lines(<<>>) = <<>>
        BY DEF Lines
      <4>5. out' = out
        BY <4>2, <4>3, <4>4
      <4> QED
        BY <4>1, <4>5, <2>1, <1>t DEF Log, Reported
    <3>2. CASE result # "EXIT_SUCCESS"
      <4> DEFINE texts == <<"Terminating after error">>
      <4>1. cause # "none" /\ Idle(msg, written) /\ out \in Seq(MainEntry)
        BY <3>2, <2>1, <1>t DEF Reported, MainLog
      <4>2. out' = IF enabled(log_levels.crit) THEN out \o Lines(texts) ELSE out
        BY <1>15, <3>2 DEF Finish, say, Lines
      <4>3. texts \in Seq(Texts)
        BY DEF Texts
      <4> HIDE DEF texts
      <4>4. out' \in Seq(MainEntry) /\ \A c : Said(c, out) => Said(c, out')
        BY <4>1, <4>2, <4>3, SayAppends
      <4>5. Log'
        BY <4>1, <4>4, <2>1 DEF Log, MainLog
      <4>6. Reported'
        BY <4>1, <4>4, <2>1, <1>t DEF Reported
      <4> QED
        BY <4>5, <4>6
    <3> QED
      BY <3>1, <3>2
  <2> QED
    BY <2>1, <2>2, <2>3, <1>t DEF IInv, DatabasesReady
<1> QED
  BY <1>0, <1>1, <1>2, <1>3, <1>4, <1>5, <1>6, <1>7, <1>8, <1>9, <1>10, <1>11, <1>12,
     <1>13, <1>14, <1>15 DEF Next

\* So it always holds.
LEMMA Invariance == Spec => []IInv
  BY Initial, Inductive, PTL DEF Spec

------------------------------------------------------------------------------
(* The theorems                                                            *)

\* db_server::run() leaves every thread of the database pool with every
\* database open and prepared, and with the db_sync_t that the first has made.
THEOREM ThreadsReady == Spec => []DatabasesReady
<1>1. IInv => DatabasesReady
  BY DEF IInv
<1> QED
  BY <1>1, Invariance, PTL

\* main() never exits with a failure that it keeps to itself, nor reports one
\* when there was none.
THEOREM ExitTells == Spec => []FailureReported
<1>1. IInv => FailureReported
  <2> SUFFICES ASSUME IInv, main = "exit" PROVE FailureReported
    BY DEF FailureReported
  <2>1. Reported
    BY DEF IInv
  <2> QED
    BY <2>1 DEF Reported, FailureReported, Said
<1> QED
  BY <1>1, Invariance, PTL

\* log_msg loses nothing, repeats nothing and mixes nothing up, for any number
\* of threads, messages and pieces.
THEOREM NothingLost == Spec => []LogFaithful
<1>1. IInv => LogFaithful
  <2> SUFFICES ASSUME IInv PROVE LogFaithful
    OBVIOUS
  <2>0. Len(<<>>) = 0
    OBVIOUS
  <2>1. CASE cause = "none"
    <3>1. PoolLog(msg, made, written, out)
      BY <2>1 DEF IInv, Log
    <3>2. out \in Seq(Entry) /\ DOMAIN out = 1 .. Len(out) /\ written \in [Writers -> Seq(Entry)]
      BY <3>1 DEF PoolLog, LogTyped
    <3>3. ASSUME NEW w \in Writers, msg[w] = NoMsg
          PROVE  /\ Cardinality(Places(out, w, Len(out))) = Len(written[w])
                 /\ \A i \in Places(out, w, Len(out)) :
                       out[i] = written[w][Cardinality(Places(out, w, i))]
      <4>1. Kept(w, msg[w].text, written[w], out)
        BY <3>1 DEF PoolLog
      <4>2. Len(msg[w].text) = 0
        BY <3>3, <2>0 DEF NoMsg
      <4>3. Count(out, w, Len(out)) \in Nat
        BY <3>2, PlacesFinite
      <4> QED
        BY <4>1, <4>2, <4>3 DEF Kept, Count
    <3>4. Unmixed(out)
      BY <3>1 DEF PoolLog
    <3> QED
      BY <3>2, <3>3, <3>4 DEF LogFaithful, Unmixed
  <2>2. CASE cause # "none"
    <3>1. Idle(msg, written) /\ out \in Seq(MainEntry)
      BY <2>2 DEF IInv, Log, MainLog
    <3>2. \A i \in DOMAIN out : out[i][1] = "main"
      BY <3>1 DEF MainEntry
    <3>3. DOMAIN out = 1 .. Len(out) /\ Len(out) \in Nat
      BY <3>1
    <3>4. ASSUME NEW w \in Writers
          PROVE  /\ Places(out, w, Len(out)) = {}
                 /\ Cardinality(Places(out, w, Len(out))) = Len(written[w])
      <4>1. Places(out, w, Len(out)) = {}
        BY <3>2, <3>3, WritersAssumption DEF Places
      <4>2. Len(written[w]) = 0
        BY <3>1, <2>0 DEF Idle
      <4> QED
        BY <4>1, <4>2, FS_EmptySet
    <3>5. ASSUME NEW i \in DOMAIN out, NEW k \in DOMAIN out, NEW j \in i .. k
          PROVE  out[j][1] = out[i][1]
      BY <3>2, <3>3
    <3> QED
      BY <3>4, <3>5 DEF LogFaithful
  <2> QED
    BY <2>1, <2>2
<1> QED
  BY <1>1, Invariance, PTL
==============================================================================
