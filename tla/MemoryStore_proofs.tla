------------------------- MODULE MemoryStore_proofs -------------------------
(* The project memory loses nothing while processes follow each other, for *)
(* any set of them, any texts and any number of entries, ages and crashes. *)
EXTENDS MemoryStore, FiniteSetTheorems, SequenceTheorems, TLAPS

-----------------------------------------------------------------------------
(* Updates: one per member of the set, in some order.                      *)

\* Ids are finitely many, so a set of them has a sequence.
LEMMA IdsAreListed ==
    ASSUME NEW n \in Nat, NEW S \in SUBSET (1 .. n)
    PROVE  /\ SetToSeq(S) \in Seq(S)
           /\ S # {} => Len(SetToSeq(S)) > 0
<1>1. IsFiniteSet(S)
  <2>1. IsFiniteSet(1 .. n)
    BY FS_Interval
  <2>2. QED
    BY <2>1, FS_Subset
<1>2. PICK b \in [1 .. Cardinality(S) -> S] : IsInjective(b)
  <2>1. Cardinality(S) \in Nat /\ ExistsBijection(1 .. Cardinality(S), S)
    BY <1>1, FS_CardinalityType
  <2>2. QED
    BY <2>1 DEF ExistsBijection, Bijection, Injection, IsInjective
<1>3. SetToSeq(S) \in [1 .. Cardinality(S) -> S]
  BY <1>2 DEF SetToSeq
<1>4. Cardinality(S) \in Nat /\ (S # {} => Cardinality(S) # 0)
  BY <1>1, FS_CardinalityType, FS_EmptySet
<1>5. QED
  BY <1>3, <1>4

\* One update for each of the ids, of the kind asked for.
LEMMA UpdatesOf ==
    ASSUME NEW n \in Nat, NEW S \in SUBSET (1 .. n), NEW op
    PROVE  /\ Updates(op, S) \in Seq([op : {op}, id : S])
           /\ S # {} => Updates(op, S) # <<>>
<1> DEFINE q == SetToSeq(S)
<1>1. q \in Seq(S) /\ (S # {} => Len(q) > 0)
  BY IdsAreListed
<1>2. Updates(op, S) = [k \in 1 .. Len(q) |-> [op |-> op, id |-> q[k]]]
  BY DEF Updates
<1> HIDE DEF q
<1>3. \A k \in 1 .. Len(q) : q[k] \in S
  BY <1>1
<1>4. Len(q) \in Nat
  BY <1>1
<1>5. Updates(op, S) \in [1 .. Len(q) -> [op : {op}, id : S]]
  BY <1>2, <1>3
<1>6. Updates(op, S) \in Seq([op : {op}, id : S]) /\ Len(Updates(op, S)) = Len(q)
  <2>1. \A T : \A f \in [1 .. Len(q) -> T] : f \in Seq(T) /\ Len(f) = Len(q)
    BY <1>4
  <2>2. QED
    BY <1>5, <2>1, Zenon
<1>7. QED
  BY <1>1, <1>4, <1>6

-----------------------------------------------------------------------------
(* Stores and plans.                                                       *)

\* A set of ids of a store that have been made is a set of numbers.
LEMMA LiveIds ==
    ASSUME StoreType, NEW p \in Procs
    PROVE  Live(p) \subseteq 1 .. ids /\ Live(p) \subseteq DOMAIN cache[p]
BY DEF Live, StoreType, IsStore

\* A new entry has every field.
LEMMA EntryIsEntry ==
    ASSUME StoreType, NEW c \in Contents, NEW long \in BOOLEAN
    PROVE  Entry(c, long) \in EntryType
BY DEF Entry, EntryType, StoreType

\* One update leaves a store that holds only entries that have been made, and
\* lacks nothing of the file that was not missing or may go; the rest of the
\* plan still fits.
LEMMA UpdatedFits ==
    ASSUME NEW m, NEW d, StoreType, IsStore(m, ids),
           NEW s \in Seq(Update(ids)), s # <<>>, PlanFits(s, m, d, now)
    PROVE  /\ IsStore(Updated(m, Head(s)), ids)
           /\ Kept(d, m, now) => Kept(d, Updated(m, Head(s)), now)
           /\ Tail(s) \in Seq(Update(ids))
           /\ PlanFits(Tail(s), Updated(m, Head(s)), d, now)
<1> DEFINE u == Head(s)
           n == Updated(m, u)
<1>1. /\ u = s[1] /\ u \in Update(ids) /\ Len(s) \in Nat /\ 1 \in 1 .. Len(s)
      /\ Tail(s) \in Seq(Update(ids)) /\ Len(Tail(s)) = Len(s) - 1
      /\ \A k \in 1 .. Len(Tail(s)) : k + 1 \in 1 .. Len(s) /\ Tail(s)[k] = s[k + 1]
  OBVIOUS
<1>2. u.op \in {"save", "delete", "boost", "access", "archive", "summarise"}
  BY <1>1 DEF Update
<1>3. u.op \in {"archive", "summarise"} => u.id \in DOMAIN m /\ m[u.id] \in EntryType
  BY <1>1 DEF PlanFits, IsStore
<1>4. u.op = "delete" => (u.id \in DOMAIN m => Past(m[u.id], now))
  BY <1>1 DEF PlanFits
<1>5. \A e \in EntryType :
         /\ [e EXCEPT !.archived = TRUE] \in EntryType
         /\ [e EXCEPT !.archived = TRUE].born = e.born
         /\ [e EXCEPT !.archived = TRUE].archived
  BY DEF EntryType
<1>6. \A e \in EntryType :
         /\ [e EXCEPT !.hash = <<@[1], "summary">>, !.long = FALSE] \in EntryType
         /\ [e EXCEPT !.hash = <<@[1], "summary">>, !.long = FALSE].born = e.born
         /\ [e EXCEPT !.hash = <<@[1], "summary">>, !.long = FALSE].archived = e.archived
  BY DEF EntryType
<1>7. /\ IsStore(n, ids) /\ (Kept(d, m, now) => Kept(d, n, now))
      /\ u.op = "delete" => DOMAIN n \subseteq DOMAIN m /\ \A i \in DOMAIN n : n[i] = m[i]
      /\ u.op = "delete" => DOMAIN n = DOMAIN m \ {u.id}
      /\ u.op # "delete" => DOMAIN m \subseteq DOMAIN n
  <2>1. CASE u.op = "save"
    <3>1. n = Put(m, u.id, u.entry)
      BY <2>1 DEF Updated
    <3>2. u.id \in 1 .. ids /\ u.entry \in EntryType
      BY <1>1, <2>1 DEF Update
    <3>3. u.id \notin DOMAIN m /\ u.id \notin DOMAIN d
      BY <1>1, <2>1 DEF PlanFits
    <3>4. IsStore(n, ids) /\ DOMAIN m \subseteq DOMAIN n
      BY <3>1, <3>2 DEF Put, IsStore
    <3>5. \A i \in DOMAIN d : (i \in DOMAIN n <=> i \in DOMAIN m) /\ (i \in DOMAIN m => n[i] = m[i])
      BY <3>1, <3>3 DEF Put
    <3>6. QED
      BY <2>1, <3>4, <3>5 DEF Kept
  <2>2. CASE u.op = "delete"
    <3>1. n = Drop(m, u.id)
      BY <2>2 DEF Updated
    <3>2. DOMAIN n = DOMAIN m \ {u.id} /\ \A i \in DOMAIN n : n[i] = m[i]
      BY <3>1 DEF Drop
    <3>3. IsStore(n, ids)
      BY <3>2 DEF IsStore
    <3>4. ASSUME Kept(d, m, now), NEW i \in DOMAIN d, i \notin DOMAIN n
          PROVE  Past(d[i], now)
      <4>1. CASE i \in DOMAIN m
        <5>1. Past(m[i], now) /\ m[i].born = d[i].born /\ (d[i].archived => m[i].archived)
          BY <1>4, <2>2, <3>2, <3>4, <4>1 DEF Kept
        <5>2. QED
          BY <5>1 DEF Past
      <4>2. CASE i \notin DOMAIN m
        BY <3>4, <4>2 DEF Kept
      <4>3. QED
        BY <4>1, <4>2
    <3>5. Kept(d, m, now) => Kept(d, n, now)
      BY <3>2, <3>4 DEF Kept
    <3>6. QED
      BY <2>2, <3>2, <3>3, <3>5
  <2>3. CASE u.op \in {"boost", "access"}
    <3>1. n = m
      BY <2>3 DEF Updated
    <3>2. QED
      BY <2>3, <3>1 DEF Kept
  <2>4. CASE u.op = "archive"
    <3>1. n = Put(m, u.id, [m[u.id] EXCEPT !.archived = TRUE])
      BY <2>4 DEF Updated
    <3>2. /\ DOMAIN n = DOMAIN m /\ IsStore(n, ids)
          /\ \A i \in DOMAIN m : n[i].born = m[i].born /\ (m[i].archived => n[i].archived)
      BY <1>3, <1>5, <2>4, <3>1 DEF Put, IsStore
    <3>3. QED
      BY <2>4, <3>2 DEF Kept
  <2>5. CASE u.op = "summarise"
    <3>1. n = Put(m, u.id, [m[u.id] EXCEPT !.hash = <<@[1], "summary">>, !.long = FALSE])
      BY <2>5 DEF Updated
    <3>2. /\ DOMAIN n = DOMAIN m /\ IsStore(n, ids)
          /\ \A i \in DOMAIN m : n[i].born = m[i].born /\ (m[i].archived => n[i].archived)
      BY <1>3, <1>6, <2>5, <3>1 DEF Put, IsStore
    <3>3. QED
      BY <2>5, <3>2 DEF Kept
  <2>6. QED
    BY <1>2, <2>1, <2>2, <2>3, <2>4, <2>5
<1>8. PlanFits(Tail(s), n, d, now)
  <2> SUFFICES ASSUME NEW k \in 1 .. Len(Tail(s))
               PROVE  /\ Tail(s)[k].op = "delete" =>
                            /\ \A j \in 1 .. k : Tail(s)[j].op = "delete"
                            /\ Tail(s)[k].id \in DOMAIN n => Past(n[Tail(s)[k].id], now)
                      /\ Tail(s)[k].op \in {"archive", "summarise"} =>
                            /\ Tail(s)[k].id \in DOMAIN n
                            /\ \A j \in 1 .. k : Tail(s)[j].op = "delete"
                                                   => Tail(s)[j].id # Tail(s)[k].id
                      /\ Tail(s)[k].op # "save"
    BY DEF PlanFits
  <2>1. /\ k \in Nat /\ k + 1 \in 1 .. Len(s) /\ 1 \in 1 .. k + 1 /\ Tail(s)[k] = s[k + 1]
        /\ \A j \in 1 .. k : j + 1 \in 1 .. k + 1 /\ Tail(s)[j] = s[j + 1]
        /\ Len(s) # 1
    BY <1>1
  <2>5. s[k + 1].op # "save"
    BY <2>1 DEF PlanFits
  <2>2. CASE s[k + 1].op = "delete"
    <3>1. \A j \in 1 .. k + 1 : s[j].op = "delete"
      BY <2>1, <2>2 DEF PlanFits
    <3>2. s[k + 1].id \in DOMAIN m => Past(m[s[k + 1].id], now)
      BY <2>1, <2>2 DEF PlanFits
    <3>3. u.op = "delete"
      BY <1>1, <2>1, <3>1
    <3>4. s[k + 1].id \in DOMAIN n => Past(n[s[k + 1].id], now)
      BY <1>7, <3>2, <3>3
    <3>5. QED
      BY <2>1, <2>2, <2>5, <3>1, <3>4
  <2>3. CASE s[k + 1].op \in {"archive", "summarise"}
    <3>1. /\ s[k + 1].id \in DOMAIN m
          /\ \A j \in 1 .. k + 1 : s[j].op = "delete" => s[j].id # s[k + 1].id
      BY <2>1, <2>3 DEF PlanFits
    <3>2. s[k + 1].id \in DOMAIN n
      BY <1>1, <1>7, <2>1, <3>1
    <3>3. QED
      BY <2>1, <2>3, <2>5, <3>1, <3>2
  <2>4. QED
    BY <2>1, <2>2, <2>3, <2>5
<1>9. QED
  BY <1>1, <1>7, <1>8

-----------------------------------------------------------------------------
(* The steps, while no two processes have met.                             *)

Quiet == StoreType /\ OneWriter

\* A plan whose updates come from Updates, deletions first, fits the cache.
LEMMA PruneFits ==
    ASSUME StoreType, NEW p \in Procs,
           NEW del \in SUBSET Live(p), NEW arc \in SUBSET Live(p), NEW sum \in SUBSET Live(p),
           del \cap arc = {}, del \cap sum = {},
           \A i \in del : Past(cache[p][i], now)
    PROVE  LET s == Updates("delete", del) \o Updates("archive", arc)
                       \o Updates("summarise", sum)
           IN  s \in Seq(Update(ids)) /\ PlanFits(s, cache[p], OnDisk, now)
<1> DEFINE a == Updates("delete", del)
           b == Updates("archive", arc)
           c == Updates("summarise", sum)
           s == a \o b \o c
<1>1. /\ a \in Seq([op : {"delete"}, id : del])
      /\ b \in Seq([op : {"archive"}, id : arc])
      /\ c \in Seq([op : {"summarise"}, id : sum])
  <2>1. del \subseteq 1 .. ids /\ arc \subseteq 1 .. ids /\ sum \subseteq 1 .. ids
    BY LiveIds
  <2>2. ids \in Nat
    BY DEF StoreType
  <2>3. QED
    BY <2>1, <2>2, UpdatesOf
<1> HIDE DEF a, b, c
<1>2. /\ [op : {"delete"}, id : del] \subseteq Update(ids)
      /\ [op : {"archive"}, id : arc] \subseteq Update(ids)
      /\ [op : {"summarise"}, id : sum] \subseteq Update(ids)
  BY LiveIds DEF Update
<1>3. a \in Seq(Update(ids)) /\ b \in Seq(Update(ids)) /\ c \in Seq(Update(ids))
  <2>1. ASSUME NEW S, NEW T, S \subseteq T, NEW q \in Seq(S)
        PROVE  q \in Seq(T)
    BY <2>1
  <2>2. QED
    BY <1>1, <1>2, <2>1, Zenon
<1>4. s \in Seq(Update(ids))
  BY <1>3
<1>5. /\ Len(a) \in Nat /\ Len(b) \in Nat /\ Len(c) \in Nat
      /\ Len(s) = Len(a) + Len(b) + Len(c)
      /\ \A k \in 1 .. Len(s) :
            s[k] = IF k <= Len(a) THEN a[k]
                   ELSE IF k <= Len(a) + Len(b) THEN b[k - Len(a)]
                   ELSE c[k - Len(a) - Len(b)]
  BY <1>3
<1>6. /\ \A k \in 1 .. Len(a) : a[k].op = "delete" /\ a[k].id \in del
      /\ \A k \in 1 .. Len(b) : b[k].op = "archive" /\ b[k].id \in arc
      /\ \A k \in 1 .. Len(c) : c[k].op = "summarise" /\ c[k].id \in sum
  <2>1. \A T : \A q \in Seq(T) : \A k \in 1 .. Len(q) : q[k] \in T
    OBVIOUS
  <2>2. /\ \A k \in 1 .. Len(a) : a[k] \in [op : {"delete"}, id : del]
        /\ \A k \in 1 .. Len(b) : b[k] \in [op : {"archive"}, id : arc]
        /\ \A k \in 1 .. Len(c) : c[k] \in [op : {"summarise"}, id : sum]
    BY <1>1, <2>1, Zenon
  <2>3. QED
    BY <2>2
<1> HIDE DEF s
<1>7. ASSUME NEW k \in 1 .. Len(s)
      PROVE  /\ k <= Len(a) => s[k].op = "delete" /\ s[k].id \in del
             /\ ~(k <= Len(a)) => /\ s[k].op \in {"archive", "summarise"}
                                  /\ s[k].id \in arc \cup sum
  <2>1. CASE k <= Len(a)
    BY <1>5, <1>6, <2>1
  <2>2. CASE ~(k <= Len(a)) /\ k <= Len(a) + Len(b)
    <3>1. k - Len(a) \in 1 .. Len(b) /\ s[k] = b[k - Len(a)]
      BY <1>5, <2>2
    <3>2. QED
      BY <1>6, <2>2, <3>1
  <2>3. CASE ~(k <= Len(a)) /\ ~(k <= Len(a) + Len(b))
    <3>1. k - Len(a) - Len(b) \in 1 .. Len(c) /\ s[k] = c[k - Len(a) - Len(b)]
      BY <1>5, <2>3
    <3>2. QED
      BY <1>6, <2>3, <3>1
  <2>4. QED
    BY <2>1, <2>2, <2>3
<1>8. PlanFits(s, cache[p], OnDisk, now)
  <2> SUFFICES ASSUME NEW k \in 1 .. Len(s)
               PROVE  /\ s[k].op = "delete" =>
                            /\ \A j \in 1 .. k : s[j].op = "delete"
                            /\ s[k].id \in DOMAIN cache[p] => Past(cache[p][s[k].id], now)
                      /\ s[k].op \in {"archive", "summarise"} =>
                            /\ s[k].id \in DOMAIN cache[p]
                            /\ \A j \in 1 .. k : s[j].op = "delete" => s[j].id # s[k].id
                      /\ s[k].op # "save"
    BY DEF PlanFits
  <2>1. \A j \in 1 .. k : j \in 1 .. Len(s) /\ (k <= Len(a) => j <= Len(a))
    BY <1>5
  <2>2. CASE k <= Len(a)
    BY <1>7, <2>1, <2>2
  <2>3. CASE ~(k <= Len(a))
    <3>1. s[k].id \in arc \cup sum /\ s[k].op \in {"archive", "summarise"}
      BY <1>7, <2>3
    <3>2. s[k].id \in DOMAIN cache[p] /\ s[k].id \notin del
      BY <3>1, LiveIds
    <3>3. \A j \in 1 .. k : s[j].op = "delete" => s[j].id \in del
      BY <1>7, <2>1
    <3>4. QED
      BY <3>1, <3>2, <3>3
  <2>4. QED
    BY <2>2, <2>3
<1>9. QED
  BY <1>4, <1>8 DEF s, a, b, c

\* The file holds only entries that have been made.
LEMMA DiskIsStore ==
    ASSUME StoreType PROVE IsStore(OnDisk, ids)
<1>1. IsStore(Nothing, ids)
  BY DEF IsStore, Nothing
<1>2. QED
  BY <1>1 DEF OnDisk, StoreType, Files

\* An operation begins with a plan that fits.
LEMMA BeginQuiet ==
    ASSUME Quiet, NEW p \in Procs, NEW s \in Seq(Update(ids')), PlanFits(s, cache[p], OnDisk, now),
           Begin(p, s), ids' \in Nat, ids <= ids'
    PROVE  Quiet'
<1> USE DEF Quiet
<1>1. 1 .. ids \subseteq 1 .. ids'
  BY DEF StoreType
<1>2. Update(ids) \subseteq Update(ids')
  BY <1>1 DEF Update
<1>3. \A m : IsStore(m, ids) => IsStore(m, ids')
  BY <1>1 DEF IsStore
<1>4. StoreType'
  BY <1>2, <1>3 DEF StoreType, Begin, notes
<1>5. OneWriter'
  BY DEF StoreType, OneWriter, Begin, OnDisk, notes
<1>6. QED
  BY <1>4, <1>5

\* _record: a boost of an entry that is there, or one new entry.
LEMMA RecordQuiet ==
    ASSUME Quiet, NEW p \in Procs, NEW c \in Contents, NEW long \in BOOLEAN,
           Record(p, c, long)
    PROVE  Quiet'
<1>1. CASE Same(p, c) # {}
  <2> DEFINE u == [op |-> "boost", id |-> CHOOSE i \in Same(p, c) : TRUE]
  <2>1. u.id \in Live(p)
    BY <1>1 DEF Same
  <2>2. ids' = ids /\ Begin(p, <<u>>)
    BY <1>1 DEF Record
  <2>3. u.id \in 1 .. ids
    BY <2>1, LiveIds DEF Quiet
  <2>4. u \in Update(ids')
    BY <2>2, <2>3 DEF Update
  <2>5. <<u>> \in Seq(Update(ids')) /\ PlanFits(<<u>>, cache[p], OnDisk, now)
    BY <2>4 DEF PlanFits
  <2>6. ids' \in Nat /\ ids <= ids'
    BY <2>2 DEF Quiet, StoreType
  <2>7. QED
    BY <2>2, <2>5, <2>6, BeginQuiet
<1>2. CASE Same(p, c) = {}
  <2> DEFINE u == [op |-> "save", id |-> ids + 1, entry |-> Entry(c, long)]
  <2>1. ids' = ids + 1 /\ Begin(p, <<u>>)
    BY <1>2 DEF Record
  <2>2. Entry(c, long) \in EntryType /\ ids \in Nat
    BY EntryIsEntry DEF Quiet, StoreType
  <2>3. u \in Update(ids')
    BY <2>1, <2>2 DEF Update, EntryType
  <2>4. <<u>> \in Seq(Update(ids')) /\ PlanFits(<<u>>, cache[p], OnDisk, now)
    <3>1. IsStore(cache[p], ids) /\ IsStore(OnDisk, ids)
      BY DiskIsStore DEF Quiet, StoreType
    <3>2. ids + 1 \notin DOMAIN cache[p] \cup DOMAIN OnDisk
      BY <2>2, <3>1 DEF IsStore
    <3>3. QED
      BY <2>3, <3>2 DEF PlanFits
  <2>5. ids' \in Nat /\ ids <= ids'
    BY <2>1, <2>2
  <2>6. QED
    BY <2>1, <2>4, <2>5, BeginQuiet
<1>3. QED
  BY <1>1, <1>2

\* A search writes once for each entry it returns.
LEMMA RetrieveQuiet ==
    ASSUME Quiet, NEW p \in Procs, Retrieve(p)
    PROVE  Quiet'
<1>1. PICK S \in SUBSET Live(p) : Begin(p, Updates("access", S)) /\ ids' = ids
  BY DEF Retrieve
<1> DEFINE s == Updates("access", S)
<1>2. S \subseteq 1 .. ids /\ ids \in Nat
  BY LiveIds DEF Quiet, StoreType
<1>3. s \in Seq([op : {"access"}, id : S])
  BY <1>2, UpdatesOf
<1>4. [op : {"access"}, id : S] \subseteq Update(ids')
  BY <1>1, <1>2 DEF Update
<1> HIDE DEF s
<1>5. s \in Seq(Update(ids'))
  <2>1. ASSUME NEW U, NEW T, U \subseteq T, NEW q \in Seq(U)
        PROVE  q \in Seq(T)
    BY <2>1
  <2>2. QED
    BY <1>3, <1>4, <2>1, Zenon
<1>6. PlanFits(s, cache[p], OnDisk, now)
  <2>1. \A T : \A q \in Seq(T) : \A k \in 1 .. Len(q) : q[k] \in T
    OBVIOUS
  <2>2. \A k \in 1 .. Len(s) : s[k] \in [op : {"access"}, id : S]
    BY <1>3, <2>1, Zenon
  <2>3. \A k \in 1 .. Len(s) : s[k].op = "access"
    BY <2>2
  <2>4. QED
    BY <2>3 DEF PlanFits
<1>7. QED
  BY <1>1, <1>2, <1>5, <1>6, BeginQuiet DEF s

\* The policy touches three sets of entries that do not meet.
LEMMA PruneQuiet ==
    ASSUME Quiet, NEW p \in Procs, Prune(p)
    PROVE  Quiet'
<1> DEFINE del == {i \in Live(p) : ShouldDelete(cache[p][i])}
           sum == {i \in Live(p) \ del : ShouldSummarise(cache[p][i])}
           arc == {i \in Live(p) \ (del \cup sum) : ShouldArchive(cache[p][i])}
           s == Updates("delete", del) \o Updates("archive", arc)
                       \o Updates("summarise", sum)
<1>1. Begin(p, s) /\ ids' = ids
  BY DEF Prune
<1>2. \A i \in del : Past(cache[p][i], now)
  BY DEF ShouldDelete, Age, Past, Live
<1>3. /\ del \in SUBSET Live(p) /\ arc \in SUBSET Live(p) /\ sum \in SUBSET Live(p)
      /\ del \cap arc = {} /\ del \cap sum = {}
  OBVIOUS
<1> HIDE DEF del, sum, arc
<1>4. s \in Seq(Update(ids)) /\ PlanFits(s, cache[p], OnDisk, now)
  BY <1>2, <1>3, PruneFits DEF Quiet
<1> HIDE DEF s
<1>5. ids' \in Nat /\ ids <= ids' /\ s \in Seq(Update(ids'))
  BY <1>1, <1>4 DEF Quiet, StoreType
<1>6. QED
  BY <1>1, <1>4, <1>5, BeginQuiet

\* One writer finds a file of its own for the temporary name.
LEMMA OpenTmpQuiet ==
    ASSUME Quiet, NEW p \in Procs, OpenTmp(p)
    PROVE  Quiet' /\ OnDisk' = OnDisk
<1> USE DEF Quiet
<1> DEFINE f == IF tmp = 0 THEN Unused ELSE tmp
<1>1. /\ pc[p] = "update" /\ plan[p] # <<>> /\ plan[p] \in Seq(Update(ids))
      /\ IsStore(cache[p], ids) /\ PlanFits(plan[p], cache[p], OnDisk, now)
      /\ p \notin unread => Kept(OnDisk, cache[p], now)
  BY DEF OpenTmp, StoreType, OneWriter
<1>2. \A q \in Procs : hand[q] = 0 /\ (q # p => pc[q] = "down")
  BY <1>1 DEF StoreType, OneWriter
<1>3. f \in Files /\ f # disk /\ f # 0
  <2>1. CASE tmp = 0
    <3>1. {disk, tmp} \cup {hand[q] : q \in Procs} \subseteq {disk, 0}
      BY <1>2, <2>1
    <3>2. \E g \in Files : g \notin {disk, 0}
      BY DEF Files
    <3>3. Unused \in Files /\ Unused \notin {disk, tmp} \cup {hand[q] : q \in Procs}
      BY <3>1, <3>2 DEF Unused
    <3>4. QED
      BY <2>1, <3>3 DEF Files
  <2>2. CASE tmp # 0
    BY <2>2 DEF StoreType, OneWriter, Files
  <2>3. QED
    BY <2>1, <2>2
<1> DEFINE m == Updated(cache[p], Head(plan[p]))
<1>4. /\ IsStore(m, ids) /\ (p \notin unread => Kept(OnDisk, m, now))
      /\ Tail(plan[p]) \in Seq(Update(ids)) /\ PlanFits(Tail(plan[p]), m, OnDisk, now)
  BY <1>1, UpdatedFits
<1>5. /\ cache' = [cache EXCEPT ![p] = m]
      /\ plan' = [plan EXCEPT ![p] = Tail(plan[p])]
      /\ file' = [file EXCEPT ![f] = Nothing]
      /\ tmp' = f
      /\ hand' = [hand EXCEPT ![p] = f]
      /\ pc' = [pc EXCEPT ![p] = "write"]
      /\ now' = now /\ ids' = ids /\ disk' = disk
      /\ unread' = unread /\ unsaved' = unsaved
  BY DEF OpenTmp, notes
<1> HIDE DEF m, f
<1>6. IsStore(Nothing, ids)
  BY DEF IsStore, Nothing
<1>7. StoreType'
  <2>1. DOMAIN file' = Files /\ \A g \in Files : IsStore(file'[g], ids')
    BY <1>5, <1>6 DEF StoreType
  <2>2. \A q \in Procs : IsStore(cache'[q], ids') /\ plan'[q] \in Seq(Update(ids'))
    BY <1>4, <1>5 DEF StoreType
  <2>3. QED
    BY <1>3, <1>5, <2>1, <2>2 DEF StoreType, Files
<1>8. OnDisk' = OnDisk
  BY <1>3, <1>5 DEF OnDisk, StoreType
<1>9. OneWriter'
  <2>1. p \notin unread' => Kept(OnDisk', m, now')
    BY <1>4, <1>5, <1>8
  <2>2. \A q \in Procs : PlanFits(plan'[q], cache'[q], OnDisk', now')
    BY <1>4, <1>5, <1>8 DEF StoreType, OneWriter
  <2>3. cache'[p] = m /\ file'[tmp'] = Nothing /\ hand'[p] = tmp' /\ pc'[p] = "write"
    BY <1>3, <1>5 DEF StoreType
  <2>4. \A q \in Procs \ {p} : /\ pc'[q] = "down" /\ hand'[q] = 0
                               /\ plan'[q] = plan[q] /\ cache'[q] = cache[q]
    BY <1>2, <1>5 DEF StoreType
  <2>5. \A q \in Procs : pc'[q] = "down" => plan'[q] = <<>>
    BY <1>2, <2>3, <2>4 DEF OneWriter
  <2>6. QED
    BY <1>3, <1>5, <2>1, <2>2, <2>3, <2>4, <2>5 DEF OneWriter
<1>10. QED
  BY <1>7, <1>8, <1>9

\* The file is still nothing when its one writer writes it.
LEMMA WriteTmpQuiet ==
    ASSUME Quiet, NEW p \in Procs, WriteTmp(p)
    PROVE  Quiet' /\ OnDisk' = OnDisk
<1> USE DEF Quiet
<1>1. /\ pc[p] = "write" /\ tmp # 0 /\ hand[p] = tmp /\ file[tmp] = Nothing
      /\ tmp \in Files /\ tmp # disk
  BY DEF WriteTmp, StoreType, OneWriter, Files
<1>2. /\ file' = [file EXCEPT ![tmp] = cache[p]]
      /\ hand' = [hand EXCEPT ![p] = 0] /\ pc' = [pc EXCEPT ![p] = "replace"]
      /\ now' = now /\ ids' = ids /\ disk' = disk /\ tmp' = tmp
      /\ plan' = plan /\ cache' = cache /\ unread' = unread /\ unsaved' = unsaved
  BY <1>1 DEF WriteTmp, notes
<1>3. \A q \in Procs \ {p} : pc[q] = "down"
  BY <1>1 DEF StoreType, OneWriter
<1>4. StoreType'
  BY <1>2 DEF StoreType
<1>5. OnDisk' = OnDisk
  BY <1>1, <1>2 DEF OnDisk, StoreType
<1>6. file'[tmp'] = cache'[p]
  BY <1>1, <1>2 DEF StoreType
<1>7. OneWriter'
  BY <1>1, <1>2, <1>3, <1>5, <1>6 DEF StoreType, OneWriter
<1>8. QED
  BY <1>4, <1>5, <1>7

\* The rename puts the writer's cache in the place of the file.
LEMMA ReplaceQuiet ==
    ASSUME Quiet, NEW p \in Procs, Replace(p)
    PROVE  Quiet' /\ \/ Kept(OnDisk, OnDisk', now)
                     \/ p \in unread /\ pc[p] = "replace" /\ p \notin unread'
<1> USE DEF Quiet
<1>1. /\ pc[p] = "replace" /\ tmp # 0 /\ file[tmp] = cache[p]
      /\ tmp \in Files /\ tmp # disk /\ (p \notin unread => Kept(OnDisk, cache[p], now))
  BY DEF Replace, StoreType, OneWriter, Files
<1>2. /\ disk' = tmp /\ tmp' = 0 /\ plan' = plan
      /\ file' = [f \in Files |-> IF f = disk /\ f # tmp THEN Nothing ELSE file[f]]
      /\ pc' = [pc EXCEPT ![p] = IF plan[p] = <<>> THEN "idle" ELSE "update"]
      /\ now' = now /\ ids' = ids /\ cache' = cache /\ hand' = hand
      /\ unread' = unread \ {p} /\ unsaved' = unsaved \ {p}
  BY <1>1 DEF Replace
<1>3. \A q \in Procs \ {p} : pc[q] = "down"
  BY <1>1 DEF StoreType, OneWriter
<1>4. IsStore(Nothing, ids)
  BY DEF IsStore, Nothing
<1>5. StoreType'
  BY <1>2, <1>4 DEF StoreType
<1>6. OnDisk' = cache[p]
  BY <1>1, <1>2 DEF OnDisk
<1>7. pc'[p] \in {"idle", "update"} /\ (pc'[p] = "update" => plan'[p] # <<>>)
  BY <1>2 DEF StoreType
<1>8. OneWriter'
  <2>1. \A q \in Procs : PlanFits(plan'[q], cache'[q], OnDisk', now')
    <3>1. PlanFits(plan[p], cache[p], OnDisk, now)
      BY DEF OneWriter
    <3>2. PlanFits(plan[p], cache[p], cache[p], now)
      BY <3>1 DEF PlanFits
    <3>3. \A q \in Procs \ {p} : plan[q] = <<>>
      BY <1>3 DEF OneWriter
    <3>4. \A m : \A d : PlanFits(<<>>, m, d, now)
      BY DEF PlanFits
    <3>5. QED
      BY <1>2, <1>6, <3>2, <3>3, <3>4
  <2>2. Kept(cache[p], cache[p], now)
    BY DEF Kept
  <2>3. \A q \in Procs \ {p} : pc'[q] = "down" /\ hand'[q] = 0 /\ plan'[q] = <<>>
                               /\ q \notin unread' \cup unsaved'
    BY <1>2, <1>3 DEF StoreType, OneWriter
  <2>4. hand'[p] = 0 /\ cache'[p] = OnDisk' /\ tmp' = 0 /\ Kept(OnDisk', cache'[p], now')
    BY <1>1, <1>2, <1>6, <2>2 DEF OneWriter
  <2>5. QED
    BY <1>7, <2>1, <2>3, <2>4 DEF OneWriter
<1>9. QED
  BY <1>1, <1>2, <1>5, <1>6, <1>8

\* Whatever raises, the update is in the cache and the file is what it was.
LEMMA FailQuiet ==
    ASSUME Quiet, NEW p \in Procs, OpenFails(p) \/ WriteFails(p)
    PROVE  Quiet' /\ OnDisk' = OnDisk
<1> USE DEF Quiet
<1> DEFINE m == Updated(cache[p], Head(plan[p]))
<1>1. /\ plan' = [plan EXCEPT ![p] = <<>>] /\ hand' = [hand EXCEPT ![p] = 0]
      /\ pc' = [pc EXCEPT ![p] = "idle"] /\ unsaved' = unsaved \cup {p}
      /\ UNCHANGED <<now, ids, disk, tmp, unread>>
      /\ pc[p] \in {"update", "write", "replace"}
  BY DEF OpenFails, WriteFails, Raise
<1>2. IsStore(Nothing, ids) /\ <<>> \in Seq(Update(ids))
  BY DEF IsStore, Nothing
<1>3. /\ IsStore(cache[p], ids) /\ PlanFits(plan[p], cache[p], OnDisk, now)
      /\ plan[p] \in Seq(Update(ids)) /\ (pc[p] = "update" => plan[p] # <<>>)
      /\ p \notin unread => Kept(OnDisk, cache[p], now)
  BY <1>1 DEF StoreType, OneWriter
<1>4. /\ DOMAIN cache' = Procs /\ IsStore(cache'[p], ids)
      /\ \A q \in Procs \ {p} : cache'[q] = cache[q]
      /\ p \notin unread => Kept(OnDisk, cache'[p], now)
  <2>1. CASE OpenFails(p)
    <3>1. cache' = [cache EXCEPT ![p] = m] /\ pc[p] = "update"
      BY <2>1 DEF OpenFails
    <3>2. IsStore(m, ids) /\ (Kept(OnDisk, cache[p], now) => Kept(OnDisk, m, now))
      BY <1>3, <3>1, UpdatedFits
    <3> HIDE DEF m
    <3>3. QED
      BY <1>3, <3>1, <3>2 DEF StoreType
  <2>2. CASE WriteFails(p)
    <3>1. cache' = cache
      BY <2>2 DEF WriteFails
    <3>2. QED
      BY <1>3, <3>1 DEF StoreType
  <2>3. QED
    BY <2>1, <2>2
<1> HIDE DEF m
<1>6. \/ file' = file
      \/ file' = [file EXCEPT ![tmp] = Nothing] /\ tmp # 0 /\ tmp # disk
  BY DEF OpenFails, WriteFails, OneWriter
<1>7. StoreType'
  <2>1. \A q \in Procs : IsStore(cache'[q], ids')
    BY <1>1, <1>4 DEF StoreType
  <2>2. DOMAIN file' = Files /\ \A f \in Files : IsStore(file'[f], ids')
    BY <1>1, <1>2, <1>6 DEF StoreType
  <2>3. QED
    BY <1>1, <1>2, <1>4, <2>1, <2>2 DEF StoreType
<1>8. OnDisk' = OnDisk
  BY <1>1, <1>6 DEF OnDisk, StoreType, Files
<1>9. \A q \in Procs \ {p} : pc[q] = "down"
  BY <1>1 DEF StoreType, OneWriter
<1>10. PlanFits(<<>>, cache'[p], OnDisk, now)
  BY DEF PlanFits
<1>11. OneWriter'
  <2>1. pc'[p] = "idle" /\ plan'[p] = <<>> /\ hand'[p] = 0 /\ p \in unsaved'
    BY <1>1 DEF StoreType
  <2>2. \A q \in Procs \ {p} :
           /\ pc'[q] = "down" /\ plan'[q] = plan[q] /\ hand'[q] = hand[q]
           /\ cache'[q] = cache[q] /\ (q \in unsaved' <=> q \in unsaved)
    BY <1>1, <1>4, <1>9 DEF StoreType
  <2>3. /\ p \notin unread' => Kept(OnDisk', cache'[p], now')
        /\ PlanFits(plan'[p], cache'[p], OnDisk', now')
    BY <1>1, <1>4, <1>8, <1>10, <2>1
  <2>4. \A q \in Procs \ {p} :
           /\ hand'[q] = 0 /\ plan'[q] = <<>> /\ q \notin unread' \cup unsaved'
           /\ PlanFits(plan'[q], cache'[q], OnDisk', now')
    BY <1>1, <1>8, <1>9, <2>2 DEF OneWriter
  <2>5. tmp' # 0 => tmp' # disk'
    BY <1>1 DEF OneWriter
  <2>6. QED
    BY <2>1, <2>2, <2>3, <2>4, <2>5 DEF OneWriter
<1>12. QED
  BY <1>7, <1>8, <1>11

\* A process starts alone, with what the file says or with nothing.
LEMMA StartQuiet ==
    ASSUME Quiet, NEW p \in Procs, Start(p), ~met'
    PROVE  Quiet'
<1> USE DEF Quiet
<1>1. /\ pc' = [pc EXCEPT ![p] = "idle"]
      /\ UNCHANGED <<now, ids, plan, hand, file, disk, tmp, unsaved>>
      /\ \A q \in Procs : pc[q] = "down"
  BY DEF Start
<1>2. \/ cache' = [cache EXCEPT ![p] = OnDisk] /\ unread' = unread
      \/ cache' = [cache EXCEPT ![p] = Nothing] /\ unread' = unread \cup {p}
  BY DEF Start
<1>3. IsStore(Nothing, ids) /\ IsStore(OnDisk, ids)
  BY DiskIsStore DEF IsStore, Nothing
<1>4. StoreType'
  BY <1>1, <1>2, <1>3 DEF StoreType
<1>5. OnDisk' = OnDisk
  BY <1>1 DEF OnDisk
<1>6. \A q \in Procs : plan'[q] = <<>> /\ PlanFits(plan'[q], cache'[q], OnDisk', now')
  BY <1>1 DEF OneWriter, PlanFits
<1>7. \A q \in Procs : q \notin unread \cup unsaved
  BY <1>1 DEF OneWriter
<1>8. p \notin unread' => cache'[p] = OnDisk' /\ Kept(OnDisk', cache'[p], now')
  BY <1>1, <1>2, <1>5 DEF Kept, StoreType
<1>9. OneWriter'
  BY <1>1, <1>2, <1>5, <1>6, <1>7, <1>8 DEF StoreType, OneWriter
<1>10. QED
  BY <1>4, <1>9

\* A process goes, at any step, and leaves the file as it is.
LEMMA StopQuiet ==
    ASSUME Quiet, NEW p \in Procs, Stop(p)
    PROVE  Quiet'
<1> USE DEF Quiet
<1>1. /\ pc' = [pc EXCEPT ![p] = "down"] /\ cache' = [cache EXCEPT ![p] = Nothing]
      /\ plan' = [plan EXCEPT ![p] = <<>>] /\ hand' = [hand EXCEPT ![p] = 0]
      /\ UNCHANGED <<now, ids, file, disk, tmp>>
      /\ unread' = unread \ {p} /\ unsaved' = unsaved \ {p}
  BY DEF Stop
<1>2. IsStore(Nothing, ids) /\ <<>> \in Seq(Update(ids))
  BY DEF IsStore, Nothing
<1>3. StoreType'
  BY <1>1, <1>2 DEF StoreType
<1>4. OnDisk' = OnDisk
  BY <1>1 DEF OnDisk
<1>5. PlanFits(<<>>, Nothing, OnDisk, now)
  BY DEF PlanFits
<1>6. OneWriter'
  BY <1>1, <1>4, <1>5 DEF StoreType, OneWriter
<1>7. QED
  BY <1>3, <1>6

\* What may go still may as time passes.
LEMMA PassQuiet ==
    ASSUME Quiet, Pass
    PROVE  Quiet'
<1> USE DEF Quiet
<1>1. now' = now + 1 /\ UNCHANGED <<ids, pc, cache, plan, hand, file, disk, tmp, unread, unsaved>>
  BY DEF Pass, notes
<1>2. StoreType'
  BY <1>1 DEF StoreType
<1>3. OnDisk' = OnDisk
  BY <1>1 DEF OnDisk
<1>4. \A m : IsStore(m, ids) => \A i \in DOMAIN m : Past(m[i], now) => Past(m[i], now')
  BY <1>1 DEF IsStore, Past, StoreType, EntryType, Quarter
<1>5. IsStore(OnDisk, ids)
  BY DiskIsStore
<1>6. \A q \in Procs : Kept(OnDisk, cache[q], now) => Kept(OnDisk, cache[q], now')
  BY <1>4, <1>5 DEF Kept
<1>7. \A q \in Procs :
         PlanFits(plan[q], cache[q], OnDisk, now) => PlanFits(plan[q], cache[q], OnDisk, now')
  BY <1>4 DEF PlanFits, StoreType
<1>8. OneWriter'
  BY <1>1, <1>3, <1>6, <1>7 DEF OneWriter
<1>9. QED
  BY <1>2, <1>8

-----------------------------------------------------------------------------
(* The theorems.                                                           *)

\* The inductive invariant holds in every state: once two processes have met
\* it says nothing more.
THEOREM StoreInvariant == Spec => []StoreInv
<1>1. Init => StoreInv
  <2> SUFFICES ASSUME Init PROVE StoreInv
    OBVIOUS
  <2>1. /\ IsStore(Nothing, 0) /\ <<>> \in Seq(Update(0))
        /\ PlanFits(<<>>, Nothing, OnDisk, 0)
    BY DEF IsStore, Nothing, PlanFits
  <2>2. StoreType
    BY <2>1 DEF Init, StoreType, Files
  <2>3. OneWriter
    BY <2>1 DEF Init, OneWriter
  <2>4. QED
    BY <2>2, <2>3 DEF Init, StoreInv
<1>2. StoreInv /\ [Next]_vars => StoreInv'
  <2> SUFFICES ASSUME StoreInv, [Next]_vars PROVE StoreInv'
    OBVIOUS
  <2>1. met' \in BOOLEAN /\ (~met' => ~met)
    BY DEF StoreInv, vars, Next, Record, Retrieve, Prune, Begin, OpenTmp, WriteTmp,
           Replace, Raise, OpenFails, WriteFails, Start, Exit, Crash, Stop, Pass, notes
  <2> SUFFICES ASSUME ~met' PROVE Quiet'
    BY <2>1 DEF StoreInv, Quiet
  <2>2. Quiet
    BY <2>1 DEF StoreInv, Quiet
  <2>3. ASSUME NEW p \in Procs, NEW c \in Contents, NEW long \in BOOLEAN, Record(p, c, long)
        PROVE  Quiet'
    BY <2>2, <2>3, RecordQuiet
  <2>4. ASSUME NEW p \in Procs, Retrieve(p)
        PROVE  Quiet'
    BY <2>2, <2>4, RetrieveQuiet
  <2>5. ASSUME NEW p \in Procs, Prune(p)
        PROVE  Quiet'
    BY <2>2, <2>5, PruneQuiet
  <2>6. ASSUME NEW p \in Procs, OpenTmp(p)
        PROVE  Quiet'
    BY <2>2, <2>6, OpenTmpQuiet
  <2>7. ASSUME NEW p \in Procs, WriteTmp(p)
        PROVE  Quiet'
    BY <2>2, <2>7, WriteTmpQuiet
  <2>8. ASSUME NEW p \in Procs, Replace(p)
        PROVE  Quiet'
    BY <2>2, <2>8, ReplaceQuiet
  <2>9. ASSUME NEW p \in Procs, Start(p)
        PROVE  Quiet'
    BY <2>2, <2>9, StartQuiet
  <2>10. ASSUME NEW p \in Procs, Exit(p) \/ Crash(p)
         PROVE  Quiet'
    BY <2>2, <2>10, StopQuiet DEF Exit, Crash
  <2>11. CASE Pass
    BY <2>2, <2>11, PassQuiet
  <2>12. CASE UNCHANGED vars
    BY <2>2, <2>12 DEF vars, Quiet, StoreType, OneWriter, OnDisk
  <2>13. ASSUME NEW p \in Procs, OpenFails(p) \/ WriteFails(p)
         PROVE  Quiet'
    BY <2>2, <2>13, FailQuiet
  <2>14. QED
    BY <2>3, <2>4, <2>5, <2>6, <2>7, <2>8, <2>9, <2>10, <2>11, <2>12, <2>13 DEF Next
<1>3. QED
  BY <1>1, <1>2, PTL DEF Spec

\* What a process that has read the file knows when it is idle is what the file
\* says, as long as the processes follow each other and its last write did not
\* raise (store.save changes the cache first); nothing of the file is missing
\* from its memory in either case.
THEOREM IdleCacheIsDisk == Spec => []CacheIsDisk
<1>1. StoreInv => CacheIsDisk
  BY DEF StoreInv, OneWriter, CacheIsDisk
<1>2. QED
  BY <1>1, StoreInvariant, PTL

\* No step of processes that follow each other, a kill between any two steps of
\* _atomic_write and an exception out of any of them included, takes from the
\* file what the policy keeps, except the first write of a process whose load
\* could not read the file (store.py:139-141).
THEOREM NothingIsEverLost == Spec => NothingIsLost
<1>1. StoreInv /\ [Next]_vars =>
        [~met' => \/ Kept(OnDisk, OnDisk', now)
                  \/ \E p \in unread : pc[p] = "replace" /\ p \notin unread']_vars
  <2> SUFFICES ASSUME StoreInv, Next, ~met'
               PROVE  \/ Kept(OnDisk, OnDisk', now)
                      \/ \E p \in unread : pc[p] = "replace" /\ p \notin unread'
    OBVIOUS
  <2>1. ~met
    BY DEF StoreInv, Next, Record, Retrieve, Prune, Begin, OpenTmp, WriteTmp,
           Replace, Raise, OpenFails, WriteFails, Start, Exit, Crash, Stop, Pass, notes
  <2>2. Quiet
    BY <2>1 DEF StoreInv, Quiet
  <2>3. OnDisk' = OnDisk => Kept(OnDisk, OnDisk', now)
    BY DEF Kept
  <2>4. ASSUME NEW p \in Procs, OpenTmp(p) \/ WriteTmp(p) \/ OpenFails(p) \/ WriteFails(p)
        PROVE  OnDisk' = OnDisk
    BY <2>2, <2>4, OpenTmpQuiet, WriteTmpQuiet, FailQuiet
  <2>5. ASSUME NEW p \in Procs, Replace(p)
        PROVE  \/ Kept(OnDisk, OnDisk', now)
               \/ \E q \in unread : pc[q] = "replace" /\ q \notin unread'
    BY <2>2, <2>5, ReplaceQuiet
  <2>6. ASSUME NEW p \in Procs,
               \/ \E c \in Contents, long \in BOOLEAN : Record(p, c, long)
               \/ Retrieve(p) \/ Prune(p) \/ Start(p) \/ Exit(p) \/ Crash(p)
        PROVE  OnDisk' = OnDisk
    BY <2>6 DEF OnDisk, Record, Retrieve, Prune, Begin, Start, Exit, Crash, Stop
  <2>7. ASSUME Pass
        PROVE  OnDisk' = OnDisk
    BY <2>7 DEF OnDisk, Pass
  <2>8. QED
    BY <2>3, <2>4, <2>5, <2>6, <2>7 DEF Next
<1>2. QED
  BY <1>1, StoreInvariant, PTL DEF Spec, NothingIsLost
=============================================================================
