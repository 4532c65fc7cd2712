------------------------- MODULE ProjectMemoryProofs -------------------------
(***************************************************************************)
(* Theorems about ProjectMemory, for any processes, actors, keys,          *)
(* classifications, clock and number of failing saves.  The argument goes  *)
(* key by key: what a write or a delete makes of one key's active record,  *)
(* history and tombstone keeps KeyOK (and, on a clock that moves, OrderOK);*)
(* a save stores all of a history, since a key with a history always has   *)
(* an active record or a tombstone; and a save that stops past the         *)
(* rotation leaves the whole of it in the backup.                          *)
(***************************************************************************)
EXTENDS ProjectMemory, SequenceTheorems, TLAPS

(* A record the store holds at the time now. *)
RecordOK(r, now) ==
    /\ r \in MemoryEntry
    /\ r.version >= 1
    /\ r.created <= r.updated
    /\ r.updated <= now

(* The record that r supersedes is in the history h. *)
LinkOK(r, h) ==
    r.version > 1 =>
       \E i \in 1 .. Len(h) :
          /\ r.supersedes = RecordId(h[i])
          /\ r.version = h[i].version + 1
          /\ r.created = h[i].created
          /\ r.updated >= h[i].updated

(* The active record e, the history h and the tombstone d of one key. *)
KeyOK(e, h, d, now) ==
    /\ h \in Seq(MemoryEntry)
    /\ e # None => RecordOK(e, now) /\ LinkOK(e, h)
    /\ d # None => RecordOK(d, now) /\ LinkOK(d, h)
    /\ \A i \in 1 .. Len(h) : RecordOK(h[i], now) /\ LinkOK(h[i], h)
    /\ e = None /\ d = None => h = << >>
    /\ e = None /\ Len(h) > 0 => d.supersedes = RecordId(h[Len(h)])

LEMMA SomeRecord ==
    ASSUME NEW r, NEW now, RecordOK(r, now) PROVE r # None
  BY DEF RecordOK, None

LEMMA PrefixByElement ==
    ASSUME NEW S, NEW s \in Seq(S), NEW t \in Seq(S)
    PROVE  IsPrefix(s, t) <=> /\ Len(s) <= Len(t)
                              /\ \A i \in 1 .. Len(s) : s[i] = t[i]
  <1>1. Len(s) \in Nat /\ Len(t) \in Nat
    OBVIOUS
  <1>2. \A i \in 1 .. Len(s) : s[i] \in S
    OBVIOUS
  <1>3. /\ SubSeq(s, 1, Len(s)) \in Seq(S)
        /\ Len(SubSeq(s, 1, Len(s))) = Len(s)
        /\ \A i \in 1 .. Len(s) : SubSeq(s, 1, Len(s))[i] = s[i]
    BY <1>1, <1>2
  <1>4. CASE Len(s) <= Len(t)
    <2>1. \A i \in 1 .. Len(s) : t[i] \in S
      BY <1>1, <1>4
    <2>2. /\ SubSeq(t, 1, Len(s)) \in Seq(S)
          /\ Len(SubSeq(t, 1, Len(s))) = Len(s)
          /\ \A i \in 1 .. Len(s) : SubSeq(t, 1, Len(s))[i] = t[i]
      BY <1>1, <1>4, <2>1
    <2>3. SubSeq(s, 1, Len(s)) = SubSeq(t, 1, Len(s))
             <=> \A i \in 1 .. Len(s) : s[i] = t[i]
      <3>1. ASSUME \A i \in 1 .. Len(s) : s[i] = t[i]
            PROVE  SubSeq(s, 1, Len(s)) = SubSeq(t, 1, Len(s))
        <4> DEFINE a == SubSeq(s, 1, Len(s))
                   b == SubSeq(t, 1, Len(s))
        <4>1. a \in Seq(S) /\ b \in Seq(S) /\ Len(a) = Len(b)
          BY <1>3, <2>2
        <4>2. \A i \in 1 .. Len(a) : a[i] = b[i]
          BY <1>3, <2>2, <3>1
        <4> HIDE DEF a, b
        <4>3. a = b
          BY <4>1, <4>2, SeqEqual
        <4> QED
          BY <4>3 DEF a, b
      <3> QED
        BY <3>1, <1>3, <2>2
    <2> QED
      BY <1>4, <2>3 DEF IsPrefix
  <1> QED
    BY <1>4 DEF IsPrefix

LEMMA PrefixOfSelf ==
    ASSUME NEW S, NEW s \in Seq(S) PROVE IsPrefix(s, s)
  BY PrefixByElement

LEMMA PrefixOfAppend ==
    ASSUME NEW S, NEW s \in Seq(S), NEW x \in S
    PROVE  IsPrefix(s, Append(s, x))
  <1>1. /\ Append(s, x) \in Seq(S) /\ Len(Append(s, x)) = Len(s) + 1
        /\ \A i \in 1 .. Len(s) : s[i] = Append(s, x)[i]
    OBVIOUS
  <1>2. Len(s) <= Len(Append(s, x))
    BY <1>1
  <1> QED
    BY <1>1, <1>2, PrefixByElement

LEMMA PrefixTransitive ==
    ASSUME NEW S, NEW s \in Seq(S), NEW t \in Seq(S), NEW u \in Seq(S),
           IsPrefix(s, t), IsPrefix(t, u)
    PROVE  IsPrefix(s, u)
  <1>1. /\ Len(s) <= Len(t) /\ \A i \in 1 .. Len(s) : s[i] = t[i]
        /\ Len(t) <= Len(u) /\ \A i \in 1 .. Len(t) : t[i] = u[i]
    BY PrefixByElement
  <1>2. Len(s) \in Nat /\ Len(t) \in Nat /\ Len(u) \in Nat
    OBVIOUS
  <1>3. Len(s) <= Len(u) /\ \A i \in 1 .. Len(s) : s[i] = u[i]
    BY <1>1, <1>2
  <1> QED
    BY <1>3, PrefixByElement
-----------------------------------------------------------------------------
LEMMA KeyLater ==
    ASSUME NEW e, NEW h, NEW d, NEW now \in Nat, NEW later \in Nat,
           now <= later, KeyOK(e, h, d, now)
    PROVE  KeyOK(e, h, d, later)
  <1>1. ASSUME NEW r, RecordOK(r, now) PROVE RecordOK(r, later)
    BY <1>1 DEF RecordOK, MemoryEntry
  <1> QED
    BY <1>1 DEF KeyOK

(* Appending keeps the links of the records that were there. *)
LEMMA LinkKept ==
    ASSUME NEW h \in Seq(MemoryEntry), NEW x \in MemoryEntry, NEW r,
           LinkOK(r, h)
    PROVE  LinkOK(r, Append(h, x))
  <1>1. /\ Len(Append(h, x)) = Len(h) + 1
        /\ \A i \in 1 .. Len(h) : Append(h, x)[i] = h[i]
        /\ Len(h) \in Nat
    OBVIOUS
  <1>2. \A i \in 1 .. Len(h) : i \in 1 .. Len(Append(h, x))
    BY <1>1
  <1> QED
    BY <1>1, <1>2 DEF LinkOK

(* The history of a key after its active record has moved there. *)
LEMMA HistoryAfter ==
    ASSUME NEW e, NEW h, NEW d, NEW now \in Nat,
           KeyOK(e, h, d, now), e # None
    PROVE  LET g == Append(h, e) IN
           /\ g \in Seq(MemoryEntry)
           /\ Len(g) = Len(h) + 1 /\ Len(h) \in Nat
           /\ g[Len(h) + 1] = e
           /\ \A i \in 1 .. Len(h) : g[i] = h[i]
           /\ \A i \in 1 .. Len(g) : RecordOK(g[i], now) /\ LinkOK(g[i], g)
           /\ IsPrefix(h, g)
  <1> DEFINE g == Append(h, e)
  <1>1. h \in Seq(MemoryEntry) /\ e \in MemoryEntry
    BY DEF KeyOK, RecordOK
  <1>2. /\ g \in Seq(MemoryEntry)
        /\ Len(g) = Len(h) + 1 /\ Len(h) \in Nat
        /\ g[Len(h) + 1] = e
        /\ \A i \in 1 .. Len(h) : g[i] = h[i]
    BY <1>1
  <1>3. ASSUME NEW i \in 1 .. Len(g) PROVE RecordOK(g[i], now) /\ LinkOK(g[i], g)
    <2>1. CASE i = Len(h) + 1
      BY <1>1, <1>2, <2>1, LinkKept DEF KeyOK
    <2>2. CASE i \in 1 .. Len(h)
      BY <1>1, <1>2, <2>2, LinkKept DEF KeyOK
    <2> QED
      BY <1>2, <2>1, <2>2
  <1>4. IsPrefix(h, g)
    BY <1>1, PrefixOfAppend
  <1> QED
    BY <1>2, <1>3, <1>4

LEMMA BuiltRecord ==
    ASSUME NEW e \in MemoryEntry \cup {None}, NEW now \in Nat,
           NEW actor \in Actors, NEW c \in VALID_CLASSIFICATIONS, NEW v,
           e # None => RecordOK(e, now)
    PROVE  LET r == BuildRecord(actor, e, c, v, now) IN
           /\ RecordOK(r, now)
           /\ e = None => r.version = 1 /\ r.created = now
           /\ e # None => /\ r.version = e.version + 1
                          /\ r.created = e.created
                          /\ r.supersedes = RecordId(e)
           /\ r.updated = now
  <1>1. StoredEvidence(c, v) \in BOOLEAN
    BY DEF StoredEvidence
  <1>2. CASE e = None
    BY <1>1, <1>2 DEF BuildRecord, RecordOK, MemoryEntry, None, NoId, Ids
  <1>3. CASE e # None
    BY <1>1, <1>3 DEF BuildRecord, RecordOK, MemoryEntry, RecordId, Ids
  <1> QED
    BY <1>2, <1>3

LEMMA BuriedRecord ==
    ASSUME NEW e, NEW now \in Nat, RecordOK(e, now), HUMAN_ROLE \in Actors
    PROVE  LET r == Tombstone(e, now) IN
           /\ RecordOK(r, now)
           /\ r.version = e.version + 1
           /\ r.created = e.created
           /\ r.supersedes = RecordId(e)
           /\ r.updated = now
  BY DEF Tombstone, RecordOK, MemoryEntry, RecordId, Ids, VALID_CLASSIFICATIONS

(* Write and update, for the key they are about. *)
LEMMA KeyAfterWrite ==
    ASSUME NEW e \in MemoryEntry \cup {None}, NEW h, NEW d, NEW now \in Nat,
           NEW actor \in Actors, NEW c \in VALID_CLASSIFICATIONS, NEW v,
           KeyOK(e, h, d, now)
    PROVE  KeyOK(BuildRecord(actor, e, c, v, now),
                 IF e = None THEN h ELSE Append(h, e), d, now)
  <1> DEFINE r == BuildRecord(actor, e, c, v, now)
             g == Append(h, e)
  <1>1. /\ RecordOK(r, now) /\ r # None
        /\ e = None => r.version = 1
        /\ e # None => /\ r.version = e.version + 1
                       /\ r.created = e.created
                       /\ r.supersedes = RecordId(e)
        /\ r.updated = now
    BY BuiltRecord, SomeRecord DEF KeyOK
  <1> SUFFICES KeyOK(r, IF e = None THEN h ELSE g, d, now)
    OBVIOUS
  <1> HIDE DEF r
  <1>2. CASE e = None
    BY <1>1, <1>2 DEF KeyOK, LinkOK
  <1>3. CASE e # None
    <2>1. /\ g \in Seq(MemoryEntry)
          /\ Len(g) = Len(h) + 1 /\ Len(h) \in Nat
          /\ g[Len(h) + 1] = e
          /\ \A i \in 1 .. Len(g) : RecordOK(g[i], now) /\ LinkOK(g[i], g)
      BY <1>3, HistoryAfter
    <2>2. Len(h) + 1 \in 1 .. Len(g)
      BY <2>1
    <2>3. now >= e.updated
      BY <1>3 DEF KeyOK, RecordOK, MemoryEntry
    <2>4. LinkOK(r, g)
      BY <1>1, <1>3, <2>1, <2>2, <2>3 DEF LinkOK
    <2>5. d # None => RecordOK(d, now) /\ LinkOK(d, g)
      BY <1>3, LinkKept DEF KeyOK, RecordOK
    <2> QED
      BY <1>1, <1>3, <2>1, <2>4, <2>5 DEF KeyOK
  <1> QED
    BY <1>2, <1>3

(* Delete, for the key it is about. *)
LEMMA KeyAfterDelete ==
    ASSUME NEW e, NEW h, NEW d, NEW now \in Nat, HUMAN_ROLE \in Actors,
           e # None, KeyOK(e, h, d, now)
    PROVE  KeyOK(None, Append(h, e), Tombstone(e, now), now)
  <1> DEFINE r == Tombstone(e, now)
             g == Append(h, e)
  <1>1. /\ RecordOK(r, now) /\ r # None
        /\ r.version = e.version + 1
        /\ r.created = e.created
        /\ r.supersedes = RecordId(e)
        /\ r.updated = now
    BY BuriedRecord, SomeRecord DEF KeyOK
  <1> HIDE DEF r
  <1>2. /\ g \in Seq(MemoryEntry)
        /\ Len(g) = Len(h) + 1 /\ Len(h) \in Nat
        /\ g[Len(h) + 1] = e
        /\ \A i \in 1 .. Len(g) : RecordOK(g[i], now) /\ LinkOK(g[i], g)
    BY HistoryAfter
  <1>3. Len(h) + 1 \in 1 .. Len(g)
    BY <1>2
  <1>4. now >= e.updated
    BY DEF KeyOK, RecordOK, MemoryEntry
  <1>5. LinkOK(r, g)
    BY <1>1, <1>2, <1>3, <1>4 DEF LinkOK
  <1> QED
    BY <1>1, <1>2, <1>5 DEF KeyOK, r
-----------------------------------------------------------------------------
StoreInv(s, now) ==
    /\ s \in Stores
    /\ \A k \in Keys : KeyOK(s.entries[k], s.history[k], s.deleted[k], now)

(* What a mutation at the time now makes of the stored content. *)
Mutated(s, now) ==
    \/ \E actor \in Actors, k \in Keys, c \in VALID_CLASSIFICATIONS,
          v \in Evidence :
          /\ Acceptable(actor, k, c, v)
          /\ s = WithRecord(Stored, k,
                            BuildRecord(actor, entries[k], c, v, now))
    \/ \E k \in Keys :
          /\ HUMAN_ROLE \in Actors
          /\ entries[k] # None
          /\ s = WithoutRecord(Stored, k, now)

LEMMA ClockMoves ==
    ASSUME NEW now \in 0 .. MaxClock, clock \in Nat, Now(now)
    PROVE  /\ clock' = now /\ clock' \in 0 .. MaxClock /\ clock <= clock'
           /\ clock' \in {clock + tick : tick \in Ticks}
  <1>1. clock' = now /\ now \in {clock + tick : tick \in Ticks}
    BY DEF Now
  <1>2. PICK tick \in Ticks : now = clock + tick
    BY <1>1
  <1> QED
    BY <1>1, <1>2, TicksAssumption

LEMMA NextShape ==
    ASSUME TypeOK, [Next]_vars
    PROVE  /\ clock \in Nat /\ clock' \in 0 .. MaxClock /\ clock <= clock'
           /\ \/ UNCHANGED vars
              \/ \E p \in Processes : Refresh(p)
              \/ Initialize
              \/ /\ clock' \in {clock + tick : tick \in Ticks}
                 /\ \E p \in Processes : \E s :
                       Mutated(s, clock') /\ Save(p, s)
  <1> clock \in 0 .. MaxClock /\ clock \in Nat
    BY MaxClockAssumption DEF TypeOK
  <1>1. ASSUME NEW p \in Processes, NEW actor \in Actors, NEW k \in Keys,
               NEW now \in 0 .. MaxClock, NEW c \in Classifications,
               NEW v \in Evidence, Write(p, actor, k, c, v, now)
        PROVE  /\ clock' \in 0 .. MaxClock /\ clock <= clock'
               /\ clock' \in {clock + tick : tick \in Ticks}
               /\ \E s : Mutated(s, clock') /\ Save(p, s)
    <2> DEFINE s == WithRecord(Stored, k,
                               BuildRecord(actor, entries[k], c, v, now))
    <2>1. Now(now) /\ Acceptable(actor, k, c, v) /\ Save(p, s)
      BY <1>1 DEF Write, Refreshed, Stored
    <2>2. /\ clock' = now /\ clock' \in 0 .. MaxClock /\ clock <= clock'
          /\ clock' \in {clock + tick : tick \in Ticks}
      BY <2>1, ClockMoves
    <2>3. Mutated(s, clock')
      BY <2>1, <2>2, ClassificationsAssumption DEF Mutated
    <2> HIDE DEF s
    <2> QED
      BY <2>1, <2>2, <2>3
  <1>2. ASSUME NEW p \in Processes, NEW actor \in Actors, NEW k \in Keys,
               NEW now \in 0 .. MaxClock, Delete(p, actor, k, now)
        PROVE  /\ clock' \in 0 .. MaxClock /\ clock <= clock'
               /\ clock' \in {clock + tick : tick \in Ticks}
               /\ \E s : Mutated(s, clock') /\ Save(p, s)
    <2> DEFINE s == WithoutRecord(Stored, k, now)
    <2>1. /\ Now(now) /\ actor = HUMAN_ROLE /\ entries[k] # None
          /\ Save(p, s)
      BY <1>2 DEF Delete, Refreshed, Stored
    <2>2. /\ clock' = now /\ clock' \in 0 .. MaxClock /\ clock <= clock'
          /\ clock' \in {clock + tick : tick \in Ticks}
      BY <2>1, ClockMoves
    <2>3. Mutated(s, clock')
      <3>1. HUMAN_ROLE \in Actors /\ entries[k] # None
        BY <2>1
      <3>2. s = WithoutRecord(Stored, k, clock')
        BY <2>2
      <3> HIDE DEF s
      <3> QED
        BY <3>1, <3>2 DEF Mutated
    <2> HIDE DEF s
    <2> QED
      BY <2>1, <2>2, <2>3
  <1>3. ASSUME NEW p \in Processes, Refresh(p) PROVE clock' = clock
    BY <1>3 DEF Refresh
  <1>4. ASSUME UNCHANGED vars PROVE clock' = clock
    BY <1>4 DEF vars
  <1>5. ASSUME Initialize PROVE clock' = clock
    BY <1>5 DEF Initialize
  <1> QED
    BY <1>1, <1>2, <1>3, <1>4, <1>5 DEF Next, Update

LEMMA WrittenStore ==
    ASSUME NEW s \in Stores, NEW k \in Keys, NEW r \in MemoryEntry
    PROVE  LET t == WithRecord(s, k, r) IN
           /\ t \in Stores
           /\ t.entries[k] = r /\ t.deleted[k] = s.deleted[k]
           /\ t.history[k] = IF s.entries[k] = None
                                THEN s.history[k]
                                ELSE Append(s.history[k], s.entries[k])
           /\ \A j \in Keys \ {k} : /\ t.entries[j] = s.entries[j]
                                    /\ t.history[j] = s.history[j]
                                    /\ t.deleted[j] = s.deleted[j]
  <1> DEFINE h == IF s.entries[k] = None
                THEN s.history[k] ELSE Append(s.history[k], s.entries[k])
  <1>1. h \in Seq(MemoryEntry)
    BY DEF Stores
  <1> DEFINE t == WithRecord(s, k, r)
  <1>2. t = [entries |-> [s.entries EXCEPT ![k] = r],
             history |-> [s.history EXCEPT ![k] = h],
             deleted |-> s.deleted]
    BY Zenon DEF WithRecord
  <1> SUFFICES
           /\ t \in Stores
           /\ t.entries[k] = r /\ t.deleted[k] = s.deleted[k]
           /\ t.history[k] = h
           /\ \A j \in Keys \ {k} : /\ t.entries[j] = s.entries[j]
                                    /\ t.history[j] = s.history[j]
                                    /\ t.deleted[j] = s.deleted[j]
    OBVIOUS
  <1> HIDE DEF h, t
  <1>3. /\ [s.entries EXCEPT ![k] = r] \in [Keys -> MemoryEntry \cup {None}]
        /\ [s.history EXCEPT ![k] = h] \in [Keys -> Seq(MemoryEntry)]
        /\ s.deleted \in [Keys -> MemoryEntry \cup {None}]
    BY <1>1 DEF Stores
  <1>4. t \in Stores
    BY <1>2, <1>3 DEF Stores
  <1> QED
    BY <1>2, <1>4 DEF Stores

LEMMA BuriedStore ==
    ASSUME NEW s \in Stores, NEW k \in Keys, NEW now \in Nat,
           s.entries[k] \in MemoryEntry,
           Tombstone(s.entries[k], now) \in MemoryEntry
    PROVE  LET t == WithoutRecord(s, k, now) IN
           /\ t \in Stores
           /\ t.entries[k] = None
           /\ t.deleted[k] = Tombstone(s.entries[k], now)
           /\ t.history[k] = Append(s.history[k], s.entries[k])
           /\ \A j \in Keys \ {k} : /\ t.entries[j] = s.entries[j]
                                    /\ t.history[j] = s.history[j]
                                    /\ t.deleted[j] = s.deleted[j]
  <1> DEFINE h == Append(s.history[k], s.entries[k])
             d == Tombstone(s.entries[k], now)
  <1>1. h \in Seq(MemoryEntry) /\ d \in MemoryEntry
    BY DEF Stores
  <1> DEFINE t == WithoutRecord(s, k, now)
  <1>2. t = [entries |-> [s.entries EXCEPT ![k] = None],
             history |-> [s.history EXCEPT ![k] = h],
             deleted |-> [s.deleted EXCEPT ![k] = d]]
    BY Zenon DEF WithoutRecord
  <1> SUFFICES
           /\ t \in Stores
           /\ t.entries[k] = None /\ t.deleted[k] = d
           /\ t.history[k] = h
           /\ \A j \in Keys \ {k} : /\ t.entries[j] = s.entries[j]
                                    /\ t.history[j] = s.history[j]
                                    /\ t.deleted[j] = s.deleted[j]
    OBVIOUS
  <1> HIDE DEF h, d, t
  <1>3. /\ [s.entries EXCEPT ![k] = None] \in [Keys -> MemoryEntry \cup {None}]
        /\ [s.history EXCEPT ![k] = h] \in [Keys -> Seq(MemoryEntry)]
        /\ [s.deleted EXCEPT ![k] = d] \in [Keys -> MemoryEntry \cup {None}]
    BY <1>1 DEF Stores
  <1>4. t \in Stores
    BY <1>2, <1>3 DEF Stores
  <1> QED
    BY <1>2, <1>4 DEF Stores
-----------------------------------------------------------------------------
LEMMA StoredFields ==
    /\ Stored.entries = entries
    /\ Stored.history = history
    /\ Stored.deleted = deleted
  BY DEF Stored

LEMMA StoreLater ==
    ASSUME NEW s, NEW now \in Nat, NEW later \in Nat, now <= later,
           StoreInv(s, now)
    PROVE  StoreInv(s, later)
  BY KeyLater DEF StoreInv

(* A key a mutation is not about. *)
LEMMA GrowsNowhere ==
    ASSUME NEW s \in Stores, NEW t, NEW k \in Keys,
           t.entries[k] = s.entries[k], t.history[k] = s.history[k]
    PROVE  /\ IsPrefix(s.history[k], t.history[k])
           /\ s.entries[k] \in {None, t.entries[k]}
  <1>1. s.history[k] \in Seq(MemoryEntry)
    BY DEF Stores
  <1> QED
    BY <1>1, PrefixOfSelf

LEMMA MutationKeeps ==
    ASSUME TypeOK, NEW now \in Nat, StoreInv(Stored, now),
           NEW t, Mutated(t, now)
    PROVE  StoreInv(t, now) /\ Keeps(Stored, t)
  <1> DEFINE s == Stored
  <1>0. s \in Stores
    BY DEF TypeOK
  <1>s. /\ s.entries = entries /\ s.history = history /\ s.deleted = deleted
        /\ \A j \in Keys :
              /\ KeyOK(s.entries[j], s.history[j], s.deleted[j], now)
              /\ s.entries[j] \in MemoryEntry \cup {None}
              /\ s.history[j] \in Seq(MemoryEntry)
    BY <1>0, StoredFields DEF StoreInv, Stores
  <1> HIDE DEF s
  <1>1. ASSUME NEW actor \in Actors, NEW k \in Keys,
               NEW c \in VALID_CLASSIFICATIONS, NEW v \in Evidence,
               t = WithRecord(s, k, BuildRecord(actor, entries[k], c, v, now))
        PROVE  StoreInv(t, now) /\ Keeps(s, t)
    <2> DEFINE e == s.entries[k]
               r == BuildRecord(actor, e, c, v, now)
               g == IF e = None THEN s.history[k] ELSE Append(s.history[k], e)
    <2>1. e \in MemoryEntry \cup {None} /\ s.history[k] \in Seq(MemoryEntry)
      BY <1>s
    <2>2. KeyOK(e, s.history[k], s.deleted[k], now)
      BY <1>s
    <2>3. r \in MemoryEntry
      BY <2>1, <2>2, BuiltRecord DEF KeyOK, RecordOK
    <2>4. KeyOK(r, g, s.deleted[k], now)
      BY <2>1, <2>2, KeyAfterWrite
    <2>5. t = WithRecord(s, k, r)
      BY <1>1, <1>s
    <2> HIDE DEF r
    <2>6. /\ t \in Stores
          /\ t.entries[k] = r /\ t.deleted[k] = s.deleted[k]
          /\ t.history[k] = g
          /\ \A j \in Keys \ {k} : /\ t.entries[j] = s.entries[j]
                                   /\ t.history[j] = s.history[j]
                                   /\ t.deleted[j] = s.deleted[j]
      BY <1>0, <2>3, <2>5, WrittenStore
    <2>7. IsPrefix(s.history[k], g)
      BY <2>1, <2>2, PrefixOfSelf, HistoryAfter
    <2>8. e = None \/ (Len(g) > 0 /\ g[Len(g)] = e)
      BY <2>1, <2>2, HistoryAfter
    <2> HIDE DEF e, g
    <2>9. StoreInv(t, now)
      <3>1. \A j \in Keys : KeyOK(t.entries[j], t.history[j], t.deleted[j], now)
        BY <2>4, <2>6, <1>s
      <3> QED
        BY <2>6, <3>1 DEF StoreInv
    <2>10. ASSUME NEW j \in Keys
           PROVE  /\ IsPrefix(s.history[j], t.history[j])
                  /\ \/ s.entries[j] \in {None, t.entries[j]}
                     \/ Len(t.history[j]) > 0
                          /\ t.history[j][Len(t.history[j])] = s.entries[j]
      <3>1. CASE j = k
        BY <3>1, <2>6, <2>7, <2>8 DEF e
      <3>2. CASE j # k
        BY <3>2, <2>6, <1>0, GrowsNowhere
      <3> QED
        BY <3>1, <3>2
    <2> QED
      BY <2>9, <2>10 DEF Keeps
  <1>2. ASSUME NEW k \in Keys, HUMAN_ROLE \in Actors, entries[k] # None,
               t = WithoutRecord(s, k, now)
        PROVE  StoreInv(t, now) /\ Keeps(s, t)
    <2> DEFINE e == s.entries[k]
               d == Tombstone(e, now)
               g == Append(s.history[k], e)
    <2>1. /\ KeyOK(e, s.history[k], s.deleted[k], now)
          /\ e # None /\ RecordOK(e, now)
      BY <1>s, <1>2 DEF KeyOK
    <2>2. e \in MemoryEntry /\ d \in MemoryEntry
      BY <1>2, <2>1, BuriedRecord DEF RecordOK
    <2>3. KeyOK(None, g, d, now)
      BY <1>2, <2>1, KeyAfterDelete
    <2>4. /\ t \in Stores
          /\ t.entries[k] = None /\ t.deleted[k] = d
          /\ t.history[k] = g
          /\ \A j \in Keys \ {k} : /\ t.entries[j] = s.entries[j]
                                   /\ t.history[j] = s.history[j]
                                   /\ t.deleted[j] = s.deleted[j]
      BY <1>0, <1>2, <2>2, BuriedStore
    <2>5. IsPrefix(s.history[k], g) /\ Len(g) > 0 /\ g[Len(g)] = e
      BY <2>1, HistoryAfter
    <2> HIDE DEF e, d, g
    <2>6. StoreInv(t, now)
      <3>1. \A j \in Keys : KeyOK(t.entries[j], t.history[j], t.deleted[j], now)
        BY <2>3, <2>4, <1>s
      <3> QED
        BY <2>4, <3>1 DEF StoreInv
    <2>7. ASSUME NEW j \in Keys
           PROVE  /\ IsPrefix(s.history[j], t.history[j])
                  /\ \/ s.entries[j] \in {None, t.entries[j]}
                     \/ Len(t.history[j]) > 0
                          /\ t.history[j][Len(t.history[j])] = s.entries[j]
      <3>1. CASE j = k
        BY <3>1, <2>4, <2>5 DEF e
      <3>2. CASE j # k
        BY <3>2, <2>4, <1>0, GrowsNowhere
      <3> QED
        BY <3>1, <3>2
    <2> QED
      BY <2>6, <2>7 DEF Keeps
  <1> QED
    BY <1>1, <1>2 DEF Mutated, s

LEMMA FreshStore ==
    ASSUME NEW now
    PROVE  Fresh \in Stores /\ StoreInv(Fresh, now)
  <1>1. Fresh \in Stores
    BY DEF Fresh, Stores
  <1>2. \A k \in Keys :
           KeyOK(Fresh.entries[k], Fresh.history[k], Fresh.deleted[k], now)
    BY DEF Fresh, KeyOK
  <1> QED
    BY <1>1, <1>2 DEF StoreInv

(* A save writes every history whole. *)
LEMMA HeldStored ==
    ASSUME NEW s, NEW now, StoreInv(s, now), FileHolds(s)
    PROVE  Stored' = s
  <1>1. \A k \in Keys : DumpedHistory(s, k) = s.history[k]
    <2> SUFFICES ASSUME NEW k \in Keys
                 PROVE  DumpedHistory(s, k) = s.history[k]
      OBVIOUS
    <2>1. s.entries[k] = None /\ s.deleted[k] = None => s.history[k] = << >>
      BY DEF StoreInv, KeyOK
    <2> QED
      BY <2>1 DEF DumpedHistory, Dumped
  <1>2. s.history = [k \in Keys |-> s.history[k]]
    BY DEF StoreInv, Stores
  <1>3. [k \in Keys |-> DumpedHistory(s, k)] = [k \in Keys |-> s.history[k]]
    BY <1>1
  <1>4. s = [entries |-> s.entries, history |-> s.history, deleted |-> s.deleted]
    BY DEF StoreInv, Stores
  <1> QED
    BY <1>2, <1>3, <1>4 DEF FileHolds, Stored
-----------------------------------------------------------------------------
(* What a step leaves on disk: the file that was there, an empty one where
   there was none, a backup and no file, or a mutation of the file that was
   there. *)
Untouched ==
    /\ Stored' = Stored /\ present' = present
    /\ bak' = bak \/ (present /\ bak' = Fresh)
Created == ~present /\ present' = TRUE /\ Stored' = Stored /\ bak' = bak
Vanishes == present /\ present' = FALSE /\ Stored' = Fresh /\ bak' = Stored
Rewritten ==
    /\ Mutated(Stored', clock') /\ present' = TRUE
    /\ bak' = IF present THEN Stored ELSE bak

(* A view shows a past of the store. *)
Past(v, s) ==
    \A k \in Keys :
       /\ IsPrefix(v.history[k], s.history[k])
       /\ v.entries[k] \in {None, s.entries[k]} \cup ToSet(s.history[k])

(* What a step makes of the view of p: it stays, shows the file, or shows a
   mutation that was not saved. *)
ViewStep(p) ==
    \/ view'[p] = view[p] /\ (p \in ahead \/ StartsOver => p \in ahead')
    \/ view'[p] = Stored'
    \/ Mutated(view'[p], clock') /\ p \in ahead'

Inv ==
    /\ TypeOK
    /\ StoreInv(Stored, clock)
    /\ ~present => Stored = Fresh

LEMMA MutationTyped ==
    ASSUME Inv, [Next]_vars, NEW s, Mutated(s, clock')
    PROVE  StoreInv(s, clock')
  <1>1. clock \in Nat /\ clock' \in Nat /\ clock <= clock'
    BY NextShape DEF Inv
  <1>2. StoreInv(Stored, clock')
    BY <1>1, StoreLater DEF Inv
  <1> QED
    BY <1>1, <1>2, MutationKeeps DEF Inv

(* The three ends of a save of s by p. *)
SaveLeaves(p, s) ==
    \/ /\ Rewritten /\ Stored' = s
       /\ ahead' = IF Forgotten THEN Processes \ {p} ELSE ahead \ {p}
    \/ Untouched /\ ahead' = ahead \cup {p}
    \/ Vanishes /\ ahead' = ahead \cup {p}

LEMMA SaveShape ==
    ASSUME Inv, [Next]_vars, NEW p \in Processes, NEW s,
           Mutated(s, clock'), Save(p, s)
    PROVE  /\ view' = [view EXCEPT ![p] = s]
           /\ SaveLeaves(p, s)
           /\ faults' \in 0 .. MaxFaults
  <1>1. FileHolds(s) => Stored' = s
    BY MutationTyped, HeldStored
  <1>2. FileHolds(Fresh) => Stored' = Fresh
    BY FreshStore, HeldStored
  <1>3. ASSUME Saved(p, s) PROVE SaveLeaves(p, s)
    <2>1. /\ Stored' = s /\ present' = TRUE /\ bak' = IF present THEN Stored ELSE bak
          /\ ahead' = IF Forgotten THEN Processes \ {p} ELSE ahead \ {p}
      BY <1>1, <1>3 DEF Saved
    <2>2. Rewritten
      BY <2>1 DEF Rewritten
    <2> QED
      BY <2>1, <2>2 DEF SaveLeaves
  <1>4. ASSUME NotSaved(p) PROVE SaveLeaves(p, s)
    <2>1. ASSUME UNCHANGED disk PROVE Untouched
      BY <2>1 DEF disk, Untouched, Stored
    <2>2. ASSUME present, bak' = Fresh,
                 UNCHANGED <<entries, history, deleted, present>>
          PROVE  Untouched
      BY <2>2 DEF Untouched, Stored
    <2>3. ASSUME present, bak' = Stored, present' = FALSE, FileHolds(Fresh)
          PROVE  Vanishes
      BY <1>2, <2>3 DEF Vanishes
    <2> QED
      BY <1>4, <2>1, <2>2, <2>3 DEF NotSaved, SaveLeaves
  <1>5. faults' \in 0 .. MaxFaults
    <2>1. faults \in 0 .. MaxFaults
      BY DEF Inv, TypeOK
    <2>2. CASE UNCHANGED faults
      BY <2>1, <2>2
    <2>3. CASE faults < MaxFaults /\ faults' = faults + 1
      BY <2>1, <2>3, MaxClockAssumption
    <2> QED
      BY <2>2, <2>3 DEF Save
  <1> QED
    BY <1>3, <1>4, <1>5 DEF Save

LEMMA Steps ==
    ASSUME Inv, [Next]_vars
    PROVE  /\ Untouched \/ Created \/ Vanishes \/ Rewritten
           /\ \A p \in Processes : ViewStep(p)
           /\ faults' \in 0 .. MaxFaults /\ ahead' \subseteq Processes
           /\ view' \in [Processes -> Stores]
  <1>0. /\ Stored \in Stores /\ view \in [Processes -> Stores]
        /\ faults \in 0 .. MaxFaults /\ ahead \subseteq Processes
    BY DEF Inv, TypeOK
  <1>1. CASE UNCHANGED vars
    <2>1. Untouched /\ UNCHANGED <<view, ahead, faults>> /\ ~StartsOver
      BY <1>1 DEF vars, disk, Stored, Untouched, StartsOver, Forgotten
    <2> QED
      BY <1>0, <2>1 DEF ViewStep
  <1>2. ASSUME NEW p \in Processes, Refresh(p)
        PROVE  /\ Untouched \/ Vanishes \/ Rewritten
               /\ \A q \in Processes : ViewStep(q)
               /\ faults' \in 0 .. MaxFaults /\ ahead' \subseteq Processes
               /\ view' \in [Processes -> Stores]
    <2>1. /\ view' = [view EXCEPT ![p] = Stored] /\ ahead' = ahead \ {p}
          /\ UNCHANGED <<disk, clock, faults>>
      BY <1>2 DEF Refresh
    <2>2. Untouched /\ ~StartsOver
      BY <2>1 DEF disk, Stored, Untouched, StartsOver, Forgotten
    <2>3. ASSUME NEW q \in Processes PROVE ViewStep(q)
      BY <1>0, <2>1, <2>2 DEF ViewStep, Untouched
    <2> QED
      BY <1>0, <2>1, <2>2, <2>3
  <1>3. ASSUME NEW p \in Processes, NEW s, Mutated(s, clock'), Save(p, s)
        PROVE  /\ Untouched \/ Vanishes \/ Rewritten
               /\ \A q \in Processes : ViewStep(q)
               /\ faults' \in 0 .. MaxFaults /\ ahead' \subseteq Processes
               /\ view' \in [Processes -> Stores]
    <2>1. /\ view' = [view EXCEPT ![p] = s]
          /\ SaveLeaves(p, s)
          /\ faults' \in 0 .. MaxFaults
      BY <1>3, SaveShape
    <2>2. s \in Stores
      BY <1>3, MutationTyped DEF StoreInv
    <2>3. ASSUME NEW q \in Processes PROVE ViewStep(q)
      <3>1. CASE q # p
        <4>1. view'[q] = view[q]
          BY <1>0, <2>1, <3>1
        <4>2. q \in ahead \/ StartsOver => q \in ahead'
          BY <2>1, <3>1
          DEF SaveLeaves, StartsOver, Forgotten, Untouched, Vanishes
        <4> QED
          BY <4>1, <4>2 DEF ViewStep
      <3>2. CASE q = p
        <4>1. view'[q] = s
          BY <1>0, <2>1, <3>2
        <4> QED
          BY <1>3, <2>1, <3>2, <4>1 DEF ViewStep, SaveLeaves
      <3> QED
        BY <3>1, <3>2
    <2> QED
      BY <1>0, <2>1, <2>2, <2>3 DEF SaveLeaves
  <1>4. ASSUME Initialize
        PROVE  /\ Created
               /\ \A q \in Processes : ViewStep(q)
               /\ UNCHANGED <<view, faults>> /\ ahead' \subseteq Processes
    <2>1. Created /\ UNCHANGED <<view, faults>>
      BY <1>4 DEF Initialize, Created, Stored
    <2>2. ahead' = IF Forgotten THEN Processes ELSE ahead
      BY <1>4 DEF Initialize
    <2>3. ASSUME NEW q \in Processes PROVE ViewStep(q)
      BY <2>1, <2>2 DEF ViewStep, StartsOver
    <2> QED
      BY <1>0, <2>1, <2>2, <2>3
  <1> QED
    BY <1>0, <1>1, <1>2, <1>3, <1>4, NextShape DEF Inv

LEMMA KeepsSelf == ASSUME NEW s \in Stores PROVE Keeps(s, s)
  BY GrowsNowhere DEF Keeps

LEMMA InvInit == Init => Inv
  <1> SUFFICES ASSUME Init PROVE Inv
    OBVIOUS
  <1>1. Stored = Fresh
    BY DEF Init, Stored, Fresh
  <1>2. Fresh \in Stores /\ StoreInv(Fresh, clock)
    BY FreshStore
  <1>3. TypeOK
    BY <1>1, <1>2, MaxClockAssumption DEF Init, TypeOK
  <1> QED
    BY <1>1, <1>2, <1>3 DEF Inv

LEMMA StoreAfter ==
    ASSUME Inv, [Next]_vars
    PROVE  StoreInv(Stored', clock') /\ (~present' => Stored' = Fresh)
  <1>1. clock \in Nat /\ clock' \in Nat /\ clock <= clock'
    BY NextShape DEF Inv
  <1>2. CASE Untouched
    BY <1>1, <1>2, StoreLater DEF Inv, Untouched
  <1>3. CASE Vanishes
    BY <1>3, FreshStore DEF Vanishes
  <1>4. CASE Rewritten
    BY <1>4, MutationTyped DEF Rewritten
  <1>5. CASE Created
    BY <1>1, <1>5, StoreLater DEF Inv, Created
  <1> QED
    BY <1>2, <1>3, <1>4, <1>5, Steps

LEMMA InvNext == Inv /\ [Next]_vars => Inv'
  <1> SUFFICES ASSUME Inv, [Next]_vars PROVE Inv'
    OBVIOUS
  <1>1. StoreInv(Stored', clock') /\ (~present' => Stored' = Fresh)
    BY StoreAfter
  <1>2. clock' \in 0 .. MaxClock
    BY NextShape DEF Inv
  <1>3. present' \in BOOLEAN /\ bak' \in Stores
    BY Steps, FreshStore
    DEF Inv, TypeOK, Untouched, Created, Vanishes, Rewritten
  <1>4. TypeOK'
    BY <1>1, <1>2, <1>3, Steps DEF TypeOK, StoreInv
  <1> QED
    BY <1>1, <1>4 DEF Inv, StoreInv, Fresh

LEMMA InvAlways == Spec => []Inv
  BY InvInit, InvNext, PTL DEF Spec

(* TypeOK: the file, its backup and every view hold records of all fields for
   every key, whatever is written, deleted, reloaded, or fails to be saved. *)
THEOREM MemoryTypeCorrect == Spec => []TypeOK
  BY InvAlways, PTL DEF Inv

(* What is known stays known, but for a step that starts over. *)
LEMMA KnownKept ==
    ASSUME Inv, [Next]_vars, ~StartsOver
    PROVE  Keeps(Known, Known')
  <1>0. Stored \in Stores /\ bak \in Stores
    BY DEF Inv, TypeOK
  <1>1. CASE Untouched
    <2>1. Known' = Known /\ Known \in Stores
      BY <1>0, <1>1 DEF Untouched, Known
    <2> QED
      BY <2>1, KeepsSelf
  <1>2. CASE Vanishes
    <2>1. Known = Stored /\ Known' = Stored
      BY <1>2 DEF Vanishes, Known
    <2> QED
      BY <1>0, <2>1, KeepsSelf
  <1>3. CASE Rewritten
    <2>1. Known = Stored /\ Known' = Stored'
      BY <1>3 DEF Rewritten, Known, StartsOver, Forgotten, Inv
    <2>2. clock \in Nat /\ clock' \in Nat /\ clock <= clock'
      BY NextShape DEF Inv
    <2>3. StoreInv(Stored, clock')
      BY <2>2, StoreLater DEF Inv
    <2>4. Keeps(Stored, Stored')
      BY <1>3, <2>2, <2>3, MutationKeeps DEF Inv, Rewritten
    <2> QED
      BY <2>1, <2>4
  <1>4. CASE Created
    <2>1. Known = Fresh /\ Known' = Fresh
      BY <1>4 DEF Created, Known, StartsOver, Forgotten, Inv
    <2> QED
      BY <2>1, FreshStore, KeepsSelf
  <1> QED
    BY <1>1, <1>2, <1>3, <1>4, Steps

(* FactsAreKept: wherever a save stops, no step but one that starts over drops
   a record from the file or from the backup of a file that is gone. *)
THEOREM FactsKept == Spec => FactsAreKept
  <1>1. Inv /\ [Next]_vars => [Keeps(Known, Known') \/ StartsOver]_vars
    BY KnownKept
  <1> QED
    BY <1>1, InvAlways, PTL DEF Spec, FactsAreKept
-----------------------------------------------------------------------------
LEMMA HistorySet ==
    ASSUME NEW k \in Keys, history[k] \in Seq(MemoryEntry)
    PROVE  /\ \A i \in 1 .. Len(history[k]) : history[k][i] \in ToSet(history[k])
           /\ \A r \in ToSet(history[k]) :
                 \E i \in 1 .. Len(history[k]) : r = history[k][i]
  BY DEF ToSet

LEMMA ChainFromInv == Inv => VersionChain
  <1> SUFFICES ASSUME Inv, NEW k \in Keys
               PROVE  /\ \A r \in Retained(k) : r.version > 1 =>
                            \E s \in ToSet(history[k]) :
                               /\ r.supersedes = RecordId(s)
                               /\ r.version = s.version + 1
                               /\ r.created = s.created
                               /\ r.updated >= s.updated
                      /\ entries[k] = None /\ history[k] # << >> =>
                            deleted[k].supersedes
                               = RecordId(history[k][Len(history[k])])
    BY DEF VersionChain
  <1>1. KeyOK(entries[k], history[k], deleted[k], clock)
    BY StoredFields DEF Inv, StoreInv
  <1>2. history[k] \in Seq(MemoryEntry)
    BY <1>1 DEF KeyOK
  <1>3. ASSUME NEW r \in Retained(k) PROVE LinkOK(r, history[k])
    BY <1>1, <1>2, HistorySet DEF Retained, KeyOK
  <1>4. ASSUME NEW r \in Retained(k), r.version > 1
        PROVE  \E s \in ToSet(history[k]) :
                  /\ r.supersedes = RecordId(s)
                  /\ r.version = s.version + 1
                  /\ r.created = s.created
                  /\ r.updated >= s.updated
    BY <1>2, <1>3, <1>4, HistorySet DEF LinkOK
  <1>5. history[k] # << >> => Len(history[k]) > 0
    BY <1>2
  <1> QED
    BY <1>1, <1>4, <1>5 DEF KeyOK

(* VersionChain: every record of version above 1 supersedes the version before
   it, which the key still holds, however updates, deletions and new lives of
   the key follow each other. *)
THEOREM VersionsAreAChain == Spec => []VersionChain
  BY InvAlways, ChainFromInv, PTL
-----------------------------------------------------------------------------
LEMMA PastOfGrown ==
    ASSUME NEW v \in Stores, NEW s \in Stores, NEW t \in Stores,
           Past(v, s), Keeps(s, t)
    PROVE  Past(v, t)
  <1> SUFFICES ASSUME NEW k \in Keys
               PROVE  /\ IsPrefix(v.history[k], t.history[k])
                      /\ v.entries[k] \in
                            {None, t.entries[k]} \cup ToSet(t.history[k])
    BY DEF Past
  <1>0. /\ v.history[k] \in Seq(MemoryEntry) /\ s.history[k] \in Seq(MemoryEntry)
        /\ t.history[k] \in Seq(MemoryEntry)
    BY DEF Stores
  <1>1. /\ IsPrefix(v.history[k], s.history[k])
        /\ IsPrefix(s.history[k], t.history[k])
        /\ v.entries[k] \in {None, s.entries[k]} \cup ToSet(s.history[k])
        /\ \/ s.entries[k] \in {None, t.entries[k]}
           \/ Len(t.history[k]) > 0
                /\ t.history[k][Len(t.history[k])] = s.entries[k]
    BY DEF Past, Keeps
  <1>2. IsPrefix(v.history[k], t.history[k])
    BY <1>0, <1>1, PrefixTransitive
  <1>3. ToSet(s.history[k]) \subseteq ToSet(t.history[k])
    <2>1. /\ Len(s.history[k]) <= Len(t.history[k])
          /\ \A i \in 1 .. Len(s.history[k]) : s.history[k][i] = t.history[k][i]
      BY <1>0, <1>1, PrefixByElement
    <2> QED
      BY <1>0, <2>1 DEF ToSet
  <1>4. s.entries[k] \in {None, t.entries[k]} \cup ToSet(t.history[k])
    BY <1>0, <1>1 DEF ToSet
  <1> QED
    BY <1>1, <1>2, <1>3, <1>4

LEMMA PastOfSelf == ASSUME NEW s \in Stores PROVE Past(s, s)
  <1>1. \A k \in Keys : s.history[k] \in Seq(MemoryEntry)
    BY DEF Stores
  <1> QED
    BY <1>1, PrefixOfSelf DEF Past

LEMMA FreshIsPast == ASSUME NEW s \in Stores PROVE Past(Fresh, s)
  <1> SUFFICES ASSUME NEW k \in Keys
               PROVE  /\ IsPrefix(Fresh.history[k], s.history[k])
                      /\ Fresh.entries[k] = None
    BY DEF Past
  <1>1. /\ Fresh.history[k] = << >> /\ Fresh.entries[k] = None
        /\ << >> \in Seq(MemoryEntry) /\ Len(<< >>) = 0
        /\ s.history[k] \in Seq(MemoryEntry)
    BY DEF Fresh, Stores
  <1>2. /\ Len(<< >>) <= Len(s.history[k])
        /\ \A i \in 1 .. Len(<< >>) : << >>[i] = s.history[k][i]
    BY <1>1
  <1>3. IsPrefix(<< >>, s.history[k])
    <2> DEFINE none == << >>
               h == s.history[k]
    <2>1. none \in Seq(MemoryEntry) /\ h \in Seq(MemoryEntry)
      BY <1>1
    <2>2. /\ Len(none) <= Len(h)
          /\ \A i \in 1 .. Len(none) : none[i] = h[i]
      BY <1>2
    <2> HIDE DEF none, h
    <2>3. IsPrefix(none, h)
      BY <2>1, <2>2, PrefixByElement
    <2> QED
      BY <2>3 DEF none, h
  <1> QED
    BY <1>1, <1>3

ViewsPast == \A p \in Processes \ ahead : Past(view[p], Known)

LEMMA ViewsPastNext == Inv /\ ViewsPast /\ [Next]_vars => ViewsPast'
  <1> SUFFICES ASSUME Inv, ViewsPast, [Next]_vars,
                      NEW p \in Processes, p \notin ahead'
               PROVE  Past(view'[p], Known')
    BY DEF ViewsPast
  <1>1. Known \in Stores /\ view[p] \in Stores
    BY DEF Inv, TypeOK, Known
  <1>2. Inv'
    BY InvNext
  <1>3. Known' \in Stores /\ Stored' \in Stores
    BY <1>2 DEF Inv, TypeOK, Known
  <1>4. ViewStep(p)
    BY Steps
  <1>5. CASE view'[p] = view[p] /\ p \notin ahead /\ ~StartsOver
    BY <1>1, <1>3, <1>5, KnownKept, PastOfGrown DEF ViewsPast
  <1>6. CASE view'[p] = Stored'
    <2>1. CASE present'
      BY <1>3, <1>6, <2>1, PastOfSelf DEF Known
    <2>2. CASE ~present'
      BY <1>3, <1>6, <2>2, StoreAfter, FreshIsPast
    <2> QED
      BY <2>1, <2>2
  <1> QED
    BY <1>4, <1>5, <1>6 DEF ViewStep

(* ViewsAreOfThePast: what a process shows the store held at some time and
   still holds, in the file or in the backup of a file that is gone, unless the
   process's own last save has failed or another's save has started over since,
   for any number of processes and failing saves. *)
THEOREM ViewsShowThePast == Spec => []ViewsAreOfThePast
  <1>1. Init => ViewsPast
    <2> SUFFICES ASSUME Init, NEW p \in Processes PROVE Past(view[p], Known)
      BY DEF ViewsPast
    <2>1. view[p] = Fresh /\ Known \in Stores
      BY InvInit DEF Init, Inv, TypeOK, Known
    <2> QED
      BY <2>1, FreshIsPast
  <1>2. ViewsPast => ViewsAreOfThePast
    BY DEF ViewsPast, Past, ViewsAreOfThePast
  <1> QED
    BY <1>1, <1>2, ViewsPastNext, InvAlways, PTL DEF Spec
-----------------------------------------------------------------------------
LEMMA MutationBacked ==
    ASSUME Inv, Backed(Stored), "iterator" \notin Evidence, NEW now \in Nat,
           StoreInv(Stored, now), NEW t, Mutated(t, now)
    PROVE  Backed(t)
  <1> DEFINE s == Stored
  <1>0. s \in Stores /\ s.entries = entries
    BY StoredFields DEF Inv, TypeOK
  <1> HIDE DEF s
  <1>1. ASSUME NEW actor \in Actors, NEW k \in Keys,
               NEW c \in VALID_CLASSIFICATIONS, NEW v \in Evidence,
               Acceptable(actor, k, c, v),
               t = WithRecord(s, k, BuildRecord(actor, entries[k], c, v, now))
        PROVE  Backed(t)
    <2> DEFINE r == BuildRecord(actor, entries[k], c, v, now)
    <2>1. /\ r.recorded_by = actor /\ r.classification = c
          /\ r.evidenced = StoredEvidence(c, v)
      BY DEF BuildRecord
    <2>2. c \in TRUSTED_CLASSIFICATIONS => StoredEvidence(c, v)
      BY <1>1, EvidenceAssumption DEF Acceptable, StoredEvidence
    <2> HIDE DEF r
    <2>3. t.entries = [s.entries EXCEPT ![k] = r]
      BY <1>1 DEF WithRecord, r
    <2>4. ASSUME NEW j \in TrustedEntries(t)
          PROVE  /\ t.entries[j].evidenced
                 /\ MayWrite(t.entries[j].recorded_by, j[1])
                 /\ t.entries[j].classification = "HUMAN_APPROVED" =>
                       t.entries[j].recorded_by = HUMAN_ROLE
      <3>1. CASE j = k
        <4>1. t.entries[j] = r
          BY <1>0, <2>3, <3>1 DEF Stores
        <4>2. c \in TRUSTED_CLASSIFICATIONS
          BY <2>1, <4>1 DEF TrustedEntries
        <4> QED
          BY <1>1, <2>1, <2>2, <3>1, <4>1, <4>2
          DEF Acceptable, HUMAN_AUTHORITY_CLASSIFICATIONS
      <3>2. CASE j # k
        <4>1. t.entries[j] = s.entries[j] /\ j \in Keys
          BY <1>0, <2>3, <3>2 DEF Stores, TrustedEntries
        <4>2. j \in TrustedEntries(s)
          BY <4>1 DEF TrustedEntries
        <4> QED
          BY <4>1, <4>2 DEF Backed, s
      <3> QED
        BY <3>1, <3>2
    <2> QED
      BY <2>4 DEF Backed
  <1>2. ASSUME NEW k \in Keys, t = WithoutRecord(s, k, now)
        PROVE  Backed(t)
    <2>1. t.entries = [s.entries EXCEPT ![k] = None]
      BY <1>2 DEF WithoutRecord
    <2>2. ASSUME NEW j \in TrustedEntries(t)
          PROVE  t.entries[j] = s.entries[j] /\ j \in TrustedEntries(s)
      BY <1>0, <2>1, <2>2 DEF Stores, TrustedEntries
    <2> QED
      BY <2>2 DEF Backed, s
  <1> QED
    BY <1>1, <1>2 DEF Mutated, s

LEMMA FreshBacked == Backed(Fresh)
  BY DEF Backed, TrustedEntries, Fresh

AllBacked == Backed(Stored) /\ \A p \in Processes : Backed(view[p])

LEMMA BackedNext ==
    ASSUME "iterator" \notin Evidence
    PROVE  Inv /\ AllBacked /\ [Next]_vars => AllBacked'
  <1> SUFFICES ASSUME Inv, AllBacked, [Next]_vars PROVE AllBacked'
    OBVIOUS
  <1>1. clock \in Nat /\ clock' \in Nat /\ clock <= clock'
    BY NextShape DEF Inv
  <1>2. StoreInv(Stored, clock')
    BY <1>1, StoreLater DEF Inv
  <1>3. \A t : Mutated(t, clock') => Backed(t)
    BY <1>1, <1>2, MutationBacked DEF AllBacked
  <1>4. Backed(Stored')
    BY <1>3, Steps, FreshBacked
    DEF Untouched, Created, Vanishes, Rewritten, AllBacked
  <1>5. \A p \in Processes : Backed(view'[p])
    BY <1>3, <1>4, Steps DEF ViewStep, AllBacked
  <1> QED
    BY <1>4, <1>5 DEF AllBacked, Backed, TrustedEntries

(* PromptIsBacked: a record shown as trusted has evidence and an author with
   authority over its category, as long as no caller passes its evidence as an
   iterator (memory.py walks it twice). *)
THEOREM TrustedIsBacked ==
    ASSUME "iterator" \notin Evidence
    PROVE  Spec => []PromptIsBacked
  <1>1. Init => AllBacked
    <2>1. Init => Stored = Fresh /\ \A p \in Processes : view[p] = Fresh
      BY DEF Init, Stored, Fresh
    <2> QED
      BY <2>1, FreshBacked DEF AllBacked
  <1>2. AllBacked => PromptIsBacked
    BY DEF AllBacked, PromptIsBacked
  <1> QED
    BY <1>1, <1>2, BackedNext, InvAlways, PTL DEF Spec
-----------------------------------------------------------------------------
(* r was made before s: in an earlier life of the key, or as an earlier
   version in the same life. *)
Older(r, s) ==
    \/ r.created < s.created
    \/ r.created = s.created /\ r.version < s.version

(* The records of one key in the order they were made. *)
OrderOK(e, h, d) ==
    /\ \A i, j \in 1 .. Len(h) : i < j => Older(h[i], h[j])
    /\ e # None => \A i \in 1 .. Len(h) : Older(h[i], e)
    /\ d # None => \A i \in 1 .. Len(h) : Older(h[i], d) \/ Older(d, h[i])
    /\ d # None /\ e # None => Older(d, e)

LEMMA OlderTransitive ==
    ASSUME NEW r \in MemoryEntry, NEW s \in MemoryEntry, NEW t \in MemoryEntry,
           Older(r, s), Older(s, t)
    PROVE  Older(r, t)
  BY DEF Older, MemoryEntry

LEMMA OrderAfterMove ==
    ASSUME NEW e, NEW h, NEW d, NEW now \in Nat,
           KeyOK(e, h, d, now), OrderOK(e, h, d), e # None
    PROVE  LET g == Append(h, e) IN
           /\ \A i, j \in 1 .. Len(g) : i < j => Older(g[i], g[j])
           /\ d # None => \A i \in 1 .. Len(g) : Older(g[i], d) \/ Older(d, g[i])
  <1> DEFINE g == Append(h, e)
  <1>1. /\ Len(g) = Len(h) + 1 /\ Len(h) \in Nat
        /\ g[Len(h) + 1] = e
        /\ \A i \in 1 .. Len(h) : g[i] = h[i]
    BY HistoryAfter
  <1> HIDE DEF g
  <1>2. \A i \in 1 .. Len(g) : i \in 1 .. Len(h) \/ i = Len(h) + 1
    BY <1>1
  <1>3. ASSUME NEW i \in 1 .. Len(g), NEW j \in 1 .. Len(g), i < j
        PROVE  Older(g[i], g[j])
    <2>1. i \in 1 .. Len(h)
      BY <1>1, <1>3
    <2>2. CASE j \in 1 .. Len(h)
      BY <1>1, <1>3, <2>1, <2>2 DEF OrderOK
    <2>3. CASE j = Len(h) + 1
      BY <1>1, <2>1, <2>3 DEF OrderOK
    <2> QED
      BY <1>2, <2>2, <2>3
  <1>4. ASSUME d # None, NEW i \in 1 .. Len(g)
        PROVE  Older(g[i], d) \/ Older(d, g[i])
    BY <1>1, <1>2, <1>4 DEF OrderOK
  <1> QED
    BY <1>3, <1>4 DEF g

LEMMA OrderAfterWrite ==
    ASSUME NEW e \in MemoryEntry \cup {None}, NEW h, NEW d,
           NEW before \in Nat, NEW now \in Nat, before < now,
           NEW actor \in Actors, NEW c \in VALID_CLASSIFICATIONS, NEW v,
           KeyOK(e, h, d, before), OrderOK(e, h, d)
    PROVE  OrderOK(BuildRecord(actor, e, c, v, now),
                   IF e = None THEN h ELSE Append(h, e), d)
  <1> DEFINE r == BuildRecord(actor, e, c, v, now)
             g == Append(h, e)
  <1>0. KeyOK(e, h, d, now)
    BY KeyLater
  <1>1. /\ r \in MemoryEntry
        /\ e = None => r.version = 1 /\ r.created = now
        /\ e # None => /\ r.version = e.version + 1
                       /\ r.created = e.created
    BY <1>0, BuiltRecord DEF KeyOK, RecordOK
  <1>2. \A x : RecordOK(x, before) => x \in MemoryEntry /\ x.created < now
    BY DEF RecordOK, MemoryEntry
  <1> SUFFICES OrderOK(r, IF e = None THEN h ELSE g, d)
    OBVIOUS
  <1> HIDE DEF r, g
  <1>3. CASE e = None
    <2>1. \A i \in 1 .. Len(h) : Older(h[i], r)
      BY <1>1, <1>2, <1>3 DEF KeyOK, Older
    <2>2. d # None => Older(d, r)
      BY <1>1, <1>2, <1>3 DEF KeyOK, Older
    <2> QED
      BY <1>3, <2>1, <2>2 DEF OrderOK
  <1>4. CASE e # None
    <2>1. e \in MemoryEntry /\ Older(e, r)
      BY <1>1, <1>2, <1>4 DEF KeyOK, Older, MemoryEntry
    <2>2. /\ Len(g) = Len(h) + 1 /\ Len(h) \in Nat
          /\ g[Len(h) + 1] = e
          /\ \A i \in 1 .. Len(h) : g[i] = h[i] /\ h[i] \in MemoryEntry
      BY <1>0, <1>4, HistoryAfter DEF g, KeyOK, RecordOK
    <2>3. \A i \in 1 .. Len(g) : Older(g[i], r)
      <3>1. \A i \in 1 .. Len(h) : Older(h[i], e)
        BY <1>4 DEF OrderOK
      <3>2. \A i \in 1 .. Len(h) : Older(g[i], r)
        BY <1>1, <2>1, <2>2, <3>1, OlderTransitive
      <3>3. \A i \in 1 .. Len(g) : i \in 1 .. Len(h) \/ i = Len(h) + 1
        BY <2>2
      <3> QED
        BY <2>1, <2>2, <3>2, <3>3
    <2>4. d # None => Older(d, r)
      <3>1. d # None => d \in MemoryEntry /\ Older(d, e)
        BY <1>4 DEF OrderOK, KeyOK, RecordOK
      <3> QED
        BY <1>1, <2>1, <3>1, OlderTransitive
    <2>5. /\ \A i, j \in 1 .. Len(g) : i < j => Older(g[i], g[j])
          /\ d # None => \A i \in 1 .. Len(g) : Older(g[i], d) \/ Older(d, g[i])
      BY <1>0, <1>4, OrderAfterMove DEF g
    <2> QED
      BY <1>4, <2>3, <2>4, <2>5 DEF OrderOK
  <1> QED
    BY <1>3, <1>4

LEMMA OrderAfterDelete ==
    ASSUME NEW e, NEW h, NEW d, NEW now \in Nat, HUMAN_ROLE \in Actors,
           e # None, KeyOK(e, h, d, now), OrderOK(e, h, d)
    PROVE  OrderOK(None, Append(h, e), Tombstone(e, now))
  <1> DEFINE r == Tombstone(e, now)
             g == Append(h, e)
  <1>1. /\ e \in MemoryEntry /\ r \in MemoryEntry
        /\ r.version = e.version + 1 /\ r.created = e.created
    BY BuriedRecord DEF KeyOK, RecordOK
  <1>2. /\ Len(g) = Len(h) + 1 /\ Len(h) \in Nat
        /\ g[Len(h) + 1] = e
        /\ \A i \in 1 .. Len(h) : g[i] = h[i] /\ h[i] \in MemoryEntry
    BY HistoryAfter DEF KeyOK, RecordOK
  <1>3. \A i, j \in 1 .. Len(g) : i < j => Older(g[i], g[j])
    BY OrderAfterMove
  <1> HIDE DEF r, g
  <1>4. Older(e, r)
    BY <1>1 DEF Older, MemoryEntry
  <1>5. \A i \in 1 .. Len(g) : Older(g[i], r)
    <2>1. \A i \in 1 .. Len(h) : Older(h[i], e)
      BY DEF OrderOK
    <2>2. \A i \in 1 .. Len(h) : Older(g[i], r)
      BY <1>1, <1>2, <1>4, <2>1, OlderTransitive
    <2>3. \A i \in 1 .. Len(g) : i \in 1 .. Len(h) \/ i = Len(h) + 1
      BY <1>2
    <2> QED
      BY <1>2, <1>4, <2>2, <2>3
  <1> QED
    BY <1>3, <1>5 DEF OrderOK, r, g
StoreOrder(s) ==
    \A k \in Keys : OrderOK(s.entries[k], s.history[k], s.deleted[k])

LEMMA MutationOrdered ==
    ASSUME Inv, StoreOrder(Stored), NEW now \in Nat, clock < now,
           NEW t, Mutated(t, now)
    PROVE  StoreOrder(t)
  <1> DEFINE s == Stored
  <1>0. s \in Stores /\ clock \in Nat
    BY DEF Inv, TypeOK
  <1>s. /\ s.entries = entries
        /\ \A j \in Keys :
              /\ KeyOK(s.entries[j], s.history[j], s.deleted[j], clock)
              /\ OrderOK(s.entries[j], s.history[j], s.deleted[j])
              /\ s.entries[j] \in MemoryEntry \cup {None}
    BY <1>0, StoredFields DEF Inv, StoreInv, StoreOrder, Stores
  <1>n. \A j \in Keys : KeyOK(s.entries[j], s.history[j], s.deleted[j], now)
    BY <1>0, <1>s, KeyLater
  <1> HIDE DEF s
  <1>1. ASSUME NEW actor \in Actors, NEW k \in Keys,
               NEW c \in VALID_CLASSIFICATIONS, NEW v \in Evidence,
               t = WithRecord(s, k, BuildRecord(actor, entries[k], c, v, now))
        PROVE  StoreOrder(t)
    <2> DEFINE e == s.entries[k]
               r == BuildRecord(actor, e, c, v, now)
               g == IF e = None THEN s.history[k] ELSE Append(s.history[k], e)
    <2>1. e \in MemoryEntry \cup {None}
      BY <1>s
    <2>2. /\ KeyOK(e, s.history[k], s.deleted[k], clock)
          /\ KeyOK(e, s.history[k], s.deleted[k], now)
          /\ OrderOK(e, s.history[k], s.deleted[k])
      BY <1>s, <1>n
    <2>3. r \in MemoryEntry
      BY <2>1, <2>2, BuiltRecord DEF KeyOK, RecordOK
    <2>4. OrderOK(r, g, s.deleted[k])
      BY <1>0, <2>1, <2>2, OrderAfterWrite
    <2>5. t = WithRecord(s, k, r)
      BY <1>1, <1>s
    <2> HIDE DEF r
    <2>6. /\ t.entries[k] = r /\ t.deleted[k] = s.deleted[k]
          /\ t.history[k] = g
          /\ \A j \in Keys \ {k} : /\ t.entries[j] = s.entries[j]
                                   /\ t.history[j] = s.history[j]
                                   /\ t.deleted[j] = s.deleted[j]
      BY <1>0, <2>3, <2>5, WrittenStore
    <2> HIDE DEF e, g
    <2> QED
      BY <2>4, <2>6, <1>s DEF StoreOrder
  <1>2. ASSUME NEW k \in Keys, HUMAN_ROLE \in Actors, entries[k] # None,
               t = WithoutRecord(s, k, now)
        PROVE  StoreOrder(t)
    <2> DEFINE e == s.entries[k]
               d == Tombstone(e, now)
               g == Append(s.history[k], e)
    <2>1. /\ KeyOK(e, s.history[k], s.deleted[k], now)
          /\ OrderOK(e, s.history[k], s.deleted[k])
          /\ e # None /\ RecordOK(e, now)
      BY <1>s, <1>n, <1>2 DEF KeyOK
    <2>2. e \in MemoryEntry /\ d \in MemoryEntry
      BY <1>2, <2>1, BuriedRecord DEF RecordOK
    <2>3. OrderOK(None, g, d)
      BY <1>2, <2>1, OrderAfterDelete
    <2>4. /\ t.entries[k] = None /\ t.deleted[k] = d
          /\ t.history[k] = g
          /\ \A j \in Keys \ {k} : /\ t.entries[j] = s.entries[j]
                                   /\ t.history[j] = s.history[j]
                                   /\ t.deleted[j] = s.deleted[j]
      BY <1>0, <1>2, <2>2, BuriedStore
    <2> HIDE DEF e, d, g
    <2> QED
      BY <2>3, <2>4, <1>s DEF StoreOrder
  <1> QED
    BY <1>1, <1>2 DEF Mutated, s

LEMMA FreshOrdered == StoreOrder(Fresh)
  BY DEF StoreOrder, OrderOK, Fresh

OrderInv == StoreOrder(Stored)

LEMMA OrderNext ==
    ASSUME 0 \notin Ticks
    PROVE  Inv /\ OrderInv /\ [Next]_vars => OrderInv'
  <1> SUFFICES ASSUME Inv, StoreOrder(Stored), [Next]_vars
               PROVE  StoreOrder(Stored')
    BY DEF OrderInv, StoreOrder
  <1>1. \/ Stored' = Stored
        \/ Stored' = Fresh
        \/ Mutated(Stored', clock') /\ clock < clock'
    <2>1. CASE UNCHANGED vars
      BY <2>1 DEF vars, disk, Stored
    <2>2. CASE \E p \in Processes : Refresh(p)
      BY <2>2 DEF Refresh, disk, Stored
    <2>3. CASE Initialize
      BY <2>3 DEF Initialize, Stored
    <2>4. CASE /\ clock' \in {clock + tick : tick \in Ticks}
               /\ \E p \in Processes : \E s : Mutated(s, clock') /\ Save(p, s)
      <3>1. PICK tick \in Ticks : clock' = clock + tick
        BY <2>4
      <3>2. clock < clock'
        <4>1. tick \in Nat /\ tick # 0
          BY TicksAssumption
        <4>2. clock \in Nat
          BY DEF Inv, TypeOK
        <4> QED
          BY <3>1, <4>1, <4>2
      <3> QED
        BY <2>4, <3>2, SaveShape
        DEF SaveLeaves, Rewritten, Untouched, Vanishes
    <2> QED
      BY <2>1, <2>2, <2>3, <2>4, NextShape DEF Inv
  <1>2. clock' \in Nat
    BY NextShape DEF Inv
  <1> QED
    BY <1>1, <1>2, MutationOrdered, FreshOrdered

LEMMA OlderIds ==
    ASSUME NEW r \in MemoryEntry, NEW s \in MemoryEntry, Older(r, s)
    PROVE  RecordId(r) # RecordId(s) /\ RecordId(s) # RecordId(r)
  BY DEF Older, RecordId, MemoryEntry

LEMMA IdsFromOrder == Inv /\ OrderInv => IdsAreUnique
  <1> SUFFICES ASSUME Inv, StoreOrder(Stored), NEW k \in Keys
               PROVE  /\ \A r, s \in Retained(k) :
                            RecordId(r) = RecordId(s) => r = s
                      /\ IsInjective(history[k])
    BY DEF IdsAreUnique, OrderInv
  <1> DEFINE e == entries[k]
             h == history[k]
             d == deleted[k]
  <1>1. KeyOK(e, h, d, clock) /\ OrderOK(e, h, d)
    BY StoredFields DEF Inv, StoreInv, StoreOrder
  <1>2. /\ h \in Seq(MemoryEntry)
        /\ DOMAIN h = 1 .. Len(h) /\ Len(h) \in Nat
        /\ \A i \in 1 .. Len(h) : h[i] \in MemoryEntry
        /\ e # None => e \in MemoryEntry
        /\ d # None => d \in MemoryEntry
    BY <1>1 DEF KeyOK, RecordOK
  <1>3. \A r \in Retained(k) : \/ r = e /\ e # None
                               \/ r = d /\ d # None
                               \/ \E i \in 1 .. Len(h) : r = h[i]
    <2>1. \A r \in ToSet(history[k]) : \E i \in 1 .. Len(h) : r = h[i]
      BY <1>2, HistorySet
    <2> QED
      BY <2>1 DEF Retained
  <1> HIDE DEF e, h, d
  <1>4. ASSUME NEW i \in 1 .. Len(h), NEW j \in 1 .. Len(h), i # j
        PROVE  RecordId(h[i]) # RecordId(h[j])
    <2>1. CASE i < j
      BY <1>1, <1>2, <2>1, OlderIds DEF OrderOK
    <2>2. CASE j < i
      BY <1>1, <1>2, <2>2, OlderIds DEF OrderOK
    <2> QED
      BY <1>2, <1>4, <2>1, <2>2
  <1>5. ASSUME NEW i \in 1 .. Len(h)
        PROVE  /\ e # None => RecordId(h[i]) # RecordId(e)
               /\ d # None => RecordId(h[i]) # RecordId(d)
    BY <1>1, <1>2, OlderIds DEF OrderOK
  <1>6. d # None /\ e # None => RecordId(d) # RecordId(e)
    BY <1>1, <1>2, OlderIds DEF OrderOK
  <1>7. ASSUME NEW r \in Retained(k), NEW s \in Retained(k),
               RecordId(r) = RecordId(s)
        PROVE  r = s
    BY <1>3, <1>4, <1>5, <1>6, <1>7
  <1>8. IsInjective(h)
    BY <1>2, <1>4 DEF IsInjective
  <1> QED
    BY <1>7, <1>8 DEF h

(* IdsAreUnique: as long as the clock moves between two mutations, no two
   records that a key still holds share an id. *)
THEOREM IdsUnique ==
    ASSUME 0 \notin Ticks
    PROVE  Spec => []IdsAreUnique
  <1>1. Init => OrderInv
    <2>1. Init => Stored = Fresh
      BY DEF Init, Stored, Fresh
    <2> QED
      BY <2>1, FreshOrdered DEF OrderInv
  <1> QED
    BY <1>1, OrderNext, IdsFromOrder, InvAlways, PTL DEF Spec
=============================================================================
