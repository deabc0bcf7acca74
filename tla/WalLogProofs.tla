---------------------------- MODULE WalLogProofs ----------------------------
(***************************************************************************)
(* Theorems about WalLog, for any committed log, size of a segment,        *)
(* snapshot interval and number of crashes.                                *)
(***************************************************************************)
EXTENDS WalLog, SequenceTheorems, WellFoundedInduction, TLAPS

(***************************************************************************)
(* The structure.  While an append is under way its record is the last one *)
(* of its file and not indexed yet; a file that a crash may still remove   *)
(* is empty.                                                               *)
(***************************************************************************)
Up == pc \notin {"down", "failed"}
Appending == pc \in {"rotate", "header", "sync"}

Numbered == \E b \in Nat : \A g \in DOMAIN segs : g <= b

LastOf(l) == l[1] \in DOMAIN segs /\ l[2] = Len(segs[l[1]].recs) /\ l[2] >= 1

Unindexed(l) == \A k \in DOMAIN index : index[k] # l

AppendInv ==
  /\ Appending => at \in Indexes /\ LastOf(loc) /\ RecordAt(loc) = at /\ Unindexed(loc)
  /\ pc = "rotate" => loc[1] = cur
  /\ NewFile => segs[cur].recs = <<>>
  /\ pc = "header" => loc[1] # cur

Structure == TypeOK /\ Numbered /\ FreshSegment /\ AppendInv /\ IndexSound

(***************************************************************************)
(* The contents, as long as no crash tore a record or beheaded a file.     *)
(* Up to the snapshot, entries not acknowledged are on disk in whole       *)
(* records while the process is down; up to what raft delivered they are   *)
(* in the index while it is up.                                            *)
(***************************************************************************)
Unread(i) == Log[i].lsn >= acked[Log[i].stream]

WholeFile(f) == \A p \in 1..Len(f.recs) : f.recs[p] # Torn

Whole ==
  \A g \in DOMAIN segs :
    /\ WholeFile(segs[g])
    /\ segs[g].header \/ (g = cur /\ pc \in {"first header", "header"})

OnDisk(k) ==
  \E g \in DOMAIN segs : \E p \in 1..Len(segs[g].recs) :
    segs[g].recs[p] # Torn /\ Key(segs[g].recs[p]) = k

StoredUpTo(j) == \A i \in 1..j : Unread(i) => OnDisk(Key(i))
IndexedUpTo(j) == \A i \in 1..j : Unread(i) => Key(i) \in DOMAIN index

Behind ==
  /\ \A s \in Streams : consumed[s] <= acked[s] /\ snap.consumed[s] <= acked[s]
  /\ Up => snap.index <= applied

Contents ==
  /\ Behind
  /\ ~damaged => /\ pc # "failed" => Whole
                 /\ pc = "down" => StoredUpTo(snap.index)
                 /\ Up => IndexedUpTo(at - 1)

-----------------------------------------------------------------------------
(***************************************************************************)
(* The log the engine feeds the WAL with.                                  *)
(***************************************************************************)
LEMMA KeyType ==
  ASSUME NEW i \in Indexes
  PROVE  /\ Key(i) \in Streams \X Nat
         /\ Log[i].stream \in Streams /\ Log[i].lsn \in Nat
         /\ Key(i)[1] = Log[i].stream /\ Key(i)[2] = Log[i].lsn
<1>1. Log[i] \in [stream : Streams, lsn : Nat]
  BY WalAssumption, ElementOfSeq DEF Indexes
<1>2. Log[i].stream \in Streams /\ Log[i].lsn \in Nat
  BY <1>1
<1> QED
  BY <1>2 DEF Key

LEMMA LogLength == Len(Log) \in Nat
  BY WalAssumption, LenProperties

LEMMA InsertProperties ==
  ASSUME NEW f, NEW k, NEW v
  PROVE  /\ DOMAIN Insert(f, k, v) = DOMAIN f \cup {k}
         /\ Insert(f, k, v)[k] = v
         /\ \A x \in DOMAIN f : x # k => Insert(f, k, v)[x] = f[x]
  BY DEF Insert

LEMMA RestrictProperties ==
  ASSUME NEW f, NEW S
  PROVE  DOMAIN Restrict(f, S) = S /\ \A x \in S : Restrict(f, S)[x] = f[x]
  BY DEF Restrict

LEMMA FileType ==
  ASSUME NEW f \in Files
  PROVE  /\ f.header \in BOOLEAN /\ f.recs \in Seq(Indexes \cup {Torn})
         /\ Len(f.recs) \in Nat /\ DOMAIN f.recs = 1..Len(f.recs)
         /\ \A p \in 1..Len(f.recs) : f.recs[p] \in Indexes \cup {Torn}
<1>1. f.header \in BOOLEAN /\ f.recs \in Seq(Indexes \cup {Torn})
  BY DEF Files
<1> QED
  BY <1>1, LenProperties, ElementOfSeq

LEMMA SegmentType ==
  ASSUME TypeOK, NEW g \in DOMAIN segs
  PROVE  /\ g \in Nat /\ segs[g] \in Files
         /\ segs[g].header \in BOOLEAN /\ segs[g].recs \in Seq(Indexes \cup {Torn})
         /\ Len(segs[g].recs) \in Nat
<1>1. g \in Nat /\ segs[g] \in Files
  BY DEF TypeOK
<1> QED
  BY <1>1, FileType

(***************************************************************************)
(* Bounded sets of naturals have a greatest element: the CHOOSEs of open.  *)
(***************************************************************************)
LEMMA GreatestNat ==
  ASSUME NEW S \in SUBSET Nat, S # {}, NEW b \in Nat, \A k \in S : k <= b
  PROVE  \E m \in S : \A k \in S : k <= m
<1> DEFINE R == {e \in Nat \X Nat : e[1] < e[2]}
           T == {b - k : k \in S}
<1>1. IsWellFoundedOn(R, Nat)
  BY NatLessThanWellFounded DEF OpToRel
<1>2. T \in SUBSET Nat /\ T # {}
  <2>1. \A k \in S : b - k \in Nat
    OBVIOUS
  <2> QED
    BY <2>1
<1>3. PICK d \in T : \A e \in T : ~(<<e, d>> \in R)
  <2> HIDE DEF R, T
  <2> QED
    BY <1>1, <1>2, WFMin
<1>4. PICK m \in S : d = b - m
  BY <1>3
<1>5. ASSUME NEW k \in S PROVE k <= m
  <2>1. b - k \in T /\ b - k \in Nat /\ d \in Nat
    BY <1>2
  <2>2. ~(b - k < d)
    BY <1>3, <2>1
  <2> QED
    BY <1>4, <2>2
<1> QED
  BY <1>5

LEMMA LastSegmentIsLast ==
  ASSUME TypeOK, Numbered, DOMAIN segs # {}
  PROVE  LastSegment \in DOMAIN segs /\ \A g \in DOMAIN segs : g <= LastSegment
<1>1. PICK b \in Nat : \A g \in DOMAIN segs : g <= b
  BY DEF Numbered
<1>2. DOMAIN segs \in SUBSET Nat
  BY DEF TypeOK
<1>3. \E m \in DOMAIN segs : \A g \in DOMAIN segs : g <= m
  BY <1>1, <1>2, GreatestNat
<1> QED
  BY <1>3 DEF LastSegment

LEMMA ReplayableIs ==
  ASSUME NEW l
  PROVE  l \in Replayable <=> \E g \in DOMAIN segs : \E p \in Decodable(segs[g]) : l = <<g, p>>
BY DEF Replayable

LEMMA DecodableRecord ==
  ASSUME TypeOK, NEW g \in DOMAIN segs, NEW p \in Decodable(segs[g])
  PROVE  /\ p \in 1..Len(segs[g].recs) /\ segs[g].recs[p] \in Indexes
         /\ segs[g].recs[p] # Torn /\ RecordAt(<<g, p>>) = segs[g].recs[p]
<1>1. segs[g] \in Files
  BY DEF TypeOK
<1>2. p \in 1..Len(segs[g].recs) /\ segs[g].recs[p] # Torn
  <2>1. segs[g].header
    BY DEF Decodable
  <2>2. Decodable(segs[g]) = {q \in 1..Len(segs[g].recs) : \A r \in 1..q : segs[g].recs[r] # Torn}
    BY <2>1 DEF Decodable
  <2>3. p \in 1..Len(segs[g].recs) /\ \A r \in 1..p : segs[g].recs[r] # Torn
    BY <2>2
  <2>4. p \in 1..p
    BY <2>3, <1>1, FileType
  <2> QED
    BY <2>3, <2>4
<1> QED
  BY <1>1, <1>2, FileType DEF RecordAt

\* the replay leaves in the index, for every key, the last record with it
LEMMA LatestExists ==
  ASSUME TypeOK, Numbered, NEW k, NEW l \in Replayable, Key(RecordAt(l)) = k
  PROVE  \E x \in Replayable :
           /\ Key(RecordAt(x)) = k
           /\ \A m \in Replayable : Key(RecordAt(m)) = k => Later(x, m)
<1> DEFINE With == {x \in Replayable : Key(RecordAt(x)) = k}
           Gs == {x[1] : x \in With}
<1>1. \A x \in With : /\ x[1] \in DOMAIN segs /\ x[2] \in 1..Len(segs[x[1]].recs)
                      /\ x[1] \in Nat /\ x[2] \in Nat /\ x = <<x[1], x[2]>>
  <2> SUFFICES ASSUME NEW x \in With
               PROVE  /\ x[1] \in DOMAIN segs /\ x[2] \in 1..Len(segs[x[1]].recs)
                      /\ x[1] \in Nat /\ x[2] \in Nat /\ x = <<x[1], x[2]>>
    OBVIOUS
  <2> PICK g \in DOMAIN segs : \E p \in Decodable(segs[g]) : x = <<g, p>>
    BY ReplayableIs
  <2>1. PICK p \in Decodable(segs[g]) : x = <<g, p>>
    OBVIOUS
  <2>2. p \in 1..Len(segs[g].recs)
    BY DecodableRecord
  <2>3. g \in Nat /\ segs[g] \in Files
    BY DEF TypeOK
  <2>4. Len(segs[g].recs) \in Nat
    BY <2>3, FileType
  <2> QED
    BY <2>1, <2>2, <2>3, <2>4
<1>2. PICK b \in Nat : \A g \in DOMAIN segs : g <= b
  BY DEF Numbered
<1>3. l \in With
  OBVIOUS
<1> HIDE DEF With
<1>4. PICK g \in Gs : \A h \in Gs : h <= g
  <2>1. Gs \in SUBSET Nat /\ Gs # {} /\ \A h \in Gs : h <= b
    BY <1>1, <1>2, <1>3
  <2> HIDE DEF Gs
  <2> QED
    BY <1>2, <2>1, GreatestNat
<1> DEFINE Ps == {x[2] : x \in {y \in With : y[1] = g}}
<1>5. PICK p \in Ps : \A q \in Ps : q <= p
  <2>1. g \in DOMAIN segs /\ segs[g] \in Files
    BY <1>1 DEF TypeOK
  <2>2. Len(segs[g].recs) \in Nat
    BY <2>1, FileType
  <2>3. Ps \in SUBSET Nat /\ Ps # {} /\ \A q \in Ps : q <= Len(segs[g].recs)
    BY <1>1, <2>2
  <2> HIDE DEF Ps
  <2> QED
    BY <2>2, <2>3, GreatestNat
<1>6. PICK x \in With : x[1] = g /\ x[2] = p
  BY <1>5
<1>7. \A m \in With : Later(x, m)
  <2> SUFFICES ASSUME NEW m \in With PROVE Later(x, m)
    OBVIOUS
  <2>1. m[1] \in Gs /\ m[1] <= g /\ m[1] \in Nat /\ g \in Nat
    BY <1>1, <1>4, <1>6
  <2>2. CASE m[1] = g
    <3>1. m[2] \in Ps /\ m[2] <= p /\ m[2] \in Nat /\ p \in Nat
      BY <1>1, <1>5, <1>6, <2>2
    <3> QED
      BY <1>6, <2>2, <3>1 DEF Later
  <2>3. CASE m[1] < g
    BY <1>6, <2>3 DEF Later
  <2> QED
    BY <2>1, <2>2, <2>3
<1> QED
  BY <1>6, <1>7 DEF With

LEMMA RebuiltSound ==
  ASSUME TypeOK, Numbered, NEW k \in DOMAIN RebuiltIndex
  PROVE  /\ RebuiltIndex[k] \in Replayable
         /\ Key(RecordAt(RebuiltIndex[k])) = k
<1>1. DOMAIN RebuiltIndex = {Key(RecordAt(l)) : l \in Replayable}
  BY DEF RebuiltIndex
<1>2. RebuiltIndex[k] = CHOOSE l \in Replayable :
                          /\ Key(RecordAt(l)) = k
                          /\ \A m \in Replayable : Key(RecordAt(m)) = k => Later(l, m)
  BY <1>1 DEF RebuiltIndex
<1>3. PICK l \in Replayable : Key(RecordAt(l)) = k
  BY <1>1
<1>4. \E x \in Replayable :
           /\ Key(RecordAt(x)) = k
           /\ \A m \in Replayable : Key(RecordAt(m)) = k => Later(x, m)
  BY <1>3, LatestExists
<1> QED
  BY <1>2, <1>4

LEMMA RebuiltPoints ==
  ASSUME TypeOK, Numbered, NEW k \in DOMAIN RebuiltIndex
  PROVE  LET l == RebuiltIndex[k] IN
         /\ k \in Streams \X Nat /\ l \in Nat \X Nat
         /\ l[1] \in DOMAIN segs /\ l[2] \in 1..Len(segs[l[1]].recs)
         /\ RecordAt(l) # Torn /\ Key(RecordAt(l)) = k
<1> DEFINE l == RebuiltIndex[k]
<1>1. l \in Replayable /\ Key(RecordAt(l)) = k
  BY RebuiltSound
<1> HIDE DEF l
<1>2. PICK g \in DOMAIN segs : \E p \in Decodable(segs[g]) : l = <<g, p>>
  BY <1>1, ReplayableIs
<1>3. PICK p \in Decodable(segs[g]) : l = <<g, p>>
  BY <1>2
<1>4. /\ p \in 1..Len(segs[g].recs) /\ segs[g].recs[p] \in Indexes
      /\ segs[g].recs[p] # Torn /\ RecordAt(<<g, p>>) = segs[g].recs[p]
  BY DecodableRecord
<1>5. k \in Streams \X Nat
  BY <1>1, <1>3, <1>4, KeyType
<1>6. g \in Nat /\ p \in Nat
  BY <1>4, SegmentType
<1>7. l \in Nat \X Nat /\ l[1] = g /\ l[2] = p
  BY <1>3, <1>6
<1> QED
  BY <1>1, <1>3, <1>4, <1>5, <1>7 DEF l

\* no whole record of a whole file escapes the replay
LEMMA RebuiltFinds ==
  ASSUME TypeOK, Whole, \A g \in DOMAIN segs : segs[g].header, NEW k, OnDisk(k)
  PROVE  k \in DOMAIN RebuiltIndex
<1>1. PICK g \in DOMAIN segs : \E p \in 1..Len(segs[g].recs) :
        segs[g].recs[p] # Torn /\ Key(segs[g].recs[p]) = k
  BY DEF OnDisk
<1>2. PICK p \in 1..Len(segs[g].recs) :
        segs[g].recs[p] # Torn /\ Key(segs[g].recs[p]) = k
  BY <1>1
<1>3. p \in Decodable(segs[g])
  <2>1. \A q \in 1..Len(segs[g].recs) : segs[g].recs[q] # Torn
    BY DEF Whole, WholeFile
  <2>2. Len(segs[g].recs) \in Nat
    BY FileType DEF TypeOK
  <2>3. \A q \in 1..p : q \in 1..Len(segs[g].recs)
    BY <2>2
  <2> QED
    BY <2>1, <2>3 DEF Decodable
<1>4. <<g, p>> \in Replayable
  BY <1>3, ReplayableIs
<1>5. Key(RecordAt(<<g, p>>)) = k
  BY <1>2 DEF RecordAt
<1> QED
  BY <1>4, <1>5 DEF RebuiltIndex

-----------------------------------------------------------------------------
(***************************************************************************)
(* What an action does to the files and to the index.                      *)
(***************************************************************************)
\* the record at l of the files f is where it was in the files h
Stays(l, f, h) ==
  /\ l[1] \in DOMAIN h /\ l[2] \in 1..Len(h[l[1]].recs)
  /\ h[l[1]].recs[l[2]] = f[l[1]].recs[l[2]]

LEMMA IndexKept ==
  ASSUME IndexSound, \A k \in DOMAIN index' : k \in DOMAIN index /\ index'[k] = index[k],
         \A k \in DOMAIN index' : Stays(index[k], segs, segs')
  PROVE  IndexSound'
<1> SUFFICES ASSUME NEW k \in DOMAIN index'
             PROVE  LET l == index'[k] IN
                    /\ l[1] \in DOMAIN segs' /\ l[2] \in 1..Len(segs'[l[1]].recs)
                    /\ segs'[l[1]].recs[l[2]] # Torn /\ Key(segs'[l[1]].recs[l[2]]) = k
  BY DEF IndexSound, RecordAt, Key
<1>1. k \in DOMAIN index /\ index'[k] = index[k] /\ Stays(index[k], segs, segs')
  OBVIOUS
<1>2. /\ segs[index[k][1]].recs[index[k][2]] # Torn
      /\ Key(segs[index[k][1]].recs[index[k][2]]) = k
  BY <1>1 DEF IndexSound, RecordAt
<1> QED
  BY <1>1, <1>2 DEF Stays

LEMMA IndexUntouched ==
  ASSUME IndexSound, UNCHANGED <<segs, index>>
  PROVE  IndexSound'
BY DEF IndexSound, RecordAt, Key

LEMMA StaysSame ==
  ASSUME IndexSound, NEW k \in DOMAIN index, index[k][1] \in DOMAIN segs',
         segs'[index[k][1]].recs = segs[index[k][1]].recs
  PROVE  Stays(index[k], segs, segs')
BY DEF IndexSound, Stays

-----------------------------------------------------------------------------
(***************************************************************************)
(* The structure is kept, action by action.                                *)
(***************************************************************************)
LEMMA InitStructure == Init => Structure
<1> SUFFICES ASSUME Init PROVE Structure
  OBVIOUS
<1>1. DOMAIN segs = {} /\ DOMAIN index = {}
  BY DEF Init
<1>2. TypeOK
  <2>1. Nothing \in [Streams -> 0..MaxOffset]
    BY WalAssumption DEF Nothing
  <2>2. snap.index = 0 /\ snap.consumed = Nothing /\ consumed = Nothing /\ acked = Nothing
    BY DEF Init
  <2>3. 1 \in 1..(Len(Log) + 1) /\ 0 \in 0..(1 - 1) /\ 0 \in 0..Len(Log) /\ 0 \in 0..MaxCrashes
    BY LogLength, WalAssumption
  <2>4. loc \in Nat \X Nat
    BY DEF Init, NoLoc
  <2> QED
    BY <1>1, <2>1, <2>2, <2>3, <2>4 DEF Init, TypeOK
<1>3. Numbered
  BY <1>1 DEF Numbered
<1> QED
  BY <1>1, <1>2, <1>3 DEF Init, Structure, FreshSegment, AppendInv, Appending, NewFile, IndexSound

LEMMA ResumeTypes ==
  ASSUME TypeOK, Resume
  PROVE  /\ at' \in 1..(Len(Log) + 1) /\ applied' \in 0..(at' - 1)
         /\ consumed' \in [Streams -> 0..MaxOffset] /\ acked' \in [Streams -> 0..MaxOffset]
         /\ snap' = snap /\ damaged' = damaged /\ crashes' = crashes
<1>1. snap.index \in 0..Len(Log) /\ snap.consumed \in [Streams -> 0..MaxOffset]
  BY DEF TypeOK
<1>2. at' = snap.index + 1 /\ applied' = snap.index /\ consumed' = snap.consumed
  BY DEF Resume
<1>3. snap' = snap /\ acked' = acked /\ damaged' = damaged /\ crashes' = crashes
  BY DEF Resume, crashVars
<1>4. at' \in 1..(Len(Log) + 1) /\ applied' \in 0..(at' - 1)
  BY <1>1, <1>2, LogLength
<1>5. acked \in [Streams -> 0..MaxOffset]
  BY DEF TypeOK
<1> QED
  BY <1>1, <1>2, <1>3, <1>4, <1>5

LEMMA OpenStructure ==
  ASSUME Structure, Open
  PROVE  Structure'
<1> USE DEF Structure
<1>1. /\ pc = "down" /\ DOMAIN segs # {} /\ index' = RebuiltIndex
      /\ cur' = LastSegment /\ nextSeg' = LastSegment + 1 /\ pc' = "run" /\ Resume
      /\ segs' = segs /\ loc' = loc
  BY DEF Open, NextSegment
<1>2. LastSegment \in DOMAIN segs /\ LastSegment \in Nat /\ \A g \in DOMAIN segs : g <= LastSegment
  BY <1>1, LastSegmentIsLast, SegmentType
<1>3. TypeOK'
  <2>1. \A k \in DOMAIN index' : k \in Streams \X Nat /\ index'[k] \in Nat \X Nat
    BY <1>1, RebuiltPoints
  <2>2. /\ at' \in 1..(Len(Log) + 1) /\ applied' \in 0..(at' - 1)
        /\ consumed' \in [Streams -> 0..MaxOffset] /\ acked' \in [Streams -> 0..MaxOffset]
        /\ snap' = snap /\ damaged' = damaged /\ crashes' = crashes
    BY <1>1, ResumeTypes
  <2>3. cur' \in Nat /\ nextSeg' \in Nat
    BY <1>1, <1>2
  <2> QED
    BY <1>1, <2>1, <2>2, <2>3 DEF TypeOK
<1>4. Numbered'
  BY <1>1 DEF Numbered
<1>5. FreshSegment'
  <2>1. \A g \in DOMAIN segs : g \in Nat /\ g < LastSegment + 1
    BY <1>2, SegmentType
  <2> QED
    BY <1>1, <1>2, <2>1 DEF FreshSegment
<1>6. AppendInv'
  BY <1>1 DEF AppendInv, Appending, NewFile
<1>7. IndexSound'
  <2>1. \A k \in DOMAIN RebuiltIndex :
          LET l == RebuiltIndex[k] IN
          /\ l[1] \in DOMAIN segs /\ l[2] \in 1..Len(segs[l[1]].recs)
          /\ RecordAt(l) # Torn /\ Key(RecordAt(l)) = k
    BY RebuiltPoints
  <2> QED
    BY <1>1, <2>1 DEF IndexSound, RecordAt, Key
<1> QED
  BY <1>3, <1>4, <1>5, <1>6, <1>7

LEMMA OpenFailsStructure ==
  ASSUME Structure, OpenFails
  PROVE  Structure'
<1>1. pc' = "failed" /\ UNCHANGED <<segs, memory, snap, acked, damaged, crashes, loc>>
  BY DEF OpenFails, memory, crashVars
<1>2. UNCHANGED <<segs, cur, nextSeg, index, loc, consumed, at, applied, snap, acked, damaged, crashes>>
  BY <1>1 DEF memory
<1> QED
  BY <1>1, <1>2, IndexUntouched
     DEF Structure, TypeOK, Numbered, FreshSegment, AppendInv, Appending, NewFile

\* create_segment names a file that is not there
LEMMA CreateFresh ==
  ASSUME TypeOK, Numbered, NEW g \in Nat, Create(g), g \notin DOMAIN segs
  PROVE  /\ DOMAIN segs' = DOMAIN segs \cup {g} /\ segs'[g] = Headless
         /\ \A h \in DOMAIN segs : segs'[h] = segs[h]
         /\ \A h \in DOMAIN segs' : h \in Nat /\ segs'[h] \in Files
         /\ Numbered'
<1>1. /\ DOMAIN segs' = DOMAIN segs \cup {g} /\ segs'[g] = Headless
      /\ \A h \in DOMAIN segs : segs'[h] = segs[h]
  BY DEF Create, Insert
<1>2. Headless \in Files
  BY DEF Headless, Files
<1>3. \A h \in DOMAIN segs' : h \in Nat /\ segs'[h] \in Files
  BY <1>1, <1>2, SegmentType
<1>4. Numbered'
  <2>1. PICK b \in Nat : \A h \in DOMAIN segs : h <= b
    BY DEF Numbered
  <2>2. b + g \in Nat /\ \A h \in DOMAIN segs' : h <= b + g
    BY <1>1, <1>3, <2>1
  <2> QED
    BY <2>2 DEF Numbered
<1> QED
  BY <1>1, <1>3, <1>4

\* one file is written to and keeps its records
LEMMA OneFile ==
  ASSUME TypeOK, Numbered, NEW g \in DOMAIN segs, NEW f \in Files, segs' = [segs EXCEPT ![g] = f]
  PROVE  /\ DOMAIN segs' = DOMAIN segs /\ segs'[g] = f
         /\ \A h \in DOMAIN segs : h # g => segs'[h] = segs[h]
         /\ \A h \in DOMAIN segs' : h \in Nat /\ segs'[h] \in Files
         /\ Numbered'
<1>1. /\ DOMAIN segs' = DOMAIN segs /\ segs'[g] = f
      /\ \A h \in DOMAIN segs : h # g => segs'[h] = segs[h]
  OBVIOUS
<1>2. \A h \in DOMAIN segs' : h \in Nat /\ segs'[h] \in Files
  BY <1>1, SegmentType
<1>3. Numbered'
  BY <1>1 DEF Numbered
<1> QED
  BY <1>1, <1>2, <1>3

LEMMA OpenEmptyStructure ==
  ASSUME Structure, OpenEmpty
  PROVE  Structure'
<1>0. TypeOK /\ Numbered
  BY DEF Structure
<1>1. /\ pc = "down" /\ DOMAIN segs = {} /\ Create(0)
      /\ cur' = 0 /\ nextSeg' = 1 /\ index' = RebuiltIndex
      /\ pc' = "first header" /\ Resume /\ loc' = loc
  BY DEF OpenEmpty
<1>2. /\ DOMAIN segs' = {0} /\ segs'[0] = Headless
      /\ \A h \in DOMAIN segs' : h \in Nat /\ segs'[h] \in Files
      /\ Numbered'
  <2>1. 0 \in Nat /\ 0 \notin DOMAIN segs
    BY <1>1
  <2> QED
    BY <1>0, <1>1, <2>1, CreateFresh
<1>3. DOMAIN index' = {}
  <2>1. Replayable = {}
    BY <1>1 DEF Replayable
  <2> QED
    BY <1>1, <2>1 DEF RebuiltIndex
<1>4. TypeOK'
  <2>1. /\ at' \in 1..(Len(Log) + 1) /\ applied' \in 0..(at' - 1)
        /\ consumed' \in [Streams -> 0..MaxOffset] /\ acked' \in [Streams -> 0..MaxOffset]
        /\ snap' = snap /\ damaged' = damaged /\ crashes' = crashes
    BY <1>0, <1>1, ResumeTypes
  <2>2. loc' \in Nat \X Nat /\ damaged' \in BOOLEAN /\ crashes' \in 0..MaxCrashes
        /\ snap'.index \in 0..Len(Log) /\ snap'.consumed \in [Streams -> 0..MaxOffset]
    BY <1>0, <1>1, <2>1 DEF TypeOK
  <2>3. cur' \in Nat /\ nextSeg' \in Nat
    BY <1>1
  <2> QED
    BY <1>1, <1>2, <1>3, <2>1, <2>2, <2>3 DEF TypeOK
<1>5. FreshSegment'
  <2>1. cur' = 0 /\ nextSeg' = 1 /\ DOMAIN segs' = {0}
    BY <1>1, <1>2
  <2>2. cur' \in DOMAIN segs'
    BY <2>1
  <2>3. \A g \in DOMAIN segs' : g < nextSeg' /\ g <= cur'
    BY <2>1
  <2> QED
    BY <2>2, <2>3, Zenon DEF FreshSegment
<1>6. AppendInv'
  <2> cur' = 0 /\ segs'[0] = Headless
    BY <1>1, <1>2
  <2>1. segs'[cur'].recs = <<>>
    BY DEF Headless
  <2>2. ~Appending' /\ pc' # "rotate" /\ pc' # "header"
    BY <1>1 DEF Appending
  <2> QED
    BY <2>1, <2>2 DEF AppendInv
<1>7. IndexSound'
  BY <1>3 DEF IndexSound
<1> QED
  BY <1>2, <1>4, <1>5, <1>6, <1>7 DEF Structure

LEMMA HeaderFile ==
  ASSUME TypeOK, cur \in DOMAIN segs, segs' = [segs EXCEPT ![cur].header = TRUE]
  PROVE  \E f \in Files : f.header = TRUE /\ f.recs = segs[cur].recs /\ segs' = [segs EXCEPT ![cur] = f]
<1> DEFINE f == [segs[cur] EXCEPT !.header = TRUE]
<1>1. segs[cur] \in Files
  BY SegmentType
<1>2. f \in Files /\ f.header = TRUE /\ f.recs = segs[cur].recs
  BY <1>1 DEF Files
<1>3. segs' = [segs EXCEPT ![cur] = f]
  OBVIOUS
<1> QED
  BY <1>2, <1>3

\* the header of a new file arrives: nothing else about the files changes
LEMMA HeaderWritten ==
  ASSUME Structure, Up, segs' = [segs EXCEPT ![cur].header = TRUE],
         UNCHANGED <<memory, snap, acked, damaged, crashes>>,
         pc' \in {"run", "sync"}
  PROVE  /\ DOMAIN segs' = DOMAIN segs /\ cur \in DOMAIN segs
         /\ segs'[cur].header = TRUE
         /\ \A h \in DOMAIN segs : segs'[h].recs = segs[h].recs
         /\ \A h \in DOMAIN segs : h # cur => segs'[h] = segs[h]
         /\ TypeOK' /\ Numbered' /\ FreshSegment' /\ IndexSound'
<1> USE DEF Structure
<1>1. cur \in DOMAIN segs /\ \A g \in DOMAIN segs : g < nextSeg /\ g <= cur
  BY DEF FreshSegment, Up
<1>2. PICK f \in Files : f.header = TRUE /\ f.recs = segs[cur].recs /\ segs' = [segs EXCEPT ![cur] = f]
  BY <1>1, HeaderFile
<1>3. /\ DOMAIN segs' = DOMAIN segs /\ segs'[cur] = f
      /\ \A h \in DOMAIN segs : h # cur => segs'[h] = segs[h]
      /\ \A h \in DOMAIN segs' : h \in Nat /\ segs'[h] \in Files
      /\ Numbered'
  BY <1>1, <1>2, OneFile
<1>4. \A h \in DOMAIN segs : segs'[h].recs = segs[h].recs
  BY <1>2, <1>3
<1>5. UNCHANGED <<cur, nextSeg, index, loc, consumed, at, applied, snap, acked, damaged, crashes>>
  BY DEF memory
<1>6. TypeOK'
  BY <1>3, <1>5 DEF TypeOK
<1>7. FreshSegment'
  BY <1>1, <1>3, <1>5 DEF FreshSegment
<1>8. IndexSound'
  <2>1. \A k \in DOMAIN index : index[k][1] \in DOMAIN segs
    BY DEF IndexSound
  <2>2. \A k \in DOMAIN index' : Stays(index[k], segs, segs')
    BY <1>3, <1>4, <1>5, <2>1, StaysSame
  <2> QED
    BY <1>5, <2>2, IndexKept
<1> QED
  BY <1>1, <1>2, <1>3, <1>4, <1>6, <1>7, <1>8

LEMMA FirstHeaderStructure ==
  ASSUME Structure, FirstHeader
  PROVE  Structure'
<1>1. /\ pc = "first header" /\ pc' = "run" /\ segs' = [segs EXCEPT ![cur].header = TRUE]
      /\ UNCHANGED <<memory, snap, acked, damaged, crashes>>
  BY DEF FirstHeader, crashVars
<1>2. TypeOK' /\ Numbered' /\ FreshSegment' /\ IndexSound'
  BY <1>1, HeaderWritten DEF Up
<1>3. AppendInv'
  BY <1>1 DEF AppendInv, Appending, NewFile
<1> QED
  BY <1>2, <1>3 DEF Structure

LEMMA HeaderStructure ==
  ASSUME Structure, Header
  PROVE  Structure'
<1>1. /\ pc = "header" /\ pc' = "sync" /\ segs' = [segs EXCEPT ![cur].header = TRUE]
      /\ UNCHANGED <<memory, snap, acked, damaged, crashes>>
  BY DEF Header, crashVars
<1>2. /\ DOMAIN segs' = DOMAIN segs /\ cur \in DOMAIN segs
      /\ \A h \in DOMAIN segs : segs'[h].recs = segs[h].recs
      /\ TypeOK' /\ Numbered' /\ FreshSegment' /\ IndexSound'
  BY <1>1, HeaderWritten DEF Up
<1>3. AppendInv'
  <2>1. /\ at \in Indexes /\ LastOf(loc) /\ RecordAt(loc) = at /\ Unindexed(loc)
        /\ segs[cur].recs = <<>>
    BY <1>1 DEF Structure, AppendInv, Appending, NewFile
  <2>2. UNCHANGED <<cur, index, loc, at>>
    BY <1>1 DEF memory
  <2>3. loc[1] \in DOMAIN segs /\ segs'[loc[1]].recs = segs[loc[1]].recs
    BY <1>2, <2>1 DEF LastOf
  <2>4. LastOf(loc)' /\ RecordAt(loc)' = at'
    BY <1>2, <2>1, <2>2, <2>3 DEF LastOf, RecordAt
  <2>5. segs'[cur'].recs = <<>>
    BY <1>2, <2>1, <2>2
  <2> QED
    BY <1>1, <2>1, <2>2, <2>4, <2>5 DEF AppendInv, LastOf, Unindexed
<1> QED
  BY <1>2, <1>3 DEF Structure

LEMMA GrownFile ==
  ASSUME TypeOK, NEW g \in DOMAIN segs, NEW i \in Indexes
  PROVE  LET f == [segs[g] EXCEPT !.recs = Append(@, i)] IN
         /\ f \in Files /\ f.header = segs[g].header
         /\ Len(f.recs) = Len(segs[g].recs) + 1
         /\ f.recs[Len(f.recs)] = i
         /\ \A p \in 1..Len(segs[g].recs) : f.recs[p] = segs[g].recs[p]
<1> DEFINE f == [segs[g] EXCEPT !.recs = Append(@, i)]
<1>1. segs[g] \in Files /\ segs[g].recs \in Seq(Indexes \cup {Torn}) /\ Len(segs[g].recs) \in Nat
  BY SegmentType
<1>2. f.recs = Append(segs[g].recs, i) /\ f.header = segs[g].header
  BY <1>1 DEF Files
<1>3. f.recs \in Seq(Indexes \cup {Torn})
  BY <1>1, <1>2, AppendProperties
<1>4. f \in Files
  BY <1>1, <1>3 DEF Files
<1>5. /\ Len(f.recs) = Len(segs[g].recs) + 1
      /\ f.recs[Len(segs[g].recs) + 1] = i
      /\ \A p \in 1..Len(segs[g].recs) : f.recs[p] = segs[g].recs[p]
  BY <1>1, <1>2, AppendProperties
<1> QED
  BY <1>2, <1>4, <1>5

\* the record goes to the end of the current file
LEMMA AppendSegs ==
  ASSUME Structure, AppendWithLogIndex
  PROVE  /\ cur \in DOMAIN segs /\ at \in Indexes /\ pc \in {"run", "apply"}
         /\ DOMAIN segs' = DOMAIN segs
         /\ \A h \in DOMAIN segs : h # cur => segs'[h] = segs[h]
         /\ segs'[cur].header = segs[cur].header
         /\ Len(segs'[cur].recs) = Len(segs[cur].recs) + 1
         /\ segs'[cur].recs[Len(segs'[cur].recs)] = at
         /\ \A p \in 1..Len(segs[cur].recs) : segs'[cur].recs[p] = segs[cur].recs[p]
         /\ loc' = <<cur, Len(segs'[cur].recs)>> /\ pc' \in {"rotate", "sync"}
         /\ \A h \in DOMAIN segs' : h \in Nat /\ segs'[h] \in Files
         /\ Numbered'
<1> DEFINE f == [segs[cur] EXCEPT !.recs = Append(@, at)]
<1>1. /\ pc \in {"run", "apply"} /\ at \in Indexes /\ segs' = [segs EXCEPT ![cur] = f]
      /\ loc' = <<cur, Len(f.recs)>> /\ pc' \in {"rotate", "sync"}
  BY DEF AppendWithLogIndex
<1>2. TypeOK /\ Numbered /\ cur \in DOMAIN segs
  BY <1>1 DEF Structure, FreshSegment
<1>3. /\ f \in Files /\ f.header = segs[cur].header
      /\ Len(f.recs) = Len(segs[cur].recs) + 1
      /\ f.recs[Len(f.recs)] = at
      /\ \A p \in 1..Len(segs[cur].recs) : f.recs[p] = segs[cur].recs[p]
  BY <1>1, <1>2, GrownFile
<1> HIDE DEF f
<1>4. /\ DOMAIN segs' = DOMAIN segs /\ segs'[cur] = f
      /\ \A h \in DOMAIN segs : h # cur => segs'[h] = segs[h]
      /\ \A h \in DOMAIN segs' : h \in Nat /\ segs'[h] \in Files
      /\ Numbered'
  BY <1>1, <1>2, <1>3, OneFile
<1> QED
  BY <1>1, <1>2, <1>3, <1>4

LEMMA AppendStructure ==
  ASSUME Structure, AppendWithLogIndex
  PROVE  Structure'
<1>1. /\ cur \in DOMAIN segs /\ at \in Indexes /\ pc \in {"run", "apply"}
      /\ DOMAIN segs' = DOMAIN segs
      /\ \A h \in DOMAIN segs : h # cur => segs'[h] = segs[h]
      /\ Len(segs'[cur].recs) = Len(segs[cur].recs) + 1
      /\ segs'[cur].recs[Len(segs'[cur].recs)] = at
      /\ \A p \in 1..Len(segs[cur].recs) : segs'[cur].recs[p] = segs[cur].recs[p]
      /\ loc' = <<cur, Len(segs'[cur].recs)>> /\ pc' \in {"rotate", "sync"}
      /\ \A h \in DOMAIN segs' : h \in Nat /\ segs'[h] \in Files
      /\ Numbered'
  BY AppendSegs
<1>2. UNCHANGED <<cur, nextSeg, index, consumed, snap, at, applied, acked, damaged, crashes>>
  BY DEF AppendWithLogIndex, crashVars
<1>3. TypeOK
  BY DEF Structure
<1>4. Len(segs[cur].recs) \in Nat /\ Len(segs'[cur].recs) \in Nat \ {0} /\ cur \in Nat
  BY <1>1, <1>3, SegmentType
<1>5. TypeOK'
  <2>1. loc' \in Nat \X Nat /\ loc'[1] = cur /\ loc'[2] = Len(segs'[cur].recs)
    BY <1>1, <1>4
  <2> QED
    BY <1>1, <1>2, <1>3, <2>1 DEF TypeOK
<1>6. FreshSegment'
  BY <1>1, <1>2 DEF Structure, FreshSegment
<1>7. \A k \in DOMAIN index : Stays(index[k], segs, segs') /\ index[k] # loc'
  <2> SUFFICES ASSUME NEW k \in DOMAIN index PROVE Stays(index[k], segs, segs') /\ index[k] # loc'
    OBVIOUS
  <2>1. /\ index[k][1] \in DOMAIN segs /\ index[k][2] \in 1..Len(segs[index[k][1]].recs)
    BY DEF Structure, IndexSound
  <2>2. CASE index[k][1] = cur
    <3>1. index[k][2] \in 1..Len(segs[cur].recs)
      BY <2>1, <2>2
    <3>2. index[k][2] \in 1..Len(segs'[cur].recs) /\ index[k][2] # Len(segs'[cur].recs)
      BY <1>1, <1>4, <3>1
    <3>3. segs'[cur].recs[index[k][2]] = segs[cur].recs[index[k][2]]
      BY <1>1, <3>1
    <3> QED
      BY <1>1, <2>1, <2>2, <3>2, <3>3 DEF Stays
  <2>3. CASE index[k][1] # cur
    BY <1>1, <2>1, <2>3 DEF Stays
  <2> QED
    BY <2>2, <2>3
<1>8. IndexSound'
  <2>1. IndexSound
    BY DEF Structure
  <2> QED
    BY <1>2, <1>7, <2>1, IndexKept
<1>9. AppendInv'
  <2>1. loc'[1] = cur /\ loc'[2] = Len(segs'[cur].recs)
    BY <1>1
  <2>2. LastOf(loc)' /\ RecordAt(loc)' = at'
    BY <1>1, <1>2, <1>4, <2>1 DEF LastOf, RecordAt
  <2>3. Unindexed(loc)'
    BY <1>2, <1>7 DEF Unindexed
  <2>4. ~NewFile' /\ pc' # "header"
    BY <1>1, <1>2, <2>1 DEF NewFile
  <2> QED
    BY <1>1, <1>2, <2>1, <2>2, <2>3, <2>4 DEF AppendInv, LastOf
<1> QED
  BY <1>1, <1>5, <1>6, <1>8, <1>9 DEF Structure

LEMMA RotateStructure ==
  ASSUME Structure, Rotate
  PROVE  Structure'
<1>1. /\ pc = "rotate" /\ pc' = "header" /\ Create(nextSeg) /\ cur' = nextSeg /\ nextSeg' = nextSeg + 1
      /\ UNCHANGED <<index, loc, consumed, snap, at, applied, acked, damaged, crashes>>
  BY DEF Rotate, crashVars
<1>2. TypeOK /\ Numbered /\ cur \in DOMAIN segs /\ \A g \in DOMAIN segs : g < nextSeg
  BY <1>1 DEF Structure, FreshSegment
<1>3. nextSeg \in Nat /\ nextSeg \notin DOMAIN segs
  <2>1. nextSeg \in Nat
    BY <1>2 DEF TypeOK
  <2> QED
    BY <1>2, <2>1
<1>4. /\ DOMAIN segs' = DOMAIN segs \cup {nextSeg} /\ segs'[nextSeg] = Headless
      /\ \A h \in DOMAIN segs : segs'[h] = segs[h]
      /\ \A h \in DOMAIN segs' : h \in Nat /\ segs'[h] \in Files
      /\ Numbered'
  BY <1>1, <1>2, <1>3, CreateFresh
<1>5. TypeOK'
  <2>1. cur' \in Nat /\ nextSeg' \in Nat
    BY <1>1, <1>3
  <2> QED
    BY <1>1, <1>2, <1>4, <2>1 DEF TypeOK
<1>6. FreshSegment'
  <2>1. \A g \in DOMAIN segs' : g \in Nat /\ (g = nextSeg \/ g < nextSeg)
    BY <1>2, <1>4
  <2>2. cur' = nextSeg /\ nextSeg' = nextSeg + 1 /\ nextSeg \in Nat
    BY <1>1, <1>3
  <2>3. \A g \in DOMAIN segs' : g < nextSeg' /\ g <= cur'
    BY <2>1, <2>2
  <2> QED
    BY <1>4, <2>2, <2>3 DEF FreshSegment
<1>7. IndexSound'
  <2>1. IndexSound
    BY DEF Structure
  <2>2. \A k \in DOMAIN index : index[k][1] \in DOMAIN segs
    BY <2>1 DEF IndexSound
  <2>3. \A k \in DOMAIN index' : Stays(index[k], segs, segs')
    BY <1>1, <1>4, <2>1, <2>2, StaysSame
  <2> QED
    BY <1>1, <2>1, <2>3, IndexKept
<1>8. AppendInv'
  <2>1. /\ at \in Indexes /\ LastOf(loc) /\ RecordAt(loc) = at /\ Unindexed(loc) /\ loc[1] = cur
    BY <1>1 DEF Structure, AppendInv, Appending
  <2>2. loc[1] \in DOMAIN segs /\ segs'[loc[1]] = segs[loc[1]] /\ loc[1] # nextSeg
    BY <1>2, <1>3, <1>4, <2>1
  <2>3. LastOf(loc)' /\ RecordAt(loc)' = at'
    BY <1>1, <1>4, <2>1, <2>2 DEF LastOf, RecordAt
  <2>4. segs'[cur'].recs = <<>>
    <3>1. cur' = nextSeg /\ segs'[nextSeg] = Headless
      BY <1>1, <1>4
    <3> QED
      BY <3>1 DEF Headless
  <2> QED
    BY <1>1, <2>1, <2>2, <2>3, <2>4 DEF AppendInv, LastOf, Unindexed
<1> QED
  BY <1>4, <1>5, <1>6, <1>7, <1>8 DEF Structure

LEMMA SyncFacts ==
  ASSUME Structure, Sync
  PROVE  /\ pc = "sync" /\ at \in Indexes /\ at' = at + 1 /\ loc' = NoLoc
         /\ DOMAIN index' = DOMAIN index \cup {Key(at)} /\ index'[Key(at)] = loc
         /\ \A k \in DOMAIN index : k # Key(at) => index'[k] = index[k]
         /\ pc' \in {"apply", "run"} /\ applied' \in {applied, at}
         /\ pc' = "run" => applied' = at
         /\ snap' \in {snap, [index |-> applied, consumed |-> consumed]}
         /\ UNCHANGED <<segs, cur, nextSeg, consumed, acked, damaged, crashes>>
         /\ LastOf(loc) /\ RecordAt(loc) = at
<1>1. /\ pc = "sync" /\ at' = at + 1 /\ loc' = NoLoc /\ index' = Insert(index, Key(at), loc)
      /\ pc' \in {"apply", "run"} /\ applied' \in {applied, at} /\ (pc' = "run" => applied' = at)
      /\ snap' \in {snap, [index |-> applied, consumed |-> consumed]}
      /\ UNCHANGED <<segs, cur, nextSeg, consumed, acked, damaged, crashes>>
  BY DEF Sync, Location, crashVars
<1>2. at \in Indexes /\ LastOf(loc) /\ RecordAt(loc) = at
  BY <1>1 DEF Structure, AppendInv, Appending
<1>3. /\ DOMAIN index' = DOMAIN index \cup {Key(at)} /\ index'[Key(at)] = loc
      /\ \A k \in DOMAIN index : k # Key(at) => index'[k] = index[k]
  BY <1>1 DEF Insert
<1> QED
  BY <1>1, <1>2, <1>3

LEMMA SyncStructure ==
  ASSUME Structure, Sync
  PROVE  Structure'
<1>1. /\ pc = "sync" /\ at \in Indexes /\ at' = at + 1 /\ loc' = NoLoc
      /\ DOMAIN index' = DOMAIN index \cup {Key(at)} /\ index'[Key(at)] = loc
      /\ \A k \in DOMAIN index : k # Key(at) => index'[k] = index[k]
      /\ pc' \in {"apply", "run"} /\ applied' \in {applied, at}
      /\ snap' \in {snap, [index |-> applied, consumed |-> consumed]}
      /\ UNCHANGED <<segs, cur, nextSeg, consumed, acked, damaged, crashes>>
      /\ LastOf(loc) /\ RecordAt(loc) = at
  BY SyncFacts
<1>2. TypeOK
  BY DEF Structure
<1>3. TypeOK'
  <2>1. /\ at \in 1..Len(Log) /\ at \in 1..(Len(Log) + 1) /\ applied \in 0..(at - 1)
    BY <1>1, <1>2 DEF TypeOK, Indexes
  <2>2. at' \in 1..(Len(Log) + 1) /\ applied' \in 0..(at' - 1) /\ applied \in 0..Len(Log)
    BY <1>1, <2>1, LogLength
  <2>3. \A k \in DOMAIN index' : k \in Streams \X Nat /\ index'[k] \in Nat \X Nat
    <3>1. Key(at) \in Streams \X Nat /\ loc \in Nat \X Nat
      BY <1>1, <1>2, KeyType DEF TypeOK
    <3>2. \A k \in DOMAIN index : k \in Streams \X Nat /\ index[k] \in Nat \X Nat
      BY <1>2 DEF TypeOK
    <3> QED
      BY <1>1, <3>1, <3>2
  <2>4. snap'.index \in 0..Len(Log) /\ snap'.consumed \in [Streams -> 0..MaxOffset]
    <3>1. CASE snap' = snap
      BY <1>2, <3>1 DEF TypeOK
    <3>2. CASE snap' = [index |-> applied, consumed |-> consumed]
      <4>1. snap'.index = applied /\ snap'.consumed = consumed
        BY <3>2
      <4> QED
        BY <1>2, <2>2, <4>1 DEF TypeOK
    <3> QED
      BY <1>1, <3>1, <3>2
  <2>5. loc' \in Nat \X Nat
    BY <1>1 DEF NoLoc
  <2>6. pc' \in {"down", "first header", "run", "apply", "rotate", "header", "sync", "failed"}
    BY <1>1
  <2> QED
    BY <1>1, <1>2, <2>2, <2>3, <2>4, <2>5, <2>6 DEF TypeOK
<1>4. Numbered' /\ FreshSegment'
  BY <1>1 DEF Structure, Numbered, FreshSegment
<1>5. AppendInv'
  BY <1>1 DEF AppendInv, Appending, NewFile
<1>6. IndexSound'
  <2> SUFFICES ASSUME NEW k \in DOMAIN index'
               PROVE  LET l == index'[k] IN
                      /\ l[1] \in DOMAIN segs /\ l[2] \in 1..Len(segs[l[1]].recs)
                      /\ RecordAt(l) # Torn /\ Key(RecordAt(l)) = k
    BY <1>1 DEF IndexSound, RecordAt, Key
  <2>1. CASE k = Key(at)
    <3>1. at # Torn
      BY <1>1 DEF Indexes, Torn
    <3>2. /\ loc[1] \in DOMAIN segs /\ loc[2] = Len(segs[loc[1]].recs) /\ loc[2] >= 1
      BY <1>1 DEF LastOf
    <3>3. Len(segs[loc[1]].recs) \in Nat
      BY <1>2, <3>2, SegmentType
    <3>4. loc[2] \in 1..Len(segs[loc[1]].recs)
      BY <3>2, <3>3
    <3> QED
      BY <1>1, <2>1, <3>1, <3>2, <3>4
  <2>2. CASE k # Key(at)
    BY <1>1, <2>2 DEF Structure, IndexSound
  <2> QED
    BY <2>1, <2>2
<1> QED
  BY <1>3, <1>4, <1>5, <1>6 DEF Structure

LEMMA ConsumeStructure ==
  ASSUME Structure, NEW s \in Streams, NEW o \in 1..MaxOffset, Consume(s, o)
  PROVE  Structure'
<1>1. /\ pc = "run" /\ consumed' = [consumed EXCEPT ![s] = o]
      /\ acked' = [acked EXCEPT ![s] = IF o > @ THEN o ELSE @]
      /\ UNCHANGED <<segs, cur, nextSeg, index, loc, snap, at, applied, pc, damaged, crashes>>
  BY DEF Consume, crashVars
<1>2. TypeOK'
  <2>1. consumed \in [Streams -> 0..MaxOffset] /\ acked \in [Streams -> 0..MaxOffset]
    BY DEF Structure, TypeOK
  <2>2. o \in 0..MaxOffset
    BY WalAssumption
  <2>3. consumed' \in [Streams -> 0..MaxOffset] /\ acked' \in [Streams -> 0..MaxOffset]
    BY <1>1, <2>1, <2>2
  <2> QED
    BY <1>1, <2>3 DEF Structure, TypeOK
<1>3. IndexSound'
  BY <1>1, IndexUntouched DEF Structure
<1> QED
  BY <1>1, <1>2, <1>3
     DEF Structure, Numbered, FreshSegment, AppendInv, Appending, NewFile

LEMMA RunGcFacts ==
  ASSUME Structure, RunGc
  PROVE  /\ pc = "run" /\ pc' = pc
         /\ DOMAIN index' = {k \in DOMAIN index : Kept(k)}
         /\ \A k \in DOMAIN index' : index'[k] = index[k] /\ index[k][1] \in DOMAIN segs'
         /\ DOMAIN segs' \subseteq DOMAIN segs /\ cur \in DOMAIN segs'
         /\ \A g \in DOMAIN segs' : segs'[g] = segs[g]
         /\ UNCHANGED <<cur, nextSeg, loc, consumed, snap, at, applied, acked, damaged, crashes>>
<1> DEFINE dead == Removable(LiveSegments(Truncated))
<1>1. /\ pc = "run" /\ index' = Truncated /\ segs' = Restrict(segs, DOMAIN segs \ dead)
      /\ UNCHANGED <<cur, nextSeg, loc, consumed, snap, at, applied, pc, acked, damaged, crashes>>
  BY DEF RunGc, crashVars
<1>2. /\ DOMAIN Truncated = {k \in DOMAIN index : Kept(k)}
      /\ \A k \in DOMAIN Truncated : Truncated[k] = index[k]
  BY RestrictProperties DEF Truncated
<1>3. /\ DOMAIN segs' = DOMAIN segs \ dead
      /\ \A g \in DOMAIN segs' : segs'[g] = segs[g]
  <2> HIDE DEF dead
  <2> QED
    BY <1>1, RestrictProperties
<1>4. cur \in DOMAIN segs
  BY <1>1 DEF Structure, FreshSegment
<1>5. \A k \in DOMAIN Truncated : Truncated[k][1] \notin dead
  BY DEF Removable, LiveSegments, Range
<1>6. \A k \in DOMAIN index : index[k][1] \in DOMAIN segs
  BY DEF Structure, IndexSound
<1>7. cur \notin dead
  BY DEF Removable
<1> HIDE DEF dead
<1> QED
  BY <1>1, <1>2, <1>3, <1>4, <1>5, <1>6, <1>7

LEMMA RunGcStructure ==
  ASSUME Structure, RunGc
  PROVE  Structure'
<1>1. /\ pc = "run" /\ pc' = pc
      /\ DOMAIN index' = {k \in DOMAIN index : Kept(k)}
      /\ \A k \in DOMAIN index' : index'[k] = index[k] /\ index[k][1] \in DOMAIN segs'
      /\ DOMAIN segs' \subseteq DOMAIN segs /\ cur \in DOMAIN segs'
      /\ \A g \in DOMAIN segs' : segs'[g] = segs[g]
      /\ UNCHANGED <<cur, nextSeg, loc, consumed, snap, at, applied, acked, damaged, crashes>>
  BY RunGcFacts
<1>2. TypeOK'
  BY <1>1 DEF Structure, TypeOK
<1>3. Numbered' /\ FreshSegment'
  BY <1>1 DEF Structure, Numbered, FreshSegment
<1>4. AppendInv'
  BY <1>1 DEF AppendInv, Appending, NewFile
<1>5. IndexSound'
  <2>1. IndexSound
    BY DEF Structure
  <2>2. \A k \in DOMAIN index' : Stays(index[k], segs, segs')
    BY <1>1, <2>1, StaysSame
  <2> QED
    BY <1>1, <2>1, <2>2, IndexKept
<1> QED
  BY <1>2, <1>3, <1>4, <1>5 DEF Structure

-----------------------------------------------------------------------------
(***************************************************************************)
(* A crash.  The last record of the current file stays, is gone or is torn *)
(* while it has not been synced; a new file stays, is gone or is headless. *)
(***************************************************************************)
LEMMA LastRecord ==
  ASSUME TypeOK, NEW g \in DOMAIN segs, Len(segs[g].recs) >= 1
  PROVE  /\ LastLost(segs[g]) \in Files /\ LastLost(segs[g]).header = segs[g].header
         /\ Len(LastLost(segs[g]).recs) = Len(segs[g].recs) - 1
         /\ \A p \in 1..(Len(segs[g].recs) - 1) : LastLost(segs[g]).recs[p] = segs[g].recs[p]
         /\ LastTorn(segs[g]) \in Files
         /\ Len(LastTorn(segs[g]).recs) = Len(segs[g].recs)
         /\ LastTorn(segs[g]).recs[Len(segs[g].recs)] = Torn
<1> DEFINE f == segs[g]  R == Indexes \cup {Torn}
<1>1. f \in Files /\ f.recs \in Seq(R) /\ Len(f.recs) \in Nat
  BY SegmentType
<1>2. /\ LastLost(f).recs = SubSeq(f.recs, 1, Len(f.recs) - 1) /\ LastLost(f).header = f.header
      /\ LastTorn(f).recs = [f.recs EXCEPT ![Len(f.recs)] = Torn] /\ LastTorn(f).header = f.header
  BY <1>1 DEF Files, LastLost, LastTorn
<1>3. /\ SubSeq(f.recs, 1, Len(f.recs) - 1) \in Seq(R)
      /\ Len(SubSeq(f.recs, 1, Len(f.recs) - 1)) = Len(f.recs) - 1
      /\ \A p \in 1..(Len(f.recs) - 1) : SubSeq(f.recs, 1, Len(f.recs) - 1)[p] = f.recs[p]
  <2>1. 1 \in 1..(Len(f.recs) + 1) /\ Len(f.recs) - 1 \in 1 - 1..Len(f.recs)
    BY <1>1
  <2> HIDE DEF f, R
  <2> QED
    BY <1>1, <2>1, SubSeqProperties
<1>4. /\ [f.recs EXCEPT ![Len(f.recs)] = Torn] \in Seq(R)
      /\ Len([f.recs EXCEPT ![Len(f.recs)] = Torn]) = Len(f.recs)
      /\ [f.recs EXCEPT ![Len(f.recs)] = Torn][Len(f.recs)] = Torn
  <2>1. Len(f.recs) \in 1..Len(f.recs) /\ Torn \in R
    BY <1>1
  <2> HIDE DEF f, R
  <2> QED
    BY <1>1, <2>1, ExceptSeq
<1>5. LastLost(f) \in Files /\ LastTorn(f) \in Files
  BY <1>1, <1>3, <1>4 DEF Files, LastLost, LastTorn
<1> QED
  BY <1>2, <1>3, <1>4, <1>5

\* the files after a crash
Unharmed == segs' = segs
Lost == NewRecord /\ segs' = [segs EXCEPT ![cur] = LastLost(segs[cur])]
TornOff == NewRecord /\ segs' = [segs EXCEPT ![cur] = LastTorn(segs[cur])]
Gone == NewFile /\ segs' = Restrict(segs, DOMAIN segs \ {cur})
Beheaded == NewFile /\ segs' = [segs EXCEPT ![cur] = Headless]

LEMMA CrashOutcomes ==
  ASSUME Crash
  PROVE  \/ Unharmed \/ Lost \/ TornOff \/ Gone \/ Beheaded
<1>1. segs' \in Survivors
  BY DEF Crash
<1>2. CASE NewRecord
  <2>1. Survivors = {segs, [segs EXCEPT ![cur] = LastLost(@)]} \cup
                    (IF CrashTears THEN {[segs EXCEPT ![cur] = LastTorn(@)]} ELSE {})
    BY <1>2 DEF Survivors, NewRecord, NewFile
  <2> QED
    BY <1>1, <1>2, <2>1 DEF Unharmed, Lost, TornOff
<1>3. CASE NewFile
  <2>1. Survivors = {Restrict(segs, DOMAIN segs \ {cur})} \cup
                    (IF segs[cur].header THEN {segs} ELSE {}) \cup
                    (IF CrashBeheads THEN {[segs EXCEPT ![cur] = Headless]} ELSE {})
    BY <1>3 DEF Survivors, NewRecord, NewFile
  <2> QED
    BY <1>1, <1>3, <2>1 DEF Unharmed, Gone, Beheaded
<1>4. CASE ~NewRecord /\ ~NewFile
  <2>1. Survivors = {segs}
    BY <1>4 DEF Survivors
  <2> QED
    BY <1>1, <2>1 DEF Unharmed
<1> QED
  BY <1>2, <1>3, <1>4

LEMMA NewRecordIsLast ==
  ASSUME Structure, NewRecord
  PROVE  /\ cur \in DOMAIN segs /\ Len(segs[cur].recs) >= 1
         /\ loc[1] = cur /\ loc[2] = Len(segs[cur].recs) /\ Unindexed(loc)
BY DEF NewRecord, Structure, AppendInv, Appending, LastOf

LEMMA NewFileIsEmpty ==
  ASSUME Structure, NewFile
  PROVE  cur \in DOMAIN segs /\ segs[cur].recs = <<>>
<1>1. pc \notin {"down", "failed"}
  BY DEF NewFile
<1> QED
  BY <1>1 DEF Structure, AppendInv, FreshSegment

LEMMA CrashFiles ==
  ASSUME Structure, Crash
  PROVE  /\ DOMAIN segs' \subseteq DOMAIN segs
         /\ \A g \in DOMAIN segs' : g \in Nat /\ segs'[g] \in Files
<1>0. TypeOK /\ Numbered
  BY DEF Structure
<1>1. CASE Unharmed
  BY <1>0, <1>1, SegmentType DEF Unharmed
<1>2. CASE Lost
  <2>1. cur \in DOMAIN segs /\ LastLost(segs[cur]) \in Files
    BY <1>0, <1>2, NewRecordIsLast, LastRecord DEF Lost
  <2> QED
    BY <1>0, <1>2, <2>1, OneFile DEF Lost
<1>3. CASE TornOff
  <2>1. cur \in DOMAIN segs /\ LastTorn(segs[cur]) \in Files
    BY <1>0, <1>3, NewRecordIsLast, LastRecord DEF TornOff
  <2> QED
    BY <1>0, <1>3, <2>1, OneFile DEF TornOff
<1>4. CASE Gone
  BY <1>0, <1>4, SegmentType, RestrictProperties DEF Gone
<1>5. CASE Beheaded
  <2>1. cur \in DOMAIN segs /\ Headless \in Files
    BY <1>5, NewFileIsEmpty DEF Beheaded, Headless, Files
  <2> QED
    BY <1>0, <1>5, <2>1, OneFile DEF Beheaded
<1> QED
  BY <1>1, <1>2, <1>3, <1>4, <1>5, CrashOutcomes

LEMMA CrashStructure ==
  ASSUME Structure, Crash
  PROVE  Structure'
<1>1. /\ pc' = "down" /\ cur' = 0 /\ nextSeg' = 0 /\ loc' = NoLoc
      /\ consumed' = Nothing /\ at' = 1 /\ applied' = 0 /\ snap' = snap /\ acked' = acked
      /\ crashes < MaxCrashes /\ crashes' = crashes + 1
  BY DEF Crash
<1>2. DOMAIN index' = {}
  BY DEF Crash
<1>3. /\ DOMAIN segs' \subseteq DOMAIN segs
      /\ \A g \in DOMAIN segs' : g \in Nat /\ segs'[g] \in Files
  BY CrashFiles
<1>4. TypeOK
  BY DEF Structure
<1>5. TypeOK'
  <2>1. Nothing \in [Streams -> 0..MaxOffset] /\ NoLoc \in Nat \X Nat
    BY WalAssumption DEF Nothing, NoLoc
  <2>2. 1 \in 1..(Len(Log) + 1) /\ 0 \in 0..(1 - 1) /\ 0 \in Nat
    BY LogLength
  <2>3. crashes' \in 0..MaxCrashes
    <3>1. crashes \in 0..MaxCrashes /\ MaxCrashes \in Nat
      BY <1>4, WalAssumption DEF TypeOK
    <3> QED
      BY <1>1, <3>1
  <2>4. damaged' \in BOOLEAN
    <3>1. damaged \in BOOLEAN
      BY <1>4 DEF TypeOK
    <3>2. damaged' = (damaged \/ \E g \in DOMAIN segs' : Damaged(segs'[g]))
      BY DEF Crash
    <3> HIDE DEF Damaged
    <3> QED
      BY <3>1, <3>2, Zenon
  <2>5. snap'.index \in 0..Len(Log) /\ snap'.consumed \in [Streams -> 0..MaxOffset]
        /\ acked' \in [Streams -> 0..MaxOffset]
    BY <1>1, <1>4 DEF TypeOK
  <2>6. pc' \in {"down", "first header", "run", "apply", "rotate", "header", "sync", "failed"}
    BY <1>1
  <2>7. /\ consumed' \in [Streams -> 0..MaxOffset] /\ loc' \in Nat \X Nat
        /\ at' \in 1..(Len(Log) + 1) /\ applied' \in 0..(at' - 1) /\ cur' \in Nat /\ nextSeg' \in Nat
    BY <1>1, <2>1, <2>2
  <2> QED
    BY <1>2, <1>3, <2>3, <2>4, <2>5, <2>6, <2>7 DEF TypeOK
<1>6. Numbered'
  BY <1>3 DEF Structure, Numbered
<1>7. FreshSegment' /\ AppendInv'
  BY <1>1 DEF FreshSegment, AppendInv, Appending, NewFile
<1>8. IndexSound'
  BY <1>2 DEF IndexSound
<1> QED
  BY <1>5, <1>6, <1>7, <1>8 DEF Structure

LEMMA NextStructure == Structure /\ [Next]_vars => Structure'
<1> SUFFICES ASSUME Structure, [Next]_vars PROVE Structure'
  OBVIOUS
<1>1. CASE Open
  BY <1>1, OpenStructure
<1>2. CASE OpenFails
  BY <1>2, OpenFailsStructure
<1>3. CASE OpenEmpty
  BY <1>3, OpenEmptyStructure
<1>4. CASE FirstHeader
  BY <1>4, FirstHeaderStructure
<1>5. CASE AppendWithLogIndex
  BY <1>5, AppendStructure
<1>6. CASE Rotate
  BY <1>6, RotateStructure
<1>7. CASE Header
  BY <1>7, HeaderStructure
<1>8. CASE Sync
  BY <1>8, SyncStructure
<1>9. CASE \E s \in Streams, o \in 1..MaxOffset : Consume(s, o)
  BY <1>9, ConsumeStructure
<1>10. CASE RunGc
  BY <1>10, RunGcStructure
<1>11. CASE Crash
  BY <1>11, CrashStructure
<1>12. CASE UNCHANGED vars
  <2>1. UNCHANGED <<segs, cur, nextSeg, index, loc, consumed, snap, at, applied, pc, acked,
                    damaged, crashes>>
    BY <1>12 DEF vars, crashVars
  <2>2. IndexSound'
    BY <2>1, IndexUntouched DEF Structure
  <2>3. TypeOK' /\ Numbered' /\ FreshSegment'
    BY <2>1 DEF Structure, TypeOK, Numbered, FreshSegment
  <2>4. AppendInv'
    <3>1. (LastOf(loc) => LastOf(loc)') /\ RecordAt(loc)' = RecordAt(loc) /\ (Unindexed(loc) => Unindexed(loc)')
      BY <2>1 DEF LastOf, RecordAt, Unindexed
    <3> QED
      BY <2>1, <3>1 DEF Structure, AppendInv, Appending, NewFile
  <2> QED
    BY <2>2, <2>3, <2>4 DEF Structure
<1> QED
  BY <1>1, <1>2, <1>3, <1>4, <1>5, <1>6, <1>7, <1>8, <1>9, <1>10, <1>11, <1>12 DEF Next

\* The structure holds: the inductive invariant of the three theorems below.
THEOREM StructureHolds == Spec => []Structure
<1> QED
  BY InitStructure, NextStructure, PTL DEF Spec

\* TypeOK: types, over every crash and whatever it left of the files.
THEOREM WalTypeCorrect == Spec => []TypeOK
<1>1. Structure => TypeOK
  BY DEF Structure
<1> QED
  BY <1>1, StructureHolds, PTL

\* IndexSound: a lookup never leads to a removed file, a torn record or a record
\* of another stream or position: through rotation, replay and garbage collection.
THEOREM IndexIsSound == Spec => []IndexSound
<1>1. Structure => IndexSound
  BY DEF Structure
<1> QED
  BY <1>1, StructureHolds, PTL

\* FreshSegment: create_new is never asked for a segment that exists.
THEOREM SegmentsAreFresh == Spec => []FreshSegment
<1>1. Structure => FreshSegment
  BY DEF Structure
<1> QED
  BY <1>1, StructureHolds, PTL

-----------------------------------------------------------------------------
(***************************************************************************)
(* The contents are kept, action by action.                                *)
(***************************************************************************)
LEMMA CountersTyped ==
  ASSUME TypeOK
  PROVE  /\ at \in Nat /\ applied \in Nat /\ snap.index \in Nat /\ applied < at
         /\ \A s \in Streams : consumed[s] \in Nat /\ acked[s] \in Nat /\ snap.consumed[s] \in Nat
<1>1. at \in 1..(Len(Log) + 1) /\ applied \in 0..(at - 1) /\ snap.index \in 0..Len(Log)
  BY DEF TypeOK
<1>2. /\ consumed \in [Streams -> 0..MaxOffset] /\ acked \in [Streams -> 0..MaxOffset]
      /\ snap.consumed \in [Streams -> 0..MaxOffset] /\ MaxOffset \in Nat
  BY WalAssumption DEF TypeOK
<1>3. at \in Nat /\ applied \in Nat /\ snap.index \in Nat /\ applied < at
  BY <1>1, LogLength
<1>4. \A s \in Streams : consumed[s] \in Nat /\ acked[s] \in Nat /\ snap.consumed[s] \in Nat
  BY <1>2
<1> QED
  BY <1>3, <1>4

LEMMA InitContents == Init => Contents
<1> SUFFICES ASSUME Init PROVE Contents
  OBVIOUS
<1>1. /\ DOMAIN segs = {} /\ pc = "down"
      /\ consumed = Nothing /\ acked = Nothing /\ snap.index = 0 /\ snap.consumed = Nothing
  BY DEF Init
<1>2. Behind
  BY <1>1 DEF Behind, Up, Nothing
<1>3. Whole /\ StoredUpTo(snap.index) /\ ~Up
  BY <1>1 DEF Whole, StoredUpTo, Up
<1> QED
  BY <1>1, <1>2, <1>3 DEF Contents

\* every entry that is in the index is on disk, and stays if its record does
LEMMA IndexedIsOnDisk ==
  ASSUME IndexSound, NEW k \in DOMAIN index, Stays(index[k], segs, segs')
  PROVE  OnDisk(k)'
<1> DEFINE l == index[k]
<1>1. /\ l[1] \in DOMAIN segs' /\ l[2] \in 1..Len(segs'[l[1]].recs)
      /\ segs'[l[1]].recs[l[2]] = segs[l[1]].recs[l[2]]
  BY DEF Stays
<1>2. segs[l[1]].recs[l[2]] # Torn /\ Key(segs[l[1]].recs[l[2]]) = k
  BY DEF IndexSound, RecordAt
<1> HIDE DEF l
<1>3. \E g \in DOMAIN segs' : \E p \in 1..Len(segs'[g].recs) :
        segs'[g].recs[p] # Torn /\ Key(segs'[g].recs[p]) = k
  BY <1>1, <1>2
<1> QED
  BY <1>3 DEF OnDisk, Key


LEMMA OpenContents ==
  ASSUME Structure, Contents, Open
  PROVE  Contents'
<1>1. /\ pc = "down" /\ index' = RebuiltIndex /\ pc' = "run" /\ Resume /\ segs' = segs
  BY DEF Open
<1>2. Behind'
  <2>1. /\ \A s \in Streams : consumed'[s] <= acked'[s] /\ snap'.consumed[s] <= acked'[s]
        /\ applied' = snap'.index
    BY <1>1 DEF Contents, Behind, Resume
  <2>2. snap.index \in Nat /\ snap' = snap
    BY <1>1, CountersTyped DEF Structure, Resume
  <2> QED
    BY <2>1, <2>2 DEF Behind
<1>3. ASSUME ~damaged' PROVE Whole' /\ IndexedUpTo(at - 1)'
  <2>1. ~damaged /\ acked' = acked /\ at' = snap.index + 1 /\ snap.index \in Nat
    BY <1>1, <1>3, CountersTyped DEF Structure, Resume, crashVars
  <2>2. Whole /\ StoredUpTo(snap.index)
    BY <1>1, <2>1 DEF Contents
  <2>3. \A g \in DOMAIN segs : segs[g].header /\ WholeFile(segs[g])
    BY <1>1, <2>2 DEF Whole
  <2>4. Whole'
    BY <1>1, <2>3 DEF Whole, WholeFile
  <2>5. \A i \in 1..snap.index : Unread(i) => Key(i) \in DOMAIN RebuiltIndex
    BY <2>2, <2>3, RebuiltFinds DEF StoredUpTo, Structure
  <2>6. \A i \in 1..(at' - 1) : i \in 1..snap.index /\ (Unread(i)' <=> Unread(i)) /\ Key(i)' = Key(i)
    BY <2>1 DEF Unread, Key
  <2>7. \A i \in 1..(at' - 1) : Unread(i)' => Key(i)' \in DOMAIN index'
    BY <1>1, <2>5, <2>6
  <2> QED
    BY <2>4, <2>7 DEF IndexedUpTo
<1> QED
  BY <1>1, <1>2, <1>3 DEF Contents, Up

LEMMA OpenFailsContents ==
  ASSUME Structure, Contents, OpenFails
  PROVE  Contents'
<1>1. /\ pc' = "failed" /\ UNCHANGED <<consumed, acked, snap>>
  BY DEF OpenFails, memory
<1> QED
  BY <1>1 DEF Contents, Behind, Up

LEMMA OpenEmptyContents ==
  ASSUME Structure, Contents, OpenEmpty
  PROVE  Contents'
<1>1. /\ pc = "down" /\ DOMAIN segs = {} /\ Create(0) /\ cur' = 0
      /\ pc' = "first header" /\ Resume
  BY DEF OpenEmpty
<1>2. /\ \A s \in Streams : consumed'[s] <= acked'[s] /\ snap'.consumed[s] <= acked'[s]
      /\ applied' = snap'.index
  BY <1>1 DEF Contents, Behind, Resume
<1>3. /\ snap.index \in Nat /\ snap' = snap /\ at' = snap.index + 1
      /\ acked' = acked /\ damaged' = damaged
  BY <1>1, CountersTyped DEF Structure, Resume, crashVars
<1>4. DOMAIN segs' = {0} /\ segs'[0] = Headless
  BY <1>1 DEF Create, Insert
<1>5. Whole'
  <2>1. Len(Headless.recs) = 0
    BY DEF Headless
  <2>2. WholeFile(Headless)
    BY <2>1 DEF WholeFile
  <2>3. WholeFile(segs'[0])
    BY <1>4, <2>2
  <2> QED
    BY <1>1, <1>4, <2>3 DEF Whole, WholeFile
<1>6. ASSUME ~damaged' PROVE IndexedUpTo(at - 1)'
  <2>1. StoredUpTo(snap.index)
    BY <1>1, <1>3, <1>6 DEF Contents
  <2>2. \A i \in 1..snap.index : ~Unread(i)
    BY <1>1, <2>1 DEF StoredUpTo, OnDisk
  <2>3. \A i \in 1..(at' - 1) : i \in 1..snap.index /\ (Unread(i)' <=> Unread(i))
    BY <1>3 DEF Unread
  <2> QED
    BY <2>2, <2>3 DEF IndexedUpTo
<1>7. Behind'
  BY <1>2, <1>3 DEF Behind
<1> QED
  BY <1>1, <1>5, <1>6, <1>7 DEF Contents, Up

\* the header of a new file
LEMMA HeaderContents ==
  ASSUME Structure, Contents, FirstHeader \/ Header
  PROVE  Contents'
<1>1. /\ pc \in {"first header", "header"} /\ pc' \in {"run", "sync"}
      /\ segs' = [segs EXCEPT ![cur].header = TRUE]
      /\ UNCHANGED <<memory, snap, acked, damaged, crashes>>
  BY DEF FirstHeader, Header, crashVars
<1>2. /\ DOMAIN segs' = DOMAIN segs /\ cur \in DOMAIN segs /\ segs'[cur].header = TRUE
      /\ \A h \in DOMAIN segs : segs'[h].recs = segs[h].recs
      /\ \A h \in DOMAIN segs : h # cur => segs'[h] = segs[h]
  BY <1>1, HeaderWritten DEF Up
<1>3. UNCHANGED <<cur, index, consumed, at, applied, snap, acked, damaged>>
  BY <1>1 DEF memory
<1>4. Behind'
  BY <1>1, <1>3 DEF Contents, Behind, Up
<1>5. ASSUME ~damaged' PROVE Whole' /\ IndexedUpTo(at - 1)'
  <2>0. ~damaged /\ pc # "failed" /\ Up
    <3>1. ~damaged
      BY <1>3, <1>5
    <3>2. pc \in {"first header", "header"}
      BY <1>1
    <3> QED
      BY <3>1, <3>2 DEF Up
  <2>1. Whole /\ IndexedUpTo(at - 1)
    BY <2>0 DEF Contents
  <2>2. \A g \in DOMAIN segs' : WholeFile(segs'[g]) /\ segs'[g].header
    <3> SUFFICES ASSUME NEW g \in DOMAIN segs PROVE WholeFile(segs'[g]) /\ segs'[g].header
      BY <1>2
    <3>1. segs'[g].recs = segs[g].recs /\ WholeFile(segs[g])
      BY <1>2, <2>1 DEF Whole
    <3>2. segs'[g].header
      BY <1>2, <2>1 DEF Whole
    <3> QED
      BY <3>1, <3>2 DEF WholeFile
  <2>3. Whole'
    BY <2>2 DEF Whole, WholeFile
  <2>4. IndexedUpTo(at - 1)'
    BY <1>3, <2>1 DEF IndexedUpTo, Unread, Key
  <2> QED
    BY <2>3, <2>4
<1> QED
  BY <1>1, <1>4, <1>5 DEF Contents, Up

LEMMA AppendContents ==
  ASSUME Structure, Contents, AppendWithLogIndex
  PROVE  Contents'
<1>1. /\ cur \in DOMAIN segs /\ at \in Indexes /\ pc \in {"run", "apply"}
      /\ DOMAIN segs' = DOMAIN segs
      /\ \A h \in DOMAIN segs : h # cur => segs'[h] = segs[h]
      /\ segs'[cur].header = segs[cur].header
      /\ Len(segs'[cur].recs) = Len(segs[cur].recs) + 1
      /\ segs'[cur].recs[Len(segs'[cur].recs)] = at
      /\ \A p \in 1..Len(segs[cur].recs) : segs'[cur].recs[p] = segs[cur].recs[p]
      /\ pc' \in {"rotate", "sync"}
  BY AppendSegs
<1>2. UNCHANGED <<cur, index, consumed, snap, at, applied, acked, damaged>>
  BY DEF AppendWithLogIndex, crashVars
<1>3. Behind'
  BY <1>1, <1>2 DEF Contents, Behind, Up
<1>4. ASSUME ~damaged' PROVE Whole' /\ IndexedUpTo(at - 1)'
  <2>1. Whole /\ IndexedUpTo(at - 1)
    BY <1>1, <1>2, <1>4 DEF Contents, Up
  <2>2. \A g \in DOMAIN segs : WholeFile(segs[g]) /\ segs[g].header
    BY <1>1, <2>1 DEF Whole
  <2>3. WholeFile(segs'[cur])
    <3>1. Len(segs[cur].recs) \in Nat
      BY <1>1, SegmentType DEF Structure
    <3>2. \A p \in 1..Len(segs'[cur].recs) :
            p \in 1..Len(segs[cur].recs) \/ p = Len(segs'[cur].recs)
      BY <1>1, <3>1
    <3>3. at # Torn
      BY <1>1 DEF Indexes, Torn
    <3>4. \A p \in 1..Len(segs[cur].recs) : segs[cur].recs[p] # Torn
      BY <1>1, <2>2 DEF WholeFile
    <3> QED
      BY <1>1, <3>2, <3>3, <3>4 DEF WholeFile
  <2>4. \A g \in DOMAIN segs' : WholeFile(segs'[g]) /\ segs'[g].header
    BY <1>1, <2>2, <2>3
  <2>5. Whole'
    BY <2>4 DEF Whole, WholeFile
  <2>6. IndexedUpTo(at - 1)'
    BY <1>2, <2>1 DEF IndexedUpTo, Unread, Key
  <2> QED
    BY <2>5, <2>6
<1> QED
  BY <1>1, <1>3, <1>4 DEF Contents, Up

LEMMA RotateContents ==
  ASSUME Structure, Contents, Rotate
  PROVE  Contents'
<1>1. /\ pc = "rotate" /\ pc' = "header" /\ Create(nextSeg) /\ cur' = nextSeg
      /\ UNCHANGED <<index, consumed, snap, at, applied, acked, damaged>>
  BY DEF Rotate, crashVars
<1>2. \A g \in DOMAIN segs : g \in Nat /\ g # nextSeg
  <2>1. nextSeg \in Nat /\ \A g \in DOMAIN segs : g \in Nat /\ g < nextSeg
    BY <1>1, SegmentType DEF Structure, FreshSegment, TypeOK
  <2> QED
    BY <2>1
<1>3. /\ DOMAIN segs' = DOMAIN segs \cup {nextSeg} /\ segs'[nextSeg] = Headless
      /\ \A g \in DOMAIN segs : segs'[g] = segs[g]
  BY <1>1, <1>2 DEF Create, Insert
<1>4. Behind'
  BY <1>1 DEF Contents, Behind, Up
<1>5. ASSUME ~damaged' PROVE Whole' /\ IndexedUpTo(at - 1)'
  <2>1. Whole /\ IndexedUpTo(at - 1)
    BY <1>1, <1>5 DEF Contents, Up
  <2>2. WholeFile(Headless)
    <3>1. Len(Headless.recs) = 0
      BY DEF Headless
    <3> QED
      BY <3>1 DEF WholeFile
  <2>3. \A g \in DOMAIN segs' : WholeFile(segs'[g]) /\ (segs'[g].header \/ g = nextSeg)
    BY <1>1, <1>3, <2>1, <2>2 DEF Whole
  <2>4. Whole'
    BY <1>1, <2>3 DEF Whole, WholeFile
  <2>5. IndexedUpTo(at - 1)'
    BY <1>1, <2>1 DEF IndexedUpTo, Unread, Key
  <2> QED
    BY <2>4, <2>5
<1> QED
  BY <1>1, <1>4, <1>5 DEF Contents, Up

LEMMA SyncContents ==
  ASSUME Structure, Contents, Sync
  PROVE  Contents'
<1>1. /\ pc = "sync" /\ at \in Indexes /\ at' = at + 1
      /\ DOMAIN index' = DOMAIN index \cup {Key(at)}
      /\ pc' \in {"apply", "run"} /\ applied' \in {applied, at}
      /\ snap' \in {snap, [index |-> applied, consumed |-> consumed]}
      /\ UNCHANGED <<segs, cur, consumed, acked, damaged>>
  BY SyncFacts
<1>2. /\ at \in Nat /\ applied \in Nat /\ snap.index \in Nat /\ applied < at
      /\ snap.index <= applied /\ \A s \in Streams : consumed[s] <= acked[s] /\ snap.consumed[s] <= acked[s]
  BY <1>1, CountersTyped DEF Structure, Contents, Behind, Up
<1>3. Behind'
  <2>1. applied <= applied'
    BY <1>1, <1>2
  <2>2. CASE snap' = snap
    BY <1>1, <1>2, <2>1, <2>2 DEF Behind
  <2>3. CASE snap' = [index |-> applied, consumed |-> consumed]
    <3>1. snap'.index = applied /\ snap'.consumed = consumed
      BY <2>3
    <3> QED
      BY <1>1, <1>2, <2>1, <3>1 DEF Behind
  <2> QED
    BY <1>1, <2>2, <2>3
<1>4. ASSUME ~damaged' PROVE Whole' /\ IndexedUpTo(at - 1)'
  <2>1. Whole /\ IndexedUpTo(at - 1)
    BY <1>1, <1>4 DEF Contents, Up
  <2>2. Whole'
    BY <1>1, <2>1 DEF Whole, WholeFile
  <2>3. \A i \in 1..at : Unread(i) => Key(i) \in DOMAIN index'
    <3>1. \A i \in 1..at : i \in 1..(at - 1) \/ i = at
      BY <1>2
    <3> QED
      BY <1>1, <2>1, <3>1 DEF IndexedUpTo
  <2>4. at' - 1 = at
    BY <1>1, <1>2
  <2>5. IndexedUpTo(at - 1)'
    BY <1>1, <2>3, <2>4 DEF IndexedUpTo, Unread, Key
  <2> QED
    BY <2>2, <2>5
<1> QED
  BY <1>1, <1>3, <1>4 DEF Contents, Up

LEMMA ConsumeContents ==
  ASSUME Structure, Contents, NEW s \in Streams, NEW o \in 1..MaxOffset, Consume(s, o)
  PROVE  Contents'
<1>1. /\ pc = "run" /\ pc' = pc /\ consumed' = [consumed EXCEPT ![s] = o]
      /\ acked' = [acked EXCEPT ![s] = IF o > @ THEN o ELSE @]
      /\ UNCHANGED <<segs, cur, index, snap, at, applied, damaged>>
  BY DEF Consume, crashVars
<1>2. /\ consumed \in [Streams -> 0..MaxOffset] /\ acked \in [Streams -> 0..MaxOffset]
      /\ o \in Nat
  <2>1. consumed \in [Streams -> 0..MaxOffset] /\ acked \in [Streams -> 0..MaxOffset]
    BY DEF Structure, TypeOK
  <2>2. o \in Nat
    BY WalAssumption
  <2> QED
    BY <2>1, <2>2
<1>3. \A t \in Streams : consumed[t] \in Nat /\ acked[t] \in Nat /\ snap.consumed[t] \in Nat
  BY CountersTyped DEF Structure
<1>4. \A t \in Streams : /\ acked'[t] \in Nat /\ acked[t] <= acked'[t]
                         /\ consumed'[t] \in {consumed[t], o}
                         /\ consumed'[t] = o => o <= acked'[t] \/ consumed'[t] = consumed[t]
  BY <1>1, <1>2, <1>3
<1>5. Behind'
  <2>1. Behind
    BY DEF Contents
  <2>2. \A t \in Streams : consumed'[t] <= acked'[t] /\ snap.consumed[t] <= acked'[t]
    BY <1>2, <1>3, <1>4, <2>1 DEF Behind
  <2> QED
    BY <1>1, <2>1, <2>2 DEF Behind, Up
<1>6. ASSUME ~damaged' PROVE Whole' /\ IndexedUpTo(at - 1)'
  <2>1. Whole /\ IndexedUpTo(at - 1)
    BY <1>1, <1>6 DEF Contents, Up
  <2>2. Whole'
    BY <1>1, <2>1 DEF Whole, WholeFile
  <2>3. \A i \in 1..(at - 1) : Unread(i)' => Unread(i)
    <3> SUFFICES ASSUME NEW i \in 1..(at - 1), Unread(i)' PROVE Unread(i)
      OBVIOUS
    <3>1. at \in 1..(Len(Log) + 1)
      BY DEF Structure, TypeOK
    <3>2. i \in Indexes
      BY <3>1, LogLength DEF Indexes
    <3>3. Log[i].lsn \in Nat /\ Log[i].stream \in Streams
      BY <3>2, KeyType
    <3>4. Log[i].lsn >= acked'[Log[i].stream]
      BY DEF Unread
    <3> QED
      BY <1>3, <1>4, <3>3, <3>4 DEF Unread
  <2> QED
    BY <1>1, <2>1, <2>2, <2>3 DEF IndexedUpTo, Key
<1> QED
  BY <1>1, <1>5, <1>6 DEF Contents, Up

LEMMA RunGcContents ==
  ASSUME Structure, Contents, RunGc
  PROVE  Contents'
<1>1. /\ pc = "run" /\ pc' = pc
      /\ DOMAIN index' = {k \in DOMAIN index : Kept(k)}
      /\ DOMAIN segs' \subseteq DOMAIN segs
      /\ \A g \in DOMAIN segs' : segs'[g] = segs[g]
      /\ UNCHANGED <<cur, consumed, snap, at, applied, acked, damaged>>
  BY RunGcFacts
<1>2. Behind'
  BY <1>1 DEF Contents, Behind, Up
<1>3. ASSUME ~damaged' PROVE Whole' /\ IndexedUpTo(at - 1)'
  <2>1. Whole /\ IndexedUpTo(at - 1)
    BY <1>1, <1>3 DEF Contents, Up
  <2>2. Whole'
    BY <1>1, <2>1 DEF Whole, WholeFile
  <2>3. \A i \in 1..(at - 1) : Unread(i) => Kept(Key(i))
    <3> SUFFICES ASSUME NEW i \in 1..(at - 1), Unread(i) PROVE Kept(Key(i))
      OBVIOUS
    <3>1. at \in 1..(Len(Log) + 1)
      BY DEF Structure, TypeOK
    <3>2. i \in Indexes
      BY <3>1, LogLength DEF Indexes
    <3>3. /\ Log[i].lsn \in Nat /\ Log[i].stream \in Streams
          /\ Key(i)[1] = Log[i].stream /\ Key(i)[2] = Log[i].lsn
      BY <3>2, KeyType
    <3>4. /\ consumed[Log[i].stream] \in Nat /\ acked[Log[i].stream] \in Nat
          /\ consumed[Log[i].stream] <= acked[Log[i].stream]
      BY <3>3, CountersTyped DEF Structure, Contents, Behind
    <3>5. Log[i].lsn >= acked[Log[i].stream]
      BY DEF Unread
    <3>6. Log[i].lsn >= consumed[Log[i].stream]
      BY <3>3, <3>4, <3>5
    <3> QED
      BY <3>3, <3>6 DEF Kept
  <2>4. \A i \in 1..(at - 1) : Unread(i) => Key(i) \in DOMAIN index'
    BY <1>1, <2>1, <2>3 DEF IndexedUpTo
  <2> QED
    BY <1>1, <2>2, <2>4 DEF IndexedUpTo, Unread, Key
<1> QED
  BY <1>1, <1>2, <1>3 DEF Contents, Up

\* a crash that damages nothing leaves every indexed record where it was
LEMMA CrashStays ==
  ASSUME Structure, Crash, ~damaged', NEW k \in DOMAIN index
  PROVE  Stays(index[k], segs, segs')
<1> DEFINE l == index[k]
<1>0. TypeOK /\ IndexSound
  BY DEF Structure
<1>1. l[1] \in DOMAIN segs /\ l[2] \in 1..Len(segs[l[1]].recs) /\ l \in Nat \X Nat
  BY <1>0 DEF IndexSound, TypeOK
<1>2. \A g \in DOMAIN segs' : ~Damaged(segs'[g])
  BY DEF Crash
<1>3. CASE Unharmed
  BY <1>1, <1>3 DEF Unharmed, Stays
<1>4. CASE Lost
  <2>1. /\ cur \in DOMAIN segs /\ Len(segs[cur].recs) >= 1
        /\ loc[1] = cur /\ loc[2] = Len(segs[cur].recs) /\ l # loc
    BY <1>4, NewRecordIsLast DEF Lost, Unindexed
  <2>2. /\ DOMAIN segs' = DOMAIN segs /\ segs'[cur] = LastLost(segs[cur])
        /\ \A g \in DOMAIN segs : g # cur => segs'[g] = segs[g]
    BY <1>4, <2>1 DEF Lost
  <2>3. CASE l[1] = cur
    <3>1. l[2] # Len(segs[cur].recs)
      <4>1. l \in Nat \X Nat /\ loc \in Nat \X Nat
        BY <1>0, <1>1 DEF TypeOK
      <4> HIDE DEF l
      <4> QED
        BY <2>1, <2>3, <4>1
    <3>2. l[2] \in 1..Len(segs[cur].recs) /\ Len(segs[cur].recs) \in Nat
      BY <1>0, <1>1, <2>1, <2>3, SegmentType
    <3>3. l[2] \in 1..(Len(segs[cur].recs) - 1)
      BY <3>1, <3>2
    <3>4. /\ Len(segs'[cur].recs) = Len(segs[cur].recs) - 1
          /\ segs'[cur].recs[l[2]] = segs[cur].recs[l[2]]
      BY <1>0, <2>1, <2>2, <3>3, LastRecord
    <3> QED
      BY <2>1, <2>2, <2>3, <3>3, <3>4 DEF Stays
  <2>4. CASE l[1] # cur
    BY <1>1, <2>2, <2>4 DEF Stays
  <2> QED
    BY <2>3, <2>4
<1>5. CASE TornOff
  <2>1. /\ cur \in DOMAIN segs /\ Len(segs[cur].recs) >= 1 /\ Len(segs[cur].recs) \in Nat
    BY <1>0, <1>5, NewRecordIsLast, SegmentType DEF TornOff
  <2>2. cur \in DOMAIN segs' /\ segs'[cur] = LastTorn(segs[cur])
    BY <1>5, <2>1 DEF TornOff
  <2>3. /\ Len(segs'[cur].recs) = Len(segs[cur].recs) /\ segs'[cur] \in Files
        /\ segs'[cur].recs[Len(segs[cur].recs)] = Torn
    BY <1>0, <2>1, <2>2, LastRecord
  <2>4. Len(segs[cur].recs) \in DOMAIN segs'[cur].recs
    BY <2>1, <2>3, FileType
  <2>5. Torn \in Range(segs'[cur].recs)
    BY <2>3, <2>4 DEF Range
  <2> QED
    BY <1>2, <2>2, <2>5 DEF Damaged
<1>6. CASE Gone
  <2>1. cur \in DOMAIN segs /\ segs[cur].recs = <<>>
    BY <1>6, NewFileIsEmpty DEF Gone
  <2>2. l[1] # cur
    BY <1>1, <2>1
  <2>3. l[1] \in DOMAIN segs' /\ segs'[l[1]] = segs[l[1]]
    BY <1>1, <1>6, <2>2, RestrictProperties DEF Gone
  <2> QED
    BY <1>1, <2>3 DEF Stays
<1>7. CASE Beheaded
  <2>1. cur \in DOMAIN segs
    BY <1>7, NewFileIsEmpty DEF Beheaded
  <2>2. cur \in DOMAIN segs' /\ segs'[cur] = Headless
    BY <1>7, <2>1 DEF Beheaded
  <2> QED
    BY <1>2, <2>2 DEF Damaged, Headless
<1> QED
  BY <1>3, <1>4, <1>5, <1>6, <1>7, CrashOutcomes

LEMMA CrashContents ==
  ASSUME Structure, Contents, Crash
  PROVE  Contents'
<1>1. /\ pc \notin {"down", "failed"} /\ pc' = "down" /\ consumed' = Nothing
      /\ snap' = snap /\ acked' = acked
      /\ damaged' = (damaged \/ \E g \in DOMAIN segs' : Damaged(segs'[g]))
  BY DEF Crash
<1>2. Behind'
  <2>1. \A s \in Streams : snap.consumed[s] <= acked[s] /\ acked[s] \in Nat
    BY CountersTyped DEF Contents, Behind, Structure
  <2>2. \A s \in Streams : consumed'[s] = 0
    BY <1>1 DEF Nothing
  <2>3. \A s \in Streams : consumed'[s] <= acked[s]
    BY <2>1, <2>2
  <2> QED
    BY <1>1, <2>1, <2>3 DEF Behind, Up
<1>3. ASSUME ~damaged' PROVE Whole' /\ StoredUpTo(snap.index)'
  <2>1. ~damaged /\ \A g \in DOMAIN segs' : ~Damaged(segs'[g])
    BY <1>1, <1>3
  <2>2. Whole'
    <3> SUFFICES ASSUME NEW g \in DOMAIN segs' PROVE WholeFile(segs'[g]) /\ segs'[g].header
      BY DEF Whole, WholeFile
    <3>1. segs'[g].header /\ Torn \notin Range(segs'[g].recs)
      BY <2>1 DEF Damaged
    <3>2. DOMAIN segs'[g].recs = 1..Len(segs'[g].recs)
      BY CrashFiles, FileType
    <3> QED
      BY <3>1, <3>2 DEF WholeFile, Range
  <2>3. IndexedUpTo(at - 1)
    BY <1>1, <2>1 DEF Contents, Up
  <2>4. \A i \in 1..snap.index : i \in 1..(at - 1)
    <3>1. /\ at \in Nat /\ applied \in Nat /\ snap.index \in Nat /\ applied < at
          /\ snap.index <= applied
      BY <1>1, CountersTyped DEF Structure, Contents, Behind, Up
    <3> QED
      BY <3>1
  <2>5. \A k \in DOMAIN index : OnDisk(k)'
    BY <1>3, CrashStays, IndexedIsOnDisk DEF Structure
  <2>6. \A i \in 1..snap.index : Unread(i) => OnDisk(Key(i))'
    BY <2>3, <2>4, <2>5 DEF IndexedUpTo, OnDisk, Key
  <2> QED
    BY <1>1, <2>2, <2>6 DEF StoredUpTo, Unread, OnDisk, Key
<1> QED
  BY <1>1, <1>2, <1>3 DEF Contents, Up

LEMMA NextContents == Structure /\ Contents /\ [Next]_vars => Contents'
<1> SUFFICES ASSUME Structure, Contents, [Next]_vars PROVE Contents'
  OBVIOUS
<1>1. CASE Open
  BY <1>1, OpenContents
<1>2. CASE OpenFails
  BY <1>2, OpenFailsContents
<1>3. CASE OpenEmpty
  BY <1>3, OpenEmptyContents
<1>4. CASE FirstHeader \/ Header
  BY <1>4, HeaderContents
<1>5. CASE AppendWithLogIndex
  BY <1>5, AppendContents
<1>6. CASE Rotate
  BY <1>6, RotateContents
<1>7. CASE Sync
  BY <1>7, SyncContents
<1>8. CASE \E s \in Streams, o \in 1..MaxOffset : Consume(s, o)
  BY <1>8, ConsumeContents
<1>9. CASE RunGc
  BY <1>9, RunGcContents
<1>10. CASE Crash
  BY <1>10, CrashContents
<1>11. CASE UNCHANGED vars
  <2>1. UNCHANGED <<segs, cur, index, consumed, snap, at, applied, pc, acked, damaged>>
    BY <1>11 DEF vars, crashVars
  <2>2. Behind' /\ (Whole => Whole') /\ (Up' <=> Up)
    BY <2>1 DEF Contents, Behind, Whole, WholeFile, Up
  <2>3. /\ StoredUpTo(snap.index) => StoredUpTo(snap.index)'
        /\ IndexedUpTo(at - 1) => IndexedUpTo(at - 1)'
    BY <2>1 DEF StoredUpTo, IndexedUpTo, Unread, OnDisk, Key
  <2> QED
    BY <2>1, <2>2, <2>3 DEF Contents
<1> QED
  BY <1>1, <1>2, <1>3, <1>4, <1>5, <1>6, <1>7, <1>8, <1>9, <1>10, <1>11 DEF Next

\* CleanlyReadable: as long as crashes lose unsynced writes whole, every entry
\* that raft will not deliver again and no consumer has acknowledged is in the
\* index of the running process, whatever was rotated, removed and replayed.
THEOREM ReadableUnlessTorn == Spec => []CleanlyReadable
<1>1. Init => Structure /\ Contents
  BY InitStructure, InitContents
<1>2. Structure /\ Contents /\ [Next]_vars => (Structure /\ Contents)'
  BY NextStructure, NextContents
<1>3. Structure /\ Contents => CleanlyReadable
  BY DEF Contents, CleanlyReadable, AppliedReadable, Up, IndexedUpTo, Unread
<1> QED
  BY <1>1, <1>2, <1>3, PTL DEF Spec
=============================================================================
