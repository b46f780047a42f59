-------------------------- MODULE SnapshotsProofs --------------------------
(***************************************************************************)
(* A snapshot that is being read is never deleted, for any number of       *)
(* handlers, snapshots and faults, and whatever clients do: the reference  *)
(* count is at least the number of readers.                                *)
(***************************************************************************)
EXTENDS Snapshots, FiniteSetTheorems, TLAPS

SnapInv == RowsOK /\ HandsOK /\ ReadersCounted

\* A step that takes no reference, gives none back and deletes nothing.
Quiet ==
    /\ \A s \in DOMAIN snaps : s \in DOMAIN snaps' /\ snaps'[s].refs = snaps[s].refs
    /\ \A s \in Snaps : Holders(s)' \subseteq Holders(s)

Takes(g, s) ==
    /\ s \in DOMAIN snaps /\ snaps' = [snaps EXCEPT ![s].refs = @ + 1]
    /\ Holders(s)' \subseteq Holders(s) \cup {g}
    /\ \A t \in Snaps \ {s} : Holders(t)' \subseteq Holders(t)

Gives(g, s) ==
    /\ g \in Holders(s) /\ ReleaseSnapshot(s)
    /\ Holders(s)' \subseteq Holders(s) \ {g}
    /\ \A t \in Snaps \ {s} : Holders(t)' \subseteq Holders(t)

Removes(s) ==
    /\ Deletable(s) /\ snaps' = Drop(snaps, s)
    /\ \A t \in Snaps : Holders(t)' \subseteq Holders(t)

ReaderStep ==
    \/ Quiet
    \/ \E g \in Gateways, s \in Snaps \cup {NoBase} : Takes(g, s) \/ Gives(g, s)
    \/ \E s \in Snaps \cup {NoBase} : Removes(s)

\* The readers are finitely many.
LEMMA HoldersFinite == \A s : IsFiniteSet(Holders(s))
  BY SnapshotAssumption, FS_Subset DEF Holders

\* Fewer readers are no larger a number of them.
LEMMA FewerReaders ==
    ASSUME NEW A, NEW B, IsFiniteSet(B), A \subseteq B
    PROVE  IsFiniteSet(A) /\ Cardinality(A) \in Nat /\ Cardinality(B) \in Nat
           /\ Cardinality(A) <= Cardinality(B)
  BY FS_Subset, FS_CardinalityType

\* One more reader adds at most one.
LEMMA OneMoreReader ==
    ASSUME NEW A, NEW g, IsFiniteSet(A)
    PROVE  IsFiniteSet(A \cup {g}) /\ Cardinality(A) \in Nat
           /\ Cardinality(A \cup {g}) <= Cardinality(A) + 1
<1>1. Cardinality(A) \in Nat
  BY FS_CardinalityType
<1>2. IsFiniteSet(A \cup {g}) /\ (Cardinality(A \cup {g}) = Cardinality(A)
                                \/ Cardinality(A \cup {g}) = Cardinality(A) + 1)
  BY FS_AddElement
<1> QED
  BY <1>1, <1>2

\* Whichever way a step touches references, the readers stay counted.
LEMMA ReaderStepCounts ==
    ASSUME RowsOK, ReadersCounted, ReaderStep
    PROVE  ReadersCounted'
<1> SUFFICES ASSUME NEW s \in Snaps, Holders(s)' # {}
             PROVE  Has(snaps', s) /\ snaps'[s].refs >= Cardinality(Holders(s)')
  BY DEF ReadersCounted, Has
<1>0. IsFiniteSet(Holders(s))
  BY HoldersFinite
<1>1. ASSUME s \in DOMAIN snaps => s \in DOMAIN snaps' /\ snaps'[s].refs = snaps[s].refs,
             Holders(s)' \subseteq Holders(s)
      PROVE  Has(snaps', s) /\ snaps'[s].refs >= Cardinality(Holders(s)')
  <2>1. Cardinality(Holders(s)') \in Nat /\ Cardinality(Holders(s)) \in Nat
        /\ Cardinality(Holders(s)') <= Cardinality(Holders(s))
    BY <1>0, <1>1, FewerReaders
  <2>2. s \in DOMAIN snaps /\ snaps[s].refs >= Cardinality(Holders(s))
    BY <1>1 DEF ReadersCounted, Has
  <2>3. snaps[s].refs \in Nat
    BY <2>2 DEF RowsOK, SnapRecords
  <2> QED
    BY <1>1, <2>1, <2>2, <2>3 DEF Has
<1>2. CASE Quiet
  BY <1>1, <1>2 DEF Quiet
<1>3. ASSUME NEW g \in Gateways, NEW t \in Snaps \cup {NoBase}, Takes(g, t)
      PROVE  Has(snaps', s) /\ snaps'[s].refs >= Cardinality(Holders(s)')
  <2>1. CASE s # t
    <3>1. s \in DOMAIN snaps => s \in DOMAIN snaps' /\ snaps'[s].refs = snaps[s].refs
      BY <1>3, <2>1 DEF Takes
    <3> QED
      BY <1>1, <1>3, <2>1, <3>1 DEF Takes
  <2>2. CASE s = t
    <3>1. snaps[s] \in SnapRecords /\ snaps[s].refs \in Nat
      BY <1>3, <2>2 DEF Takes, RowsOK, SnapRecords
    <3>2. s \in DOMAIN snaps' /\ snaps'[s].refs = snaps[s].refs + 1
      BY <1>3, <2>2, <3>1 DEF Takes, SnapRecords
    <3>3. IsFiniteSet(Holders(s) \cup {g}) /\ Cardinality(Holders(s) \cup {g}) <= Cardinality(Holders(s)) + 1
          /\ Cardinality(Holders(s)) \in Nat
      BY <1>0, OneMoreReader, ZenonT(30)
    <3>4. Cardinality(Holders(s)') \in Nat /\ Cardinality(Holders(s) \cup {g}) \in Nat
          /\ Cardinality(Holders(s)') <= Cardinality(Holders(s) \cup {g})
      BY <1>3, <2>2, <3>3, FewerReaders DEF Takes
    <3>5. snaps[s].refs >= Cardinality(Holders(s))
      <4>1. CASE Holders(s) = {}
        BY <3>1, <4>1, FS_EmptySet
      <4>2. CASE Holders(s) # {}
        BY <4>2 DEF ReadersCounted
      <4> QED
        BY <4>1, <4>2
    <3> QED
      BY <3>1, <3>2, <3>3, <3>4, <3>5 DEF Has
  <2> QED
    BY <2>1, <2>2
<1>4. ASSUME NEW g \in Gateways, NEW t \in Snaps \cup {NoBase}, Gives(g, t)
      PROVE  Has(snaps', s) /\ snaps'[s].refs >= Cardinality(Holders(s)')
  <2>1. CASE s # t
    <3>1. s \in DOMAIN snaps => s \in DOMAIN snaps' /\ snaps'[s].refs = snaps[s].refs
      BY <1>4, <2>1 DEF Gives, ReleaseSnapshot
    <3> QED
      BY <1>1, <1>4, <2>1, <3>1 DEF Gives
  <2>2. CASE s = t
    <3>1. s \in DOMAIN snaps /\ snaps[s].refs >= Cardinality(Holders(s))
      BY <1>4, <2>2 DEF Gives, ReadersCounted, Has
    <3>2. snaps[s] \in SnapRecords /\ snaps[s].refs \in Nat
      BY <3>1 DEF RowsOK, SnapRecords
    <3>3. IsFiniteSet(Holders(s) \ {g}) /\ Cardinality(Holders(s) \ {g}) = Cardinality(Holders(s)) - 1
          /\ Cardinality(Holders(s)) \in Nat
      BY <1>0, <1>4, <2>2, FS_RemoveElement, FS_CardinalityType DEF Gives
    <3>4. Cardinality(Holders(s)') \in Nat /\ Cardinality(Holders(s) \ {g}) \in Nat
          /\ Cardinality(Holders(s)') <= Cardinality(Holders(s) \ {g})
      BY <1>4, <2>2, <3>3, FewerReaders DEF Gives
    <3>5. snaps[s].refs > 0
      BY <3>1, <3>2, <3>3, <3>4
    <3>6. s \in DOMAIN snaps' /\ snaps'[s].refs = snaps[s].refs - 1
      BY <1>4, <2>2, <3>1, <3>2, <3>5 DEF Gives, ReleaseSnapshot, Has, SnapRecords
    <3> QED
      BY <3>1, <3>2, <3>3, <3>4, <3>6 DEF Has
  <2> QED
    BY <2>1, <2>2
<1>5. ASSUME NEW t \in Snaps \cup {NoBase}, Removes(t)
      PROVE  Has(snaps', s) /\ snaps'[s].refs >= Cardinality(Holders(s)')
  <2>1. Holders(s) # {} /\ Has(snaps, s) /\ snaps[s].refs >= Cardinality(Holders(s))
    BY <1>5 DEF Removes, ReadersCounted
  <2>2. Cardinality(Holders(s)) \in Nat /\ Cardinality(Holders(s)) # 0
    BY <1>0, <2>1, FS_EmptySet, FS_CardinalityType
  <2>3. s # t
    BY <1>5, <2>1, <2>2 DEF Removes, Deletable
  <2>4. s \in DOMAIN snaps => s \in DOMAIN snaps' /\ snaps'[s].refs = snaps[s].refs
    BY <1>5, <2>3 DEF Removes, Drop
  <2> QED
    BY <1>1, <1>5, <2>4 DEF Removes
<1> QED
  BY <1>2, <1>3, <1>4, <1>5 DEF ReaderStep

-----------------------------------------------------------------------------
(* The handlers *)

\* A handler that moves on without becoming a reader of another snapshot.
Moves(g, h) ==
    /\ gw' = [gw EXCEPT ![g] = h] /\ h \in Hands \cup {Rest}
    /\ \A s \in Snaps : Holding(h, s) => Holding(gw[g], s)

\* A handler that is somewhere has a whole hand.
LEMMA HandOf ==
    ASSUME HandsOK, NEW g \in Gateways, NEW op, "none" \notin op, gw[g].op \in op
    PROVE  gw[g] \in Hands /\ gw = [gw EXCEPT ![g] = gw[g]]
  BY DEF HandsOK, Rest

\* It moves, and the readers of a snapshot are among those it had.
LEMMA MovesKeep ==
    ASSUME HandsOK, NEW g \in Gateways, NEW h, Moves(g, h)
    PROVE  /\ HandsOK'
           /\ \A s \in Snaps : Holders(s)' \subseteq Holders(s)
           /\ \A s \in Snaps : ~Holding(h, s) => g \notin Holders(s)'
<1>1. HandsOK'
  BY DEF HandsOK, Moves
<1>2. \A s \in Snaps : Holders(s)' \subseteq Holders(s)
  BY DEF HandsOK, Moves, Holders
<1>3. \A s \in Snaps : ~Holding(h, s) => g \notin Holders(s)'
  BY DEF HandsOK, Moves, Holders
<1> QED
  BY <1>1, <1>2, <1>3

\* A handler that rests, or leaves for a step outside of a restore, moves.
LEMMA RestMoves ==
    ASSUME HandsOK, NEW g \in Gateways, Done(g)
    PROVE  Moves(g, Rest)
  BY DEF Done, Moves, Rest, Holding, Restores

Pcs == CapturePcs \cup HoldPcs \cup {"acquire", "discard", "unlink"}

Flags == BOOLEAN

\* The provers do better with a name for the Booleans.
LEMMA FlagHands ==
    Hands =
      [op : Captures \cup Restores \cup {"delete"},
       pc : CapturePcs \cup HoldPcs \cup {"acquire", "discard", "unlink"},
       src : Ids \cup {NoBase}, keep : Flags, sid : Snaps \cup {NoBase},
       base : Snaps \cup {NoBase}, depth : 0..MaxDiffChain, mem : Flags,
       left : 1..MaxChildren, id : Ids \cup {NoBase}, node : Nodes \cup {NoBase},
       next : Snaps \cup {NoBase}, chain : Seq(Snaps \cup {NoBase})]
  BY DEF Hands, Flags

\* A new pc of the same handler, with the same snapshot in its hand.
LEMMA StepMoves ==
    ASSUME HandsOK, NEW g \in Gateways, gw[g] \in Hands, NEW pc \in Pcs, Step(g, pc),
           pc \in HoldPcs => gw[g].pc \in HoldPcs
    PROVE  Moves(g, [gw[g] EXCEPT !.pc = pc])
<1> DEFINE h == [gw[g] EXCEPT !.pc = pc]
<1>1. h \in Hands
  BY FlagHands DEF Pcs
<1>2. h.op = gw[g].op /\ h.pc = pc /\ h.sid = gw[g].sid
  BY FlagHands
<1>3. gw' = [gw EXCEPT ![g] = h]
  BY DEF Step, HandsOK
<1> HIDE DEF h
<1>4. Moves(g, h)
  BY <1>1, <1>2, <1>3 DEF Moves, Holding
<1> QED
  BY <1>4 DEF h

\* A fresh hand.
LEMMA HandType ==
    ASSUME NEW op \in Captures \cup Restores \cup {"delete"}, NEW pc \in Pcs,
           NEW src \in Ids \cup {NoBase}, NEW s \in Snaps \cup {NoBase}
    PROVE  /\ Hand(op, pc, src, s) \in Hands
           /\ Hand(op, pc, src, s).op = op /\ Hand(op, pc, src, s).pc = pc
           /\ Hand(op, pc, src, s).sid = s
<1>1. <<>> \in Seq(Snaps \cup {NoBase}) /\ 0 \in 0..MaxDiffChain /\ 1 \in 1..MaxChildren
  BY SnapshotAssumption
<1> QED
  BY <1>1 DEF Hand, Hands, Pcs

\* A hand edited in one place.
LEMMA HandPc ==
    ASSUME NEW c \in Hands, NEW pc \in Pcs
    PROVE  /\ [c EXCEPT !.pc = pc] \in Hands
           /\ [c EXCEPT !.pc = pc].op = c.op /\ [c EXCEPT !.pc = pc].pc = pc
           /\ [c EXCEPT !.pc = pc].sid = c.sid
  BY FlagHands DEF Pcs

\* The same with the snapshot that was just recorded.
LEMMA HandSid ==
    ASSUME NEW c \in Hands, NEW pc \in Pcs, NEW s \in Snaps
    PROVE  /\ [c EXCEPT !.pc = pc, !.sid = s] \in Hands
           /\ [c EXCEPT !.pc = pc, !.sid = s].pc = pc
  BY FlagHands, ZenonT(30) DEF Pcs

Asked(c, keep, mem, b, d) == [c EXCEPT !.keep = keep, !.mem = mem, !.base = b, !.depth = d]
Batch(c, mem, left) == [c EXCEPT !.mem = mem, !.left = left]

\* A hand with the client's wishes.
LEMMA HandAsked ==
    ASSUME NEW c \in Hands, NEW keep \in Flags, NEW mem \in Flags,
           NEW b \in Snaps \cup {NoBase}, NEW d \in 0..MaxDiffChain
    PROVE  Asked(c, keep, mem, b, d) \in Hands /\ Asked(c, keep, mem, b, d).op = c.op
  BY FlagHands, ZenonT(30) DEF Asked

\* A hand with what is left of a batch.
LEMMA HandBatch ==
    ASSUME NEW c \in Hands, NEW mem \in Flags, NEW left \in 1..MaxChildren
    PROVE  /\ Batch(c, mem, left) \in Hands
           /\ Batch(c, mem, left).sid = c.sid /\ Batch(c, mem, left).op = c.op
           /\ Batch(c, mem, left).pc = c.pc
  BY FlagHands, ZenonT(30) DEF Batch

\* A hand with a restore of a snapshot with or without memory.
LEMMA HandMem ==
    ASSUME NEW c \in Hands, NEW mem \in Flags
    PROVE  [c EXCEPT !.mem = mem] \in Hands /\ [c EXCEPT !.mem = mem].sid = c.sid
  BY FlagHands

-----------------------------------------------------------------------------
(* The steps *)

\* What every step has to leave behind.
Sound == RowsOK' /\ HandsOK' /\ ReaderStep

\* A handler moves and the table stays.
LEMMA MoveSound ==
    ASSUME RowsOK, HandsOK, NEW g \in Gateways, NEW h, Moves(g, h), snaps' = snaps
    PROVE  Sound
<1>1. RowsOK'
  BY DEF RowsOK
<1>2. HandsOK' /\ \A s \in Snaps : Holders(s)' \subseteq Holders(s)
  BY MovesKeep
<1>3. Quiet
  BY <1>2 DEF Quiet
<1> QED
  BY <1>1, <1>2, <1>3 DEF Sound, ReaderStep

\* A handler moves and writes its copy of a record.
LEMMA PutSound ==
    ASSUME RowsOK, HandsOK, NEW g \in Gateways, NEW h, Moves(g, h),
           NEW s, NEW c \in Hands, NEW state \in SnapStates, PutSnapshot(s, state, c)
    PROVE  Sound
<1>1. c.base \in Snaps \cup {NoBase} /\ c.depth \in 0..MaxDiffChain /\ c.mem \in BOOLEAN
  BY DEF Hands
<1>2. DOMAIN snaps' = DOMAIN snaps \cup {s}
  BY DEF PutSnapshot, Put
<1>3. \A t \in DOMAIN snaps \ {s} : snaps'[t] = snaps[t]
  BY DEF PutSnapshot, Put
<1>4. snaps'[s] = [state |-> state, base |-> c.base, depth |-> c.depth, mem |-> c.mem,
                   refs |-> IF Has(snaps, s) THEN snaps[s].refs ELSE 0]
  BY DEF PutSnapshot, Put
<1>5. (IF Has(snaps, s) THEN snaps[s].refs ELSE 0) \in Nat
  BY DEF RowsOK, SnapRecords, Has
<1>6. snaps'[s] \in SnapRecords
  BY <1>1, <1>4, <1>5 DEF SnapRecords
<1>7. RowsOK'
  BY <1>2, <1>3, <1>6 DEF RowsOK
<1>8. HandsOK' /\ \A t \in Snaps : Holders(t)' \subseteq Holders(t)
  BY MovesKeep
<1>9. \A t \in DOMAIN snaps : t \in DOMAIN snaps' /\ snaps'[t].refs = snaps[t].refs
  BY <1>2, <1>3, <1>4 DEF Has
<1> QED
  BY <1>7, <1>8, <1>9 DEF Sound, ReaderStep, Quiet

\* A handler moves and a record it may delete goes.
LEMMA DropSound ==
    ASSUME RowsOK, HandsOK, NEW g \in Gateways, NEW h, Moves(g, h),
           NEW s \in Snaps \cup {NoBase}, Deletable(s), snaps' = Drop(snaps, s)
    PROVE  Sound
<1>1. RowsOK'
  BY DEF RowsOK, Drop
<1>2. HandsOK' /\ \A t \in Snaps : Holders(t)' \subseteq Holders(t)
  BY MovesKeep
<1> QED
  BY <1>1, <1>2 DEF Sound, ReaderStep, Removes

\* A handler takes a reference, and holds the snapshot from then on.
LEMMA TakeSound ==
    ASSUME RowsOK, HandsOK, NEW g \in Gateways, NEW h \in Hands,
           gw' = [gw EXCEPT ![g] = h], ~\E t \in Snaps : Holding(gw[g], t), AcquireSnapshot(h.sid)
    PROVE  Sound
<1> DEFINE s == h.sid
<1>1. s \in Snaps \cup {NoBase} /\ s \in DOMAIN snaps
      /\ snaps' = [snaps EXCEPT ![s].refs = @ + 1]
  BY FlagHands DEF AcquireSnapshot, Ready, Has
<1>2. RowsOK'
  BY <1>1 DEF RowsOK, SnapRecords
<1>3. HandsOK'
  BY DEF HandsOK
<1>4. Holders(s)' \subseteq Holders(s) \cup {g}
  BY DEF Holders, HandsOK
<1>5. \A t \in Snaps \ {s} : Holders(t)' \subseteq Holders(t)
  BY DEF Holders, HandsOK, Holding
<1>6. Takes(g, s)
  BY <1>1, <1>4, <1>5 DEF Takes
<1> QED
  BY <1>1, <1>2, <1>3, <1>6 DEF Sound, ReaderStep

\* A handler takes a reference and moves on without it.
LEMMA LeakSound ==
    ASSUME RowsOK, HandsOK, NEW g \in Gateways, NEW h, Moves(g, h),
           NEW s \in Snaps \cup {NoBase}, AcquireSnapshot(s)
    PROVE  Sound
<1>1. s \in DOMAIN snaps /\ snaps' = [snaps EXCEPT ![s].refs = @ + 1]
  BY DEF AcquireSnapshot, Ready, Has
<1>2. RowsOK'
  BY <1>1 DEF RowsOK, SnapRecords
<1>3. HandsOK' /\ \A t \in Snaps : Holders(t)' \subseteq Holders(t)
  BY MovesKeep
<1>4. Holders(s)' \subseteq Holders(s) \cup {g}
  BY DEF Holders, Moves, HandsOK
<1>5. Takes(g, s)
  BY <1>1, <1>3, <1>4 DEF Takes
<1> QED
  BY <1>2, <1>3, <1>5 DEF Sound, ReaderStep

\* A reader gives its reference back and is none any more.
LEMMA GiveSound ==
    ASSUME RowsOK, HandsOK, NEW g \in Gateways, gw[g] \in Hands, NEW h, Moves(g, h),
           NEW s, Holding(gw[g], s), \A t \in Snaps \cup {NoBase} : ~Holding(h, t),
           ReleaseSnapshot(s)
    PROVE  Sound
<1>1. s \in Snaps \cup {NoBase} /\ g \in Holders(s)
  BY FlagHands DEF Holders, Holding
<1>2. RowsOK'
  <2>1. CASE ~(Has(snaps, s) /\ snaps[s].refs > 0)
    BY <2>1 DEF RowsOK, ReleaseSnapshot
  <2>2. CASE Has(snaps, s) /\ snaps[s].refs > 0
    <3>1. s \in DOMAIN snaps /\ snaps[s] \in SnapRecords /\ snaps[s].refs - 1 \in Nat
      BY <2>2 DEF Has, RowsOK, SnapRecords
    <3>2. snaps' = [snaps EXCEPT ![s].refs = @ - 1]
      BY <2>2 DEF ReleaseSnapshot
    <3> QED
      BY <3>1, <3>2 DEF RowsOK, SnapRecords
  <2> QED
    BY <2>1, <2>2
<1>3. HandsOK' /\ \A t \in Snaps : Holders(t)' \subseteq Holders(t)
  BY MovesKeep
<1>4. Holders(s)' \subseteq Holders(s) \ {g}
  BY <1>1 DEF Holders, Moves, HandsOK
<1>5. Gives(g, s)
  BY <1>1, <1>3, <1>4 DEF Gives
<1> QED
  BY <1>1, <1>2, <1>3, <1>5 DEF Sound, ReaderStep

\* The request handlers begin outside of any restore.
LEMMA BeginSound ==
    ASSUME RowsOK, HandsOK, NEW g \in Gateways, NEW src \in Ids,
           (\E b \in Snaps \cup {NoBase} : SnapshotLoad(g, src, b)) \/ ForkLoad(g, src)
    PROVE  Sound
<1>0. /\ {"snapshot", "fork"} \subseteq Captures \cup Restores \cup {"delete"}
      /\ "create" \in Pcs /\ "create" \notin HoldPcs /\ "snapshot" \notin Restores
  BY DEF Pcs, CapturePcs, HoldPcs, Captures, Restores
<1>1. ASSUME NEW b \in Snaps \cup {NoBase}, SnapshotLoad(g, src, b)
      PROVE  Sound
  <2> DEFINE c == Hand("snapshot", "create", src, NoBase)
  <2>1. c \in Hands /\ c.op = "snapshot"
    BY <1>0, HandType
  <2> HIDE DEF c
  <2>2. PICK mem, keep \in BOOLEAN :
          /\ b # NoBase => Usable(b, mem)
          /\ gw' = [gw EXCEPT ![g] =
                [c EXCEPT !.keep = keep, !.mem = mem,
                    !.base = IF Stacks(b) THEN b ELSE NoBase,
                    !.depth = IF Stacks(b) THEN snaps[b].depth + 1 ELSE 0]]
    BY <1>1, ZenonT(30) DEF SnapshotLoad, c
  <2> DEFINE d == IF Stacks(b) THEN snaps[b].depth + 1 ELSE 0
             e == IF Stacks(b) THEN b ELSE NoBase
  <2>3. d \in 0..MaxDiffChain /\ e \in Snaps \cup {NoBase}
    <3>1. CASE Stacks(b)
      <4>1. b \in DOMAIN snaps /\ snaps[b].depth \in Nat
        BY <2>2, <3>1 DEF Stacks, Usable, Ready, Has, RowsOK, SnapRecords
      <4> QED
        BY <3>1, <4>1, SnapshotAssumption DEF Stacks
    <3>2. CASE ~Stacks(b)
      BY <3>2, SnapshotAssumption
    <3> QED
      BY <3>1, <3>2
  <2> HIDE DEF d, e
  <2> DEFINE h == Asked(c, keep, mem, e, d)
  <2>4. h \in Hands /\ h.op = "snapshot"
    <3>1. keep \in Flags /\ mem \in Flags
      BY <2>2, Zenon DEF Flags
    <3>2. h \in Hands /\ h.op = c.op
      BY <2>1, <2>3, <3>1, HandAsked, Zenon
    <3> QED
      BY <2>1, <3>2, Zenon
  <2>5. gw' = [gw EXCEPT ![g] = h]
    BY <2>2 DEF d, e, Asked
  <2> HIDE DEF h
  <2>6. Moves(g, h)
    BY <1>0, <2>4, <2>5 DEF Moves, Holding
  <2> QED
    BY <1>1, <2>6, MoveSound, ZenonT(30) DEF SnapshotLoad
<1>2. CASE ForkLoad(g, src)
  <2> DEFINE c == Hand("fork", "create", src, NoBase)
  <2>1. c \in Hands /\ c.pc = "create"
    BY <1>0, HandType
  <2> HIDE DEF c
  <2>2. PICK n \in 1..MaxChildren : gw' = [gw EXCEPT ![g] = [c EXCEPT !.left = n]]
    BY <1>2, ZenonT(30) DEF ForkLoad, c
  <2>3. [c EXCEPT !.left = n] \in Hands /\ [c EXCEPT !.left = n].pc = "create"
    BY <2>1, FlagHands
  <2>4. Moves(g, [c EXCEPT !.left = n])
    BY <1>0, <2>2, <2>3 DEF Moves, Holding
  <2> QED
    BY <1>2, <2>4, MoveSound DEF ForkLoad
<1> QED
  BY <1>1, <1>2

\* Captures write their own record and hold nothing.
LEMMA CaptureSound ==
    ASSUME RowsOK, HandsOK, NEW g \in Gateways, CaptureStep(g)
    PROVE  Sound
<1>p. /\ "snapshot" \in Captures \cup Restores \cup {"delete"}
      /\ {"stream", "spoilt", "ready", "acquire", "stop", "stopped", "freed"} \subseteq Pcs \ HoldPcs
      /\ {"CREATING", "READY", "FAILED"} \subseteq SnapStates
  BY DEF Pcs, CapturePcs, HoldPcs, Captures, SnapStates
<1>0. gw[g] \in Hands
  BY HandOf, ZenonT(30) DEF CaptureStep, CaptureCreate, CaptureStream, CaptureSpoilt, CaptureReady,
     SourceDestroy, SourceStopped, SourceFreed, On, Captures
<1>1. CASE CaptureCreate(g)
  <2>1. ASSUME NEW s \in Snaps, PutSnapshot(s, "CREATING", gw[g]),
               gw' = [gw EXCEPT ![g].pc = "stream", ![g].sid = s]
        PROVE  Sound
    <3> DEFINE h == [gw[g] EXCEPT !.pc = "stream", !.sid = s]
    <3>1. h \in Hands /\ h.pc = "stream"
      BY <1>0, <1>p, <2>1, HandSid, ZenonT(30)
    <3>2. gw' = [gw EXCEPT ![g] = h]
      BY <2>1, ZenonT(30) DEF HandsOK
    <3> HIDE DEF h
    <3>3. Moves(g, h)
      BY <1>p, <3>1, <3>2 DEF Moves, Holding
    <3> QED
      BY <1>0, <1>p, <2>1, <3>3, PutSound
  <2>2. ASSUME Done(g), snaps' = snaps
        PROVE  Sound
    BY <2>2, RestMoves, MoveSound
  <2> QED
    BY <1>1, <2>1, <2>2 DEF CaptureCreate
<1>2. CASE CaptureStream(g)
  <2>1. snaps' = snaps /\ (Step(g, "ready") \/ Step(g, "spoilt"))
    BY <1>2 DEF CaptureStream
  <2> QED
    BY <1>0, <1>p, <2>1, StepMoves, MoveSound, ZenonT(30)
<1>3. CASE CaptureSpoilt(g)
  <2>1. Moves(g, Rest)
    BY <1>3, RestMoves DEF CaptureSpoilt
  <2>2. PutSnapshot(gw[g].sid, "FAILED", gw[g]) \/ snaps' = snaps
    BY <1>3 DEF CaptureSpoilt
  <2> QED
    BY <1>0, <1>p, <2>1, <2>2, PutSound, MoveSound
<1>4. CASE CaptureReady(g)
  <2>1. \E h : Moves(g, h)
    <3>1. CASE Done(g)
      BY <3>1, RestMoves
    <3>2. CASE ~Done(g)
      <4> DEFINE a == [gw[g] EXCEPT !.pc = "acquire"]
                 b == Hand("snapshot", "stop", gw[g].src, gw[g].sid)
      <4>1. \/ gw' = [gw EXCEPT ![g] = a]
            \/ gw' = [gw EXCEPT ![g] = b]
        BY <1>4, <3>2 DEF CaptureReady, Done
      <4>2. a \in Hands /\ a.pc = "acquire"
        BY <1>0, <1>p, HandPc
      <4>3. b \in Hands /\ b.pc = "stop"
        <5>1. gw[g].src \in Ids \cup {NoBase} /\ gw[g].sid \in Snaps \cup {NoBase}
          BY <1>0, FlagHands
        <5> QED
          BY <1>p, <5>1, HandType
      <4> HIDE DEF a, b
      <4> QED
        BY <1>p, <4>1, <4>2, <4>3 DEF Moves, Holding
    <3> QED
      BY <3>1, <3>2
  <2>2. PutSnapshot(gw[g].sid, "READY", gw[g]) \/ snaps' = snaps
    BY <1>4 DEF CaptureReady
  <2> QED
    BY <1>0, <1>p, <2>1, <2>2, PutSound, MoveSound
<1>5. CASE SourceDestroy(g)
  <2>1. snaps' = snaps /\ (Step(g, "stopped") \/ Done(g))
    BY <1>5 DEF SourceDestroy
  <2> QED
    BY <1>0, <1>p, <2>1, StepMoves, RestMoves, MoveSound, ZenonT(30)
<1>6. CASE SourceStopped(g)
  <2>1. snaps' = snaps /\ Step(g, "freed")
    BY <1>6 DEF SourceStopped
  <2> QED
    BY <1>0, <1>p, <2>1, StepMoves, MoveSound, ZenonT(30)
<1>7. CASE SourceFreed(g)
  BY <1>7, RestMoves, MoveSound DEF SourceFreed
<1> QED
  BY <1>1, <1>2, <1>3, <1>4, <1>5, <1>6, <1>7 DEF CaptureStep

\* A reader that keeps its snapshot in hand moves.
LEMMA ReaderMoves ==
    ASSUME NEW g \in Gateways, gw[g].op \in Restores, gw[g].pc \in HoldPcs,
           NEW h \in Hands, h.sid = gw[g].sid, gw' = [gw EXCEPT ![g] = h]
    PROVE  Moves(g, h)
  BY DEF Moves, Holding

\* So does a restore that turns to the next child, or to the end.
LEMMA NextMoves ==
    ASSUME HandsOK, NEW g \in Gateways, gw[g] \in Hands, gw[g].op \in Restores,
           gw[g].pc \in HoldPcs, NextChild(g)
    PROVE  \E h : Moves(g, h)
<1> DEFINE c == gw[g]
           pc == IF c.left > 1 THEN "place" ELSE "deref"
           k == Hand(c.op, pc, c.src, c.sid)
           left == IF c.left > 1 THEN c.left - 1 ELSE 1
           h == Batch(k, c.mem, left)
<1>1. pc \in Pcs
  BY DEF Pcs, HoldPcs
<1>2. /\ c.src \in Ids \cup {NoBase} /\ c.sid \in Snaps \cup {NoBase}
      /\ c.op \in Captures \cup Restores \cup {"delete"}
  BY FlagHands
<1>3. left \in 1..MaxChildren
  BY SnapshotAssumption, FlagHands
<1> HIDE DEF pc
<1>4. k \in Hands /\ k.sid = c.sid
  BY <1>1, <1>2, HandType
<1> HIDE DEF k, left
<1>5. h \in Hands /\ h.sid = k.sid
  <2>1. c.mem \in Flags
    BY FlagHands
  <2> QED
    BY <1>3, <1>4, <2>1, HandBatch
<1>6. gw' = [gw EXCEPT ![g] = h]
  BY DEF NextChild, Batch, k, pc, left
<1> HIDE DEF h
<1> QED
  BY <1>4, <1>5, <1>6, ReaderMoves, ZenonT(30)

\* A restore leaves the table alone and keeps its snapshot in hand.
LEMMA LaunchSound ==
    ASSUME RowsOK, HandsOK, NEW g \in Gateways, LaunchStep(g)
    PROVE  Sound
<1> DEFINE c == gw[g]
<1>0. c \in Hands /\ c.op \in Restores /\ c.pc \in HoldPcs
  <2>1. c.op \in Restores /\ c.pc \in HoldPcs
    BY ZenonT(30) DEF LaunchStep, LaunchPlace, LaunchPut, LaunchUnplace, LaunchConnect, WalkChain,
       LaunchSend, LaunchFinish, LaunchRunning, LaunchFailed, LaunchRelease, On, HoldPcs
  <2> QED
    BY <2>1, HandOf, ZenonT(30) DEF Restores
<1>1. snaps' = snaps
  BY ZenonT(30) DEF LaunchStep, LaunchPlace, LaunchPut, LaunchUnplace, LaunchConnect, WalkChain,
     LaunchSend, LaunchFinish, LaunchRunning, LaunchFailed, LaunchRelease
<1>2. HoldPcs \subseteq Pcs
  BY DEF Pcs
<1>3. ASSUME NEW pc \in HoldPcs, Step(g, pc)
      PROVE  \E h : Moves(g, h)
  BY <1>0, <1>2, <1>3, StepMoves, ZenonT(30)
<1>4. {"connect", "unplace", "release", "failed", "running", "put", "walk", "send"}
        \subseteq HoldPcs
  BY DEF HoldPcs
<1>5. CASE LaunchPut(g) \/ LaunchUnplace(g) \/ LaunchFinish(g) \/ LaunchFailed(g)
  <2>1. PICK pc \in HoldPcs : Step(g, pc)
    BY <1>4, <1>5 DEF LaunchPut, LaunchUnplace, LaunchFinish, LaunchFailed
  <2> QED
    BY <1>1, <1>3, <2>1, MoveSound
<1>6. CASE LaunchRunning(g) \/ LaunchRelease(g)
  BY <1>0, <1>1, <1>6, NextMoves, MoveSound DEF LaunchRunning, LaunchRelease
<1>7. CASE LaunchPlace(g)
  <2>1. CASE NextChild(g)
    BY <1>0, <1>1, <2>1, NextMoves, MoveSound
  <2>2. ASSUME NEW id \in Ids, NEW n \in Nodes,
               gw' = [gw EXCEPT ![g].pc = "put", ![g].id = id, ![g].node = n]
        PROVE  Sound
    <3> DEFINE h == [c EXCEPT !.pc = "put", !.id = id, !.node = n]
    <3>1. h \in Hands /\ h.sid = c.sid
      BY <1>0, <1>4, FlagHands, ZenonT(30)
    <3>2. gw' = [gw EXCEPT ![g] = h]
      BY <2>2, ZenonT(30) DEF HandsOK
    <3> HIDE DEF h
    <3> QED
      BY <1>0, <1>1, <3>1, <3>2, ReaderMoves, MoveSound, ZenonT(30)
  <2> QED
    BY <1>7, <2>1, <2>2, ZenonT(30) DEF LaunchPlace
<1>8. ASSUME NEW pc \in HoldPcs, NEW next \in Snaps \cup {NoBase},
             NEW chain \in Seq(Snaps \cup {NoBase}),
             gw' = [gw EXCEPT ![g].pc = pc, ![g].next = next, ![g].chain = chain]
      PROVE  Sound
  <2> DEFINE h == [c EXCEPT !.pc = pc, !.next = next, !.chain = chain]
  <2>1. h \in Hands /\ h.sid = c.sid
    BY <1>0, <1>8, FlagHands, ZenonT(30)
  <2>2. gw' = [gw EXCEPT ![g] = h]
    BY <1>8, ZenonT(30) DEF HandsOK
  <2> HIDE DEF h
  <2> QED
    BY <1>0, <1>1, <2>1, <2>2, ReaderMoves, MoveSound, ZenonT(30)
<1>9. c.sid \in Snaps \cup {NoBase} /\ c.next \in Snaps \cup {NoBase}
      /\ c.chain \in Seq(Snaps \cup {NoBase}) /\ c.pc \in HoldPcs
  BY <1>0, FlagHands
<1>10. CASE LaunchConnect(g)
  <2>1. CASE Step(g, "failed")
    BY <1>1, <1>3, <1>4, <2>1, MoveSound
  <2>2. CASE ~Step(g, "failed")
    <3> DEFINE pc == IF c.mem THEN "walk" ELSE "send"
    <3>1. pc \in HoldPcs
      BY <1>4
    <3>2. gw' = [gw EXCEPT ![g].pc = pc, ![g].next = c.sid, ![g].chain = <<>>]
      BY <1>10, <2>2 DEF LaunchConnect
    <3>3. <<>> \in Seq(Snaps \cup {NoBase})
      OBVIOUS
    <3> HIDE DEF pc
    <3> QED
      BY <1>8, <1>9, <3>1, <3>2, <3>3, ZenonT(30)
  <2> QED
    BY <2>1, <2>2
<1>11. CASE WalkChain(g)
  <2> DEFINE s == c.next
             pc == IF snaps[s].base = NoBase THEN "send" ELSE "walk"
             chain == <<s>> \o c.chain
  <2>1. CASE Step(g, "failed")
    BY <1>1, <1>3, <1>4, <2>1, MoveSound
  <2>2. CASE ~Step(g, "failed")
    <3>1. s \in DOMAIN snaps
      BY <1>11, <2>2 DEF WalkChain, Step, Has
    <3>2. snaps[s].base \in Snaps \cup {NoBase}
      BY <3>1 DEF RowsOK, SnapRecords
    <3>3. chain \in Seq(Snaps \cup {NoBase})
      BY <1>9
    <3>4. gw' = [gw EXCEPT ![g].pc = pc, ![g].chain = chain, ![g].next = snaps[s].base]
      <4>1. gw' = [gw EXCEPT ![g].pc = pc, ![g].chain = <<s>> \o @, ![g].next = snaps[s].base]
        BY <1>11, <2>2 DEF WalkChain, Step
      <4> QED
        BY <1>0, <4>1, FlagHands DEF HandsOK
    <3>5. gw' = [gw EXCEPT ![g].pc = pc, ![g].next = snaps[s].base, ![g].chain = chain]
      BY <1>0, <3>4, FlagHands DEF HandsOK
    <3>6. pc \in HoldPcs
      BY <1>4
    <3> QED
      BY <1>8, <3>2, <3>3, <3>5, <3>6, ZenonT(30)
  <2> QED
    BY <2>1, <2>2
<1>12. CASE LaunchSend(g)
  <2>1. CASE Step(g, "failed")
    BY <1>1, <1>3, <1>4, <2>1, MoveSound
  <2>2. CASE ~Step(g, "failed")
    <3> DEFINE h == [c EXCEPT !.chain = Tail(c.chain)]
    <3>1. Tail(c.chain) \in Seq(Snaps \cup {NoBase})
      BY <1>9, <1>12 DEF LaunchSend
    <3>2. h \in Hands /\ h.sid = c.sid
      BY <1>0, <3>1, FlagHands, ZenonT(30)
    <3>3. gw' = [gw EXCEPT ![g] = h]
      BY <1>12, <2>2 DEF LaunchSend, Step, HandsOK
    <3> HIDE DEF h
    <3> QED
      BY <1>0, <1>1, <3>2, <3>3, ReaderMoves, MoveSound, ZenonT(30)
  <2> QED
    BY <2>1, <2>2
<1> QED
  BY <1>5, <1>6, <1>7, <1>10, <1>11, <1>12 DEF LaunchStep

\* The two handlers that take a reference.
LEMMA AcquireSound ==
    ASSUME RowsOK, HandsOK, NEW g \in Gateways,
           (\E s \in Snaps : RestoreAcquire(g, s)) \/ ForkAcquire(g)
    PROVE  Sound
<1>1. ASSUME NEW s \in Snaps, RestoreAcquire(g, s)
      PROVE  Sound
  <2> DEFINE k == Hand("restore", "place", NoBase, s)
             h == [k EXCEPT !.mem = snaps[s].mem]
  <2>1. /\ "restore" \in Captures \cup Restores \cup {"delete"} /\ "place" \in Pcs
        /\ NoBase \in Ids \cup {NoBase} /\ s \in Snaps \cup {NoBase}
    BY DEF Restores, Pcs, HoldPcs
  <2>2. k \in Hands /\ k.sid = s
    BY <2>1, HandType
  <2>3. snaps[s].mem \in Flags
    BY <1>1 DEF RestoreAcquire, AcquireSnapshot, Ready, Has, RowsOK, SnapRecords, Flags
  <2>4. AcquireSnapshot(s) /\ gw[g] = Rest /\ (gw' = [gw EXCEPT ![g] = h] \/ gw' = gw)
    BY <1>1 DEF RestoreAcquire, Free
  <2> HIDE DEF k
  <2>5. h \in Hands /\ h.sid = s
    BY <2>2, <2>3, HandMem
  <2>6. ~\E t \in Snaps : Holding(gw[g], t)
    BY <2>4 DEF Holding, Rest, Restores
  <2> HIDE DEF h
  <2>7. CASE gw' = [gw EXCEPT ![g] = h]
    BY <2>4, <2>5, <2>6, <2>7, TakeSound, ZenonT(30)
  <2>8. CASE gw' = gw
    <3>1. Moves(g, Rest)
      BY <2>4, <2>8, RestMoves DEF HandsOK, Done
    <3> QED
      BY <2>4, <3>1, LeakSound
  <2> QED
    BY <2>4, <2>7, <2>8
<1>2. CASE ForkAcquire(g)
  <2>1. gw[g] \in Hands /\ gw[g].pc = "acquire"
    BY <1>2, HandOf, ZenonT(30) DEF ForkAcquire, On
  <2>2. "place" \in Pcs /\ "discard" \in Pcs \ HoldPcs /\ "acquire" \notin HoldPcs
    BY DEF Pcs, HoldPcs
  <2>3. CASE AcquireSnapshot(gw[g].sid) /\ Step(g, "place")
    <3> DEFINE h == [gw[g] EXCEPT !.pc = "place"]
    <3>1. h \in Hands /\ h.sid = gw[g].sid
      BY <2>1, <2>2, HandPc
    <3>2. gw' = [gw EXCEPT ![g] = h]
      BY <2>3 DEF Step, HandsOK
    <3> HIDE DEF h
    <3>3. ~\E t \in Snaps : Holding(gw[g], t)
      BY <2>1, <2>2 DEF Holding
    <3> QED
      BY <2>3, <3>1, <3>2, <3>3, TakeSound, ZenonT(30)
  <2>4. CASE snaps' = snaps /\ Step(g, "discard")
    BY <2>1, <2>2, <2>4, StepMoves, MoveSound, ZenonT(30)
  <2>5. CASE AcquireSnapshot(gw[g].sid) /\ Step(g, "discard")
    <3>1. PICK s \in Snaps \cup {NoBase} : s = gw[g].sid
      BY <2>1, FlagHands
    <3> QED
      BY <2>1, <2>2, <2>5, <3>1, StepMoves, LeakSound, ZenonT(30)
  <2> QED
    BY <1>2, <2>3, <2>4, <2>5 DEF ForkAcquire
<1> QED
  BY <1>1, <1>2

\* The deferred release gives the reference back, or loses it.
LEMMA DereferenceSound ==
    ASSUME RowsOK, HandsOK, NEW g \in Gateways, Dereference(g)
    PROVE  Sound
<1>1. gw[g] \in Hands /\ gw[g].op \in Restores /\ gw[g].pc = "deref"
  BY HandOf, ZenonT(30) DEF Dereference, On, Restores
<1>2. "discard" \in Pcs \ HoldPcs /\ "deref" \in HoldPcs
  BY DEF Pcs, HoldPcs
<1>3. PICK h : Moves(g, h) /\ \A t \in Snaps \cup {NoBase} : ~Holding(h, t)
  <2>1. CASE Step(g, "discard")
    <3>1. [gw[g] EXCEPT !.pc = "discard"].pc = "discard"
      BY <1>1, <1>2, HandPc
    <3> QED
      BY <1>1, <1>2, <2>1, <3>1, StepMoves, ZenonT(30) DEF Holding
  <2>2. CASE Done(g)
    BY <2>2, RestMoves DEF Holding, Rest, Restores
  <2> QED
    BY <2>1, <2>2 DEF Dereference
<1>4. PICK s : s = gw[g].sid
  OBVIOUS
<1>5. Holding(gw[g], s)
  BY <1>1, <1>2, <1>4 DEF Holding
<1>6. ReleaseSnapshot(s) \/ snaps' = snaps
  BY <1>4 DEF Dereference
<1> QED
  BY <1>1, <1>3, <1>5, <1>6, GiveSound, MoveSound

\* Records go only where DeleteSnapshot lets them.
LEMMA DeleteSound ==
    ASSUME RowsOK, HandsOK, NEW g \in Gateways,
           \/ \E s \in Snaps : DeleteSnapshot(g, s)
           \/ DiscardFork(g) \/ UnlinkBlob(g) \/ Crash(g)
    PROVE  Sound
<1>0. "unlink" \in Pcs \ HoldPcs /\ "delete" \in Captures \cup Restores \cup {"delete"}
  BY DEF Pcs, HoldPcs
<1>1. ASSUME NEW s \in Snaps, DeleteSnapshot(g, s)
      PROVE  Sound
  <2> DEFINE h == Hand("delete", "unlink", NoBase, s)
  <2>1. h \in Hands /\ h.pc = "unlink"
    BY <1>0, HandType
  <2>2. gw' = [gw EXCEPT ![g] = h] /\ Deletable(s) /\ snaps' = Drop(snaps, s)
    BY <1>1 DEF DeleteSnapshot
  <2> HIDE DEF h
  <2>3. Moves(g, h)
    BY <1>0, <2>1, <2>2 DEF Moves, Holding
  <2> QED
    BY <2>2, <2>3, DropSound
<1>2. CASE DiscardFork(g)
  <2>1. gw[g] \in Hands
    BY <1>2, HandOf, ZenonT(30) DEF DiscardFork, On
  <2>2. CASE snaps' = snaps /\ Done(g)
    BY <2>2, RestMoves, MoveSound
  <2>3. CASE ~(snaps' = snaps /\ Done(g))
    <3>1. PICK s : s = gw[g].sid
      OBVIOUS
    <3>2. s \in Snaps \cup {NoBase}
      BY <2>1, <3>1, FlagHands
    <3>3. Deletable(s) /\ snaps' = Drop(snaps, s) /\ Step(g, "unlink")
      BY <1>2, <2>3, <3>1 DEF DiscardFork
    <3> QED
      BY <1>0, <2>1, <3>2, <3>3, StepMoves, DropSound, ZenonT(30)
  <2> QED
    BY <2>2, <2>3
<1>3. CASE UnlinkBlob(g) \/ Crash(g)
  BY <1>3, RestMoves, MoveSound DEF UnlinkBlob, Crash
<1> QED
  BY <1>1, <1>2, <1>3

\* Every step of the specification.
LEMMA NextSound == RowsOK /\ HandsOK /\ Next => Sound
  BY BeginSound, CaptureSound, LaunchSound, AcquireSound, DereferenceSound, DeleteSound
     DEF Next, GatewayStep

\* Snapshots exist, and count at least their readers, in every state of any
\* number of handlers, whatever calls fail and whichever handlers die: nothing
\* that is being restored is deleted.
THEOREM SnapshotsKeepReaders == Spec => []ReadersCounted
<1>1. Init => SnapInv
  <2> SUFFICES ASSUME Init PROVE SnapInv
    OBVIOUS
  <2>1. RowsOK
    <3> SUFFICES ASSUME NEW s \in KeptSnaps
                 PROVE  snaps[s] \in SnapRecords
      BY DEF Init, RowsOK
    <3>1. Place(s) \in DOMAIN Kept
      BY DEF KeptSnaps, Place
    <3> DEFINE i == Place(s)
               b == IF i = 1 THEN NoBase ELSE Kept[i - 1]
    <3>2. i \in 1..(MaxDiffChain + 1) /\ i \in 1..Len(Kept)
      BY <3>1, SnapshotAssumption
    <3>3. b \in Snaps \cup {NoBase} /\ i - 1 \in 0..MaxDiffChain
      BY <3>2, SnapshotAssumption
    <3>4. snaps[s] = [state |-> "READY", mem |-> TRUE, refs |-> 0, depth |-> i - 1, base |-> b]
      BY DEF Init
    <3> HIDE DEF i, b
    <3> QED
      BY <3>3, <3>4 DEF SnapRecords, SnapStates
  <2>2. HandsOK
    BY DEF Init, HandsOK
  <2>3. \A s \in Snaps : Holders(s) = {}
    BY DEF Init, Holders, Holding, Rest, Restores
  <2> QED
    BY <2>1, <2>2, <2>3 DEF SnapInv, ReadersCounted
<1>2. SnapInv /\ [Next]_vars => SnapInv'
  <2>1. ASSUME SnapInv, Next PROVE SnapInv'
    <3>1. Sound
      BY <2>1, NextSound DEF SnapInv
    <3> QED
      BY <2>1, <3>1, ReaderStepCounts DEF SnapInv, Sound
  <2>2. ASSUME SnapInv, UNCHANGED vars PROVE SnapInv'
    <3>1. snaps' = snaps /\ gw' = gw
      BY <2>2 DEF vars, apiVars
    <3> QED
      BY <2>2, <3>1 DEF SnapInv, RowsOK, HandsOK, ReadersCounted, Holders
  <2> QED
    BY <2>1, <2>2
<1>3. SnapInv => ReadersCounted
  BY DEF SnapInv
<1> QED
  BY <1>1, <1>2, <1>3, PTL DEF Spec
=============================================================================
