------------------------- MODULE NetworkPoolProofs -------------------------
(***************************************************************************)
(* With callers that do not overlap two calls for one sandbox, a sandbox   *)
(* keeps the namespace built for it, through restarts, host failures and   *)
(* operators, for any pool and any number of callers.                      *)
(*                                                                         *)
(* What makes NetworkKept inductive is that the slot a call is working on  *)
(* is still the one the allocator has under its sandbox (HoldsSlot), that  *)
(* the host agrees with the allocator about it (OwnersAgree), and that     *)
(* nobody is up whose call is still building or already taking down        *)
(* (UpWhenOk), which rests on callers' discipline (CallsDistinct).         *)
(* LeavesNoSlot adds what a finished call leaves behind, for NoSlotLeak.   *)
(***************************************************************************)
EXTENDS NetworkPool, TLAPS

Working(p) ==
    \/ call[p].op = "provision" /\ call[p].pc \in {"setup", "build", "undo"}
    \/ call[p].op = "deprovision" /\ call[p].pc \in {"teardown", "release", "releaseErr"}

\* The slot a call works on belongs to its sandbox in the allocator.
HoldsSlot(p) ==
    Working(p) => call[p].slot \in DOMAIN taken /\ taken[call[p].slot] = call[p].id

\* A sandbox is up only once its Provision has succeeded, and no longer once
\* its Deprovision has begun.
UpWhenOk(p) ==
    \/ call[p].op = "none"
    \/ call[p].op = "provision" /\ call[p].pc = "ok" /\ call[p].id \in up
    \/ ~(call[p].op = "provision" /\ call[p].pc = "ok") /\ call[p].id \notin up

\* A call that has failed, or has taken its sandbox down, left it no slot.
LeavesNoSlot(p) ==
    \/ call[p].op = "provision" /\ call[p].pc = "err"
    \/ call[p].op = "deprovision" /\ call[p].pc \in {"ok", "err"}
    => SlotsOf(call[p].id) = {}

CallOK(p) == HoldsSlot(p) /\ UpWhenOk(p) /\ LeavesNoSlot(p)

\* No two calls are about the same sandbox.
CallsDistinct ==
    \A p, q \in Procs : call[p].op # "none" /\ call[q].op # "none" /\ p # q =>
        call[p].id # call[q].id

NetInv ==
    /\ NetTypeOK /\ NetworkKept /\ OwnersAgree /\ NoSlotLeak
    /\ CallsDistinct /\ \A p \in Procs : CallOK(p)

-----------------------------------------------------------------------------
(* Calls *)

ProvisionPcs == {"reserve", "setup", "build", "undo", "rollback", "ok", "err"}
DeprovisionPcs == {"lookup", "teardown", "release", "releaseErr", "ok", "err"}

\* A call in progress is a record with a sandbox, a slot and a step.
LEMMA CallShape ==
    ASSUME NetTypeOK, NEW p \in Procs, call[p].op # "none"
    PROVE  /\ call[p].id \in Ids /\ call[p].slot \in Slots \cup {NoSlot}
           /\ \/ call[p] \in [op : {"provision"}, id : Ids, slot : Slots \cup {NoSlot},
                              pc : ProvisionPcs]
              \/ call[p] \in [op : {"deprovision"}, id : Ids, slot : Slots \cup {NoSlot},
                              pc : DeprovisionPcs]
BY DEF NetTypeOK, Calls, Idle, ProvisionPcs, DeprovisionPcs

\* Moving a call to another of its steps moves nothing else.
LEMMA GotoMoves ==
    ASSUME NetTypeOK, NEW p \in Procs, call[p].op # "none", NEW pc, Goto(p, pc),
           pc \in IF call[p].op = "provision" THEN ProvisionPcs ELSE DeprovisionPcs
    PROVE  /\ call' \in [Procs -> Calls]
           /\ call'[p].op = call[p].op /\ call'[p].id = call[p].id
           /\ call'[p].slot = call[p].slot /\ call'[p].pc = pc
           /\ \A q \in Procs \ {p} : call'[q] = call[q]
<1>1. call \in [Procs -> Calls] /\ call'[p] = [call[p] EXCEPT !.pc = pc]
  BY DEF NetTypeOK, Goto
<1>2. \A q \in Procs \ {p} : call'[q] = call[q]
  BY <1>1 DEF Goto
<1>3. /\ call'[p].op = call[p].op /\ call'[p].id = call[p].id
      /\ call'[p].slot = call[p].slot /\ call'[p].pc = pc
  BY <1>1, CallShape
<1>4. call'[p] \in Calls
  BY <1>1, CallShape DEF Calls, ProvisionPcs, DeprovisionPcs
<1>5. call' \in [Procs -> Calls]
  BY <1>1, <1>4 DEF Goto
<1> QED
  BY <1>2, <1>3, <1>5

\* The same for a step that also settles the slot.
LEMMA GotoWithMoves ==
    ASSUME NetTypeOK, NEW p \in Procs, call[p].op # "none", NEW pc, NEW s \in Slots,
           GotoWith(p, pc, s),
           pc \in IF call[p].op = "provision" THEN ProvisionPcs ELSE DeprovisionPcs
    PROVE  /\ call' \in [Procs -> Calls]
           /\ call'[p].op = call[p].op /\ call'[p].id = call[p].id
           /\ call'[p].slot = s /\ call'[p].pc = pc
           /\ \A q \in Procs \ {p} : call'[q] = call[q]
<1>1. call \in [Procs -> Calls] /\ call'[p] = [call[p] EXCEPT !.pc = pc, !.slot = s]
  BY DEF NetTypeOK, GotoWith
<1>2. \A q \in Procs \ {p} : call'[q] = call[q]
  BY <1>1 DEF GotoWith
<1>3. /\ call'[p].op = call[p].op /\ call'[p].id = call[p].id
      /\ call'[p].slot = s /\ call'[p].pc = pc
  BY <1>1, CallShape
<1>4. call'[p] \in Calls
  BY <1>1, CallShape DEF Calls, ProvisionPcs, DeprovisionPcs
<1>5. call' \in [Procs -> Calls]
  BY <1>1, <1>4 DEF GotoWith
<1> QED
  BY <1>2, <1>3, <1>5

Mine(p, id) == id = call[p].id

\* What a call does to its own sandbox's slots and place in up disturbs no
\* other call: it is enough to look at the call itself.
LEMMA OthersKeep ==
    ASSUME NetInv, NEW p \in Procs, call[p].op # "none",
           call'[p].op = call[p].op, call'[p].id = call[p].id,
           \A q \in Procs \ {p} : call'[q] = call[q],
           NetTypeOK', NetworkKept', OwnersAgree', CallOK(p)',
           \A s \in DOMAIN taken : taken[s] \in Ids /\ ~Mine(p, taken[s]) =>
               s \in DOMAIN taken' /\ taken'[s] = taken[s],
           \A s \in DOMAIN taken' : taken'[s] \in Ids /\ ~Mine(p, taken'[s]) =>
               s \in DOMAIN taken /\ taken'[s] = taken[s],
           \A id \in Ids : ~Mine(p, id) => (id \in up' <=> id \in up)
    PROVE  NetInv'
<1> USE DEF Mine
<1>1. \A q \in Procs : call'[q].op = call[q].op /\ call'[q].id = call[q].id
  OBVIOUS
<1>2. CallsDistinct'
  BY <1>1 DEF NetInv, CallsDistinct
<1>3. NoSlotLeak'
  <2> SUFFICES ASSUME NEW s \in DOMAIN taken', taken'[s] \in Ids
               PROVE  taken'[s] \in up' \/ Busy(taken[s])'
    BY DEF NoSlotLeak
  <2>1. CASE Mine(p, taken'[s])
    BY <1>1, <2>1 DEF Busy
  <2>2. CASE ~Mine(p, taken'[s])
    <3>1. s \in DOMAIN taken /\ taken'[s] = taken[s]
      BY <2>2
    <3>2. taken[s] \in up \/ Busy(taken[s])
      BY <3>1 DEF NetInv, NoSlotLeak
    <3> QED
      BY <1>1, <2>2, <3>1, <3>2 DEF Busy
  <2> QED
    BY <2>1, <2>2
<1>4. ASSUME NEW q \in Procs \ {p} PROVE CallOK(q)'
  <2>1. CASE call[q].op = "none"
    BY <2>1 DEF CallOK, HoldsSlot, Working, UpWhenOk, LeavesNoSlot
  <2>2. CASE call[q].op # "none"
    <3>1. call[q].id \in Ids /\ call[q].id # call[p].id
      BY <2>2, CallShape DEF NetInv, CallsDistinct
    <3>2. CallOK(q) /\ call'[q] = call[q]
      BY DEF NetInv
    <3>3. HoldsSlot(q)'
      BY <3>1, <3>2 DEF CallOK, HoldsSlot, Working
    <3>4. UpWhenOk(q)'
      BY <3>1, <3>2 DEF CallOK, UpWhenOk
    <3>5. SlotsOf(call[q].id) = {} => SlotsOf(call[q].id)' = {}
      BY <3>1, <3>2 DEF SlotsOf
    <3>6. LeavesNoSlot(q)'
      BY <3>2, <3>5 DEF CallOK, LeavesNoSlot
    <3> QED
      BY <3>3, <3>4, <3>6 DEF CallOK
  <2> QED
    BY <2>1, <2>2
<1> QED
  BY <1>2, <1>3, <1>4 DEF NetInv

-----------------------------------------------------------------------------
(* Provision *)

\* Reserve hands out the sandbox's own slot, or one that is free both in the
\* cache and on the host; what it adopts on the way belongs to nobody.
LEMMA ReserveKeeps ==
    ASSUME NetInv, NEW p \in Procs, Reserve(p) PROVE NetInv'
<1> DEFINE id == call[p].id
<1>0. /\ call[p].op = "provision" /\ call[p].pc = "reserve" /\ id \in Ids
      /\ NetTypeOK /\ ns' = ns /\ up' = up
      /\ id \notin up
  BY CallShape DEF Reserve, At, NetInv, CallOK, UpWhenOk
<1>1. ASSUME NEW s \in SlotsOf(id), GotoWith(p, "setup", s), taken' = taken
      PROVE  NetInv'
  <2>1. s \in Slots /\ s \in DOMAIN taken /\ taken[s] = id
    BY <1>0 DEF SlotsOf, NetTypeOK
  <2>2. /\ call' \in [Procs -> Calls]
        /\ call'[p].op = "provision" /\ call'[p].id = id
        /\ call'[p].slot = s /\ call'[p].pc = "setup"
        /\ \A q \in Procs \ {p} : call'[q] = call[q]
    BY <1>0, <1>1, <2>1, GotoWithMoves DEF ProvisionPcs
  <2>3. NetTypeOK' /\ NetworkKept' /\ OwnersAgree'
    BY <1>0, <1>1, <2>2 DEF NetInv, NetTypeOK, NetworkKept, OwnersAgree
  <2>4. CallOK(p)'
    BY <1>0, <1>1, <2>1, <2>2 DEF CallOK, HoldsSlot, UpWhenOk, LeavesNoSlot
  <2> QED
    BY <1>0, <1>1, <2>2, <2>3, <2>4, OthersKeep
<1>2. ASSUME NEW s \in Free, taken' = With(Adopted(s), s, id), GotoWith(p, "setup", s)
      PROVE  NetInv'
  <2>1. s \in Slots /\ s \notin DOMAIN taken /\ s \notin DOMAIN ns
    BY DEF Free
  <2>2. /\ call' \in [Procs -> Calls]
        /\ call'[p].op = "provision" /\ call'[p].id = id
        /\ call'[p].slot = s /\ call'[p].pc = "setup"
        /\ \A q \in Procs \ {p} : call'[q] = call[q]
    BY <1>0, <1>2, <2>1, GotoWithMoves DEF ProvisionPcs
  <2>3. /\ s \in DOMAIN taken' /\ taken'[s] = id
        /\ DOMAIN taken' \subseteq DOMAIN taken \cup DOMAIN ns \cup {s}
        /\ \A r \in DOMAIN taken : r \in DOMAIN taken' /\ taken'[r] = taken[r]
        /\ \A r \in DOMAIN taken' : r \notin DOMAIN taken /\ r # s => taken'[r] = Unknown
    BY <1>2, <2>1 DEF With, Adopted
  <2>4. NetTypeOK'
    BY <1>0, <2>1, <2>2, <2>3 DEF NetTypeOK, Owners
  <2>5. NetworkKept' /\ OwnersAgree'
    BY <1>0, <2>1, <2>3, UnknownAssumption DEF NetInv, NetworkKept, OwnersAgree
  <2>6. CallOK(p)'
    BY <1>0, <2>2, <2>3 DEF CallOK, HoldsSlot, UpWhenOk, LeavesNoSlot
  <2> QED
    BY <1>0, <2>2, <2>3, <2>4, <2>5, <2>6, OthersKeep, UnknownAssumption DEF Mine
<1>3. ASSUME SlotsOf(id) = {}, taken' \in {taken, AdoptedAll}, Goto(p, "err")
      PROVE  NetInv'
  <2>1. /\ call' \in [Procs -> Calls]
        /\ call'[p].op = "provision" /\ call'[p].id = id /\ call'[p].pc = "err"
        /\ \A q \in Procs \ {p} : call'[q] = call[q]
    BY <1>0, <1>3, GotoMoves DEF ProvisionPcs
  <2>2. /\ DOMAIN taken' \subseteq DOMAIN taken \cup DOMAIN ns
        /\ \A r \in DOMAIN taken : r \in DOMAIN taken' /\ taken'[r] = taken[r]
        /\ \A r \in DOMAIN taken' : r \notin DOMAIN taken => taken'[r] = Unknown
    BY <1>3 DEF AdoptedAll
  <2>3. NetTypeOK'
    BY <1>0, <2>1, <2>2 DEF NetTypeOK, Owners
  <2>4. NetworkKept' /\ OwnersAgree'
    BY <1>0, <2>2, UnknownAssumption DEF NetInv, NetworkKept, OwnersAgree
  <2>5. SlotsOf(id)' = {}
    BY <1>0, <1>3, <2>1, <2>2, UnknownAssumption DEF SlotsOf
  <2>6. CallOK(p)'
    BY <1>0, <2>1, <2>5 DEF CallOK, HoldsSlot, Working, UpWhenOk, LeavesNoSlot
  <2> QED
    BY <1>0, <2>1, <2>2, <2>3, <2>4, <2>6, OthersKeep, UnknownAssumption DEF Mine
<1> QED
  BY <1>1, <1>2, <1>3 DEF Reserve

\* A namespace is only ever added under a slot its sandbox holds.
LEMMA NetnsAddKeeps ==
    ASSUME NetInv, NEW p \in Procs, NetnsAdd(p) PROVE NetInv'
<1> DEFINE id == call[p].id
           s == call[p].slot
<1>0. /\ call[p].op = "provision" /\ call[p].pc = "setup" /\ id \in Ids
      /\ NetTypeOK /\ taken' = taken /\ up' = up
      /\ id \notin up /\ s \in DOMAIN taken /\ taken[s] = id /\ s \in Slots
  BY CallShape DEF NetnsAdd, At, NetInv, NetTypeOK, CallOK, UpWhenOk, HoldsSlot, Working
<1>1. PICK pc \in {"build", "undo"} : Goto(p, pc) /\ ns' \in {ns, With(ns, s, id)}
           /\ (s \in DOMAIN ns => ns' = ns)
  BY DEF NetnsAdd
<1>2. /\ call' \in [Procs -> Calls]
      /\ call'[p].op = "provision" /\ call'[p].id = id
      /\ call'[p].slot = s /\ call'[p].pc = pc
      /\ \A q \in Procs \ {p} : call'[q] = call[q]
  BY <1>0, <1>1, GotoMoves DEF ProvisionPcs
<1>3. /\ DOMAIN ns' \subseteq DOMAIN ns \cup {s}
      /\ \A r \in DOMAIN ns : r \in DOMAIN ns' /\ ns'[r] = ns[r]
      /\ \A r \in DOMAIN ns' : r \notin DOMAIN ns => ns'[r] = id
  BY <1>1 DEF With
<1>4. NetTypeOK'
  BY <1>0, <1>2, <1>3 DEF NetTypeOK
<1>5. NetworkKept' /\ OwnersAgree'
  BY <1>0, <1>3 DEF NetInv, NetworkKept, OwnersAgree
<1>6. CallOK(p)'
  BY <1>0, <1>2 DEF CallOK, HoldsSlot, UpWhenOk, LeavesNoSlot
<1> QED
  BY <1>0, <1>2, <1>4, <1>5, <1>6, OthersKeep

\* A sandbox comes up on the namespace that was built for it.
LEMMA BuildKeeps ==
    ASSUME NetInv, NEW p \in Procs, Build(p) PROVE NetInv'
<1> DEFINE id == call[p].id
           s == call[p].slot
<1>0. /\ call[p].op = "provision" /\ call[p].pc = "build" /\ id \in Ids
      /\ NetTypeOK /\ taken' = taken /\ ns' = ns
      /\ id \notin up /\ s \in DOMAIN taken /\ taken[s] = id
  BY CallShape DEF Build, At, NetInv, CallOK, UpWhenOk, HoldsSlot, Working
<1>1. \/ Goto(p, "ok") /\ up' = up \cup {id} /\ s \in DOMAIN ns
      \/ Goto(p, "undo") /\ up' = up
  BY DEF Build
<1>2. PICK pc \in {"ok", "undo"} : Goto(p, pc) /\ (pc = "ok" <=> up' # up)
           /\ up' \in {up, up \cup {id}} /\ (up' # up => s \in DOMAIN ns)
  BY <1>0, <1>1
<1>3. /\ call' \in [Procs -> Calls]
      /\ call'[p].op = "provision" /\ call'[p].id = id
      /\ call'[p].slot = s /\ call'[p].pc = pc
      /\ \A q \in Procs \ {p} : call'[q] = call[q]
  BY <1>0, <1>2, GotoMoves DEF ProvisionPcs
<1>4. NetTypeOK' /\ OwnersAgree'
  BY <1>0, <1>2, <1>3 DEF NetInv, NetTypeOK, OwnersAgree
<1>5. NetworkKept'
  BY <1>0, <1>2 DEF NetInv, NetworkKept, OwnersAgree
<1>6. CallOK(p)'
  BY <1>0, <1>2, <1>3 DEF CallOK, HoldsSlot, UpWhenOk, LeavesNoSlot
<1> QED
  BY <1>0, <1>2, <1>3, <1>4, <1>5, <1>6, OthersKeep DEF Mine

\* Removing the namespace of a slot that a sandbox holds and is not up on
\* takes nobody's network away.
LEMMA RemovalSpares ==
    ASSUME NetInv, NEW s, NEW id, s \in DOMAIN taken, taken[s] = id, id \in Ids, id \notin up,
           ns' \in {ns, Without(ns, s)}, taken' = taken, up' = up
    PROVE  /\ NetworkKept' /\ OwnersAgree'
           /\ DOMAIN ns' \subseteq Slots /\ \A r \in DOMAIN ns' : ns'[r] \in Ids
<1>1. /\ DOMAIN ns' \subseteq DOMAIN ns
      /\ \A r \in DOMAIN ns' : ns'[r] = ns[r]
      /\ \A r \in DOMAIN ns : r # s => r \in DOMAIN ns'
  BY DEF Without
<1>2. s \in DOMAIN ns => ns[s] = id
  BY DEF NetInv, OwnersAgree
<1>3. NetworkKept'
  BY <1>1, <1>2 DEF NetInv, NetworkKept
<1> QED
  BY <1>1, <1>3 DEF NetInv, NetTypeOK, OwnersAgree

\* Setup's cleanup undoes its own namespace and nobody else's.
LEMMA UndoKeeps ==
    ASSUME NetInv, NEW p \in Procs, Undo(p) PROVE NetInv'
<1> DEFINE id == call[p].id
           s == call[p].slot
<1>0. /\ call[p].op = "provision" /\ call[p].pc = "undo" /\ id \in Ids
      /\ NetTypeOK /\ taken' = taken /\ up' = up
      /\ id \notin up /\ s \in DOMAIN taken /\ taken[s] = id
  BY CallShape DEF Undo, At, NetInv, CallOK, UpWhenOk, HoldsSlot, Working
<1>1. Goto(p, "rollback") /\ ns' \in {ns, Without(ns, s)}
  BY DEF Undo
<1>2. /\ call' \in [Procs -> Calls]
      /\ call'[p].op = "provision" /\ call'[p].id = id /\ call'[p].pc = "rollback"
      /\ \A q \in Procs \ {p} : call'[q] = call[q]
  BY <1>0, <1>1, GotoMoves DEF ProvisionPcs
<1>3. NetTypeOK' /\ NetworkKept' /\ OwnersAgree'
  BY <1>0, <1>1, <1>2, RemovalSpares DEF NetTypeOK
<1>4. CallOK(p)'
  BY <1>0, <1>2 DEF CallOK, HoldsSlot, Working, UpWhenOk, LeavesNoSlot
<1> QED
  BY <1>0, <1>2, <1>3, <1>4, OthersKeep

\* Giving a sandbox's slot back leaves it none, and the others theirs.
LEMMA ReleasedDrops ==
    ASSUME NetTypeOK, NEW id \in Ids, taken' = Released(id)
    PROVE  /\ DOMAIN taken' \subseteq DOMAIN taken
           /\ \A s \in DOMAIN taken' : taken'[s] = taken[s] /\ taken'[s] # id
           /\ \A s \in DOMAIN taken : taken[s] # id => s \in DOMAIN taken'
BY DEF Released, SlotsOf

\* A failed Provision gives the index back.
LEMMA RollbackGivesBack ==
    ASSUME NetInv, NEW p \in Procs, Rollback(p) PROVE NetInv'
<1> DEFINE id == call[p].id
<1>0. /\ call[p].op = "provision" /\ call[p].pc = "rollback" /\ id \in Ids
      /\ NetTypeOK /\ ns' = ns /\ up' = up /\ id \notin up
  BY CallShape DEF Rollback, At, NetInv, CallOK, UpWhenOk
<1>1. Goto(p, "err") /\ taken' = Released(id)
  BY DEF Rollback
<1>2. /\ call' \in [Procs -> Calls]
      /\ call'[p].op = "provision" /\ call'[p].id = id /\ call'[p].pc = "err"
      /\ \A q \in Procs \ {p} : call'[q] = call[q]
  BY <1>0, <1>1, GotoMoves DEF ProvisionPcs
<1>3. /\ DOMAIN taken' \subseteq DOMAIN taken
      /\ \A s \in DOMAIN taken' : taken'[s] = taken[s] /\ taken'[s] # id
      /\ \A s \in DOMAIN taken : taken[s] # id => s \in DOMAIN taken'
  BY <1>0, <1>1, ReleasedDrops
<1>4. NetTypeOK' /\ NetworkKept' /\ OwnersAgree'
  BY <1>0, <1>2, <1>3 DEF NetInv, NetTypeOK, NetworkKept, OwnersAgree
<1>5. CallOK(p)'
  BY <1>0, <1>2, <1>3 DEF CallOK, HoldsSlot, Working, UpWhenOk, LeavesNoSlot, SlotsOf
<1> QED
  BY <1>0, <1>2, <1>3, <1>4, <1>5, OthersKeep DEF Mine

-----------------------------------------------------------------------------
(* Deprovision *)

\* A teardown works on the slot the allocator has for the sandbox, if any.
LEMMA LookupKeeps ==
    ASSUME NetInv, NEW p \in Procs, Lookup(p) PROVE NetInv'
<1> DEFINE id == call[p].id
<1>0. /\ call[p].op = "deprovision" /\ call[p].pc = "lookup" /\ id \in Ids
      /\ NetTypeOK /\ taken' = taken /\ ns' = ns /\ up' = up /\ id \notin up
  BY CallShape DEF Lookup, At, NetInv, CallOK, UpWhenOk
<1>1. ASSUME NEW s \in SlotsOf(id), GotoWith(p, "teardown", s)
      PROVE  NetInv'
  <2>1. s \in Slots /\ s \in DOMAIN taken /\ taken[s] = id
    BY <1>0 DEF SlotsOf, NetTypeOK
  <2>2. /\ call' \in [Procs -> Calls]
        /\ call'[p].op = "deprovision" /\ call'[p].id = id
        /\ call'[p].slot = s /\ call'[p].pc = "teardown"
        /\ \A q \in Procs \ {p} : call'[q] = call[q]
    BY <1>0, <1>1, <2>1, GotoWithMoves DEF DeprovisionPcs
  <2>3. NetTypeOK' /\ NetworkKept' /\ OwnersAgree'
    BY <1>0, <2>2 DEF NetInv, NetTypeOK, NetworkKept, OwnersAgree
  <2>4. CallOK(p)'
    BY <1>0, <2>1, <2>2 DEF CallOK, HoldsSlot, UpWhenOk, LeavesNoSlot
  <2> QED
    BY <1>0, <2>2, <2>3, <2>4, OthersKeep
<1>2. ASSUME SlotsOf(id) = {}, Goto(p, "ok")
      PROVE  NetInv'
  <2>1. /\ call' \in [Procs -> Calls]
        /\ call'[p].op = "deprovision" /\ call'[p].id = id /\ call'[p].pc = "ok"
        /\ \A q \in Procs \ {p} : call'[q] = call[q]
    BY <1>0, <1>2, GotoMoves DEF DeprovisionPcs
  <2>2. NetTypeOK' /\ NetworkKept' /\ OwnersAgree'
    BY <1>0, <2>1 DEF NetInv, NetTypeOK, NetworkKept, OwnersAgree
  <2>3. CallOK(p)'
    BY <1>0, <1>2, <2>1 DEF CallOK, HoldsSlot, Working, UpWhenOk, LeavesNoSlot, SlotsOf
  <2> QED
    BY <1>0, <2>1, <2>2, <2>3, OthersKeep
<1> QED
  BY <1>1, <1>2 DEF Lookup

\* The namespace a teardown removes is its own sandbox's.
LEMMA TeardownKeeps ==
    ASSUME NetInv, NEW p \in Procs, Teardown(p) PROVE NetInv'
<1> DEFINE id == call[p].id
           s == call[p].slot
<1>0. /\ call[p].op = "deprovision" /\ call[p].pc = "teardown" /\ id \in Ids
      /\ NetTypeOK /\ taken' = taken /\ up' = up
      /\ id \notin up /\ s \in DOMAIN taken /\ taken[s] = id
  BY CallShape DEF Teardown, At, NetInv, CallOK, UpWhenOk, HoldsSlot, Working
<1>1. PICK pc \in {"release", "releaseErr"} : Goto(p, pc) /\ ns' \in {ns, Without(ns, s)}
  BY DEF Teardown
<1>2. /\ call' \in [Procs -> Calls]
      /\ call'[p].op = "deprovision" /\ call'[p].id = id
      /\ call'[p].slot = s /\ call'[p].pc = pc
      /\ \A q \in Procs \ {p} : call'[q] = call[q]
  BY <1>0, <1>1, GotoMoves DEF DeprovisionPcs
<1>3. NetTypeOK' /\ NetworkKept' /\ OwnersAgree'
  BY <1>0, <1>1, <1>2, RemovalSpares DEF NetTypeOK
<1>4. CallOK(p)'
  BY <1>0, <1>2 DEF CallOK, HoldsSlot, UpWhenOk, LeavesNoSlot
<1> QED
  BY <1>0, <1>2, <1>3, <1>4, OthersKeep

\* The slot goes back whether or not the teardown worked.
LEMMA ReleaseSlotKeeps ==
    ASSUME NetInv, NEW p \in Procs, ReleaseSlot(p) PROVE NetInv'
<1> DEFINE id == call[p].id
<1>0. /\ call[p].op = "deprovision" /\ id \in Ids
      /\ NetTypeOK /\ ns' = ns /\ up' = up /\ id \notin up
  BY CallShape DEF ReleaseSlot, At, NetInv, CallOK, UpWhenOk
<1>1. PICK pc \in {"ok", "err"} : Goto(p, pc) /\ taken' = Released(id)
  BY DEF ReleaseSlot
<1>2. /\ call' \in [Procs -> Calls]
      /\ call'[p].op = "deprovision" /\ call'[p].id = id /\ call'[p].pc = pc
      /\ \A q \in Procs \ {p} : call'[q] = call[q]
  BY <1>0, <1>1, GotoMoves DEF DeprovisionPcs
<1>3. /\ DOMAIN taken' \subseteq DOMAIN taken
      /\ \A s \in DOMAIN taken' : taken'[s] = taken[s] /\ taken'[s] # id
      /\ \A s \in DOMAIN taken : taken[s] # id => s \in DOMAIN taken'
  BY <1>0, <1>1, ReleasedDrops
<1>4. NetTypeOK' /\ NetworkKept' /\ OwnersAgree'
  BY <1>0, <1>2, <1>3 DEF NetInv, NetTypeOK, NetworkKept, OwnersAgree
<1>5. CallOK(p)'
  BY <1>0, <1>2, <1>3 DEF CallOK, HoldsSlot, Working, UpWhenOk, LeavesNoSlot, SlotsOf
<1> QED
  BY <1>0, <1>2, <1>3, <1>4, <1>5, OthersKeep DEF Mine

-----------------------------------------------------------------------------
(* Callers and the environment *)

\* A call starts on a sandbox that no other call is about.
LEMMA StartKeeps ==
    ASSUME NetInv, NEW p \in Procs, NEW id \in Ids, ~Busy(id),
           \/ StartProvision(p, id) /\ id \notin up
           \/ StartDeprovision(p, id)
    PROVE  NetInv'
<1>0. call[p] = Idle /\ call[p].op = "none" /\ NetTypeOK
  BY DEF StartProvision, StartDeprovision, Idle, NetInv
<1>1. /\ taken' = taken /\ ns' = ns
      /\ id \notin up' /\ \A i \in Ids : i # id => (i \in up' <=> i \in up)
      /\ up' \subseteq up
  BY DEF StartProvision, StartDeprovision
<1>2. /\ call' \in [Procs -> Calls]
      /\ call'[p].op # "none" /\ call'[p].id = id
      /\ call'[p].pc \in {"reserve", "lookup"}
      /\ \A q \in Procs \ {p} : call'[q] = call[q]
  BY <1>0 DEF NetTypeOK, StartProvision, StartDeprovision, Calls
<1>3. \A q \in Procs \ {p} : call[q].op # "none" => call[q].id # id /\ call[q].id \in Ids
  BY <1>0, CallShape DEF Busy
<1>4. NetTypeOK' /\ NetworkKept' /\ OwnersAgree'
  BY <1>0, <1>1, <1>2 DEF NetInv, NetTypeOK, NetworkKept, OwnersAgree
<1>5. CallsDistinct'
  BY <1>2, <1>3 DEF NetInv, CallsDistinct
<1>6. NoSlotLeak'
  <2>1. \A i \in Ids : Busy(i) => Busy(i)'
    BY <1>0, <1>2 DEF Busy
  <2>2. Busy(id)'
    BY <1>2 DEF Busy
  <2> QED
    BY <1>1, <2>1, <2>2 DEF NetInv, NoSlotLeak
<1>7. CallOK(p)'
  BY <1>1, <1>2 DEF CallOK, HoldsSlot, Working, UpWhenOk, LeavesNoSlot
<1>8. ASSUME NEW q \in Procs \ {p} PROVE CallOK(q)'
  <2>1. CallOK(q) /\ call'[q] = call[q]
    BY <1>2 DEF NetInv
  <2> QED
    BY <1>1, <1>3, <2>1 DEF CallOK, HoldsSlot, Working, UpWhenOk, LeavesNoSlot, SlotsOf
<1> QED
  BY <1>4, <1>5, <1>6, <1>7, <1>8 DEF NetInv

\* A finished call leaves its sandbox up, or without a slot.
LEMMA ReturnKeeps ==
    ASSUME NetInv, NEW p \in Procs, Return(p) PROVE NetInv'
<1>0. /\ NetTypeOK /\ taken' = taken /\ ns' = ns /\ up' = up
      /\ call[p].op # "none" /\ call[p].pc \in {"ok", "err"}
      /\ call' = [call EXCEPT ![p] = Idle]
  BY DEF Return, Finished, NetInv
<1>1. /\ call' \in [Procs -> Calls] /\ call'[p].op = "none"
      /\ \A q \in Procs \ {p} : call'[q] = call[q]
  BY <1>0 DEF NetTypeOK, Calls, Idle
<1>2. call[p].op \in {"provision", "deprovision"}
  BY <1>0, CallShape
<1>3. call[p].id \in up \/ SlotsOf(call[p].id) = {}
  BY <1>0, <1>2 DEF NetInv, CallOK, UpWhenOk, LeavesNoSlot
<1>4. NetTypeOK' /\ NetworkKept' /\ OwnersAgree'
  BY <1>0, <1>1 DEF NetInv, NetTypeOK, NetworkKept, OwnersAgree
<1>5. CallsDistinct'
  BY <1>1 DEF NetInv, CallsDistinct
<1>6. NoSlotLeak'
  <2> SUFFICES ASSUME NEW s \in DOMAIN taken, taken[s] \in Ids
               PROVE  taken[s] \in up \/ Busy(taken[s])'
    BY <1>0 DEF NoSlotLeak
  <2>1. CASE taken[s] = call[p].id
    BY <1>3, <2>1 DEF SlotsOf
  <2>2. CASE taken[s] # call[p].id
    BY <1>0, <1>1, <2>2 DEF NetInv, NoSlotLeak, Busy
  <2> QED
    BY <2>1, <2>2
<1>7. \A q \in Procs : CallOK(q)'
  BY <1>0, <1>1 DEF NetInv, CallOK, HoldsSlot, Working, UpWhenOk, LeavesNoSlot, SlotsOf
<1> QED
  BY <1>4, <1>5, <1>6, <1>7 DEF NetInv

\* A restart forgets every slot and every call; the host forgets nothing.
LEMMA RestartKeeps ==
    ASSUME NetInv, Restart PROVE NetInv'
<1>1. /\ ns' = ns /\ up' = up /\ DOMAIN taken' = {}
      /\ call' \in [Procs -> Calls] /\ \A q \in Procs : call'[q].op = "none"
  BY DEF Restart, Calls, Idle
<1>2. NetTypeOK' /\ NetworkKept' /\ OwnersAgree' /\ NoSlotLeak' /\ CallsDistinct'
  BY <1>1 DEF NetInv, NetTypeOK, NetworkKept, OwnersAgree, NoSlotLeak, CallsDistinct
<1>3. \A q \in Procs : CallOK(q)'
  BY <1>1 DEF CallOK, HoldsSlot, Working, UpWhenOk, LeavesNoSlot
<1> QED
  BY <1>2, <1>3 DEF NetInv

\* An operator removes only what nobody uses.
LEMMA OperatorKeeps ==
    ASSUME NetInv, NEW s \in Slots, OperatorRemoves(s) PROVE NetInv'
<1>1. /\ taken' = taken /\ call' = call /\ up' = up /\ ns[s] \notin up
      /\ DOMAIN ns' = DOMAIN ns \ {s} /\ \A r \in DOMAIN ns' : ns'[r] = ns[r]
  BY DEF OperatorRemoves, Without
<1>2. NetTypeOK' /\ NetworkKept' /\ OwnersAgree'
  BY <1>1 DEF NetInv, NetTypeOK, NetworkKept, OwnersAgree
<1>3. NoSlotLeak' /\ CallsDistinct'
  BY <1>1 DEF NetInv, NoSlotLeak, CallsDistinct, Busy
<1>4. \A q \in Procs : CallOK(q)'
  BY <1>1 DEF NetInv, CallOK, HoldsSlot, Working, UpWhenOk, LeavesNoSlot, SlotsOf
<1> QED
  BY <1>2, <1>3, <1>4 DEF NetInv

-----------------------------------------------------------------------------

\* A node starts with an empty cache and a clean host.
LEMMA NetInitInv == NetInit => NetInv
<1> SUFFICES ASSUME NetInit PROVE NetInv
  OBVIOUS
<1>1. NetTypeOK
  BY DEF NetInit, NetTypeOK, Calls
<1>2. NetworkKept /\ OwnersAgree /\ NoSlotLeak
  BY DEF NetInit, NetworkKept, OwnersAgree, NoSlotLeak
<1>3. CallsDistinct /\ \A p \in Procs : CallOK(p)
  BY DEF NetInit, Idle, CallsDistinct, CallOK, HoldsSlot, Working, UpWhenOk, LeavesNoSlot
<1> QED
  BY <1>1, <1>2, <1>3 DEF NetInv

\* Every step of every call, and everything around them, keeps NetInv.
LEMMA SerialNextInv == NetInv /\ [SerialNext]_netVars => NetInv'
<1> SUFFICES ASSUME NetInv, [SerialNext]_netVars PROVE NetInv'
  OBVIOUS
<1>1. ASSUME NEW p \in Procs, CallStep(p) PROVE NetInv'
  BY <1>1, ReserveKeeps, NetnsAddKeeps, BuildKeeps, UndoKeeps, RollbackGivesBack,
     LookupKeeps, TeardownKeeps, ReleaseSlotKeeps DEF CallStep
<1>2. ASSUME NEW p \in Procs, Return(p) PROVE NetInv'
  BY <1>2, ReturnKeeps
<1>3. ASSUME NEW p \in Procs, NEW id \in Ids \ up, ~Busy(id), StartProvision(p, id)
      PROVE  NetInv'
  BY <1>3, StartKeeps
<1>4. ASSUME NEW p \in Procs, NEW id \in Ids, ~Busy(id), StartDeprovision(p, id)
      PROVE  NetInv'
  BY <1>4, StartKeeps
<1>5. CASE Environment
  BY <1>5, RestartKeeps, OperatorKeeps DEF Environment
<1>6. CASE UNCHANGED netVars
  BY <1>6 DEF netVars, NetInv, NetTypeOK, NetworkKept, OwnersAgree, NoSlotLeak, Busy,
     CallsDistinct, CallOK, HoldsSlot, Working, UpWhenOk, LeavesNoSlot, SlotsOf
<1> QED
  BY <1>1, <1>2, <1>3, <1>4, <1>5, <1>6 DEF SerialNext

\* The four variables keep their shapes, whatever the pool and the callers.
THEOREM PoolTypeCorrect == SerialSpec => []NetTypeOK
<1>1. NetInv => NetTypeOK
  BY DEF NetInv
<1> QED
  BY <1>1, NetInitInv, SerialNextInv, PTL DEF SerialSpec

\* A sandbox that was given a network keeps it until its own Deprovision.
THEOREM PoolKeepsNetworks == SerialSpec => []NetworkKept
<1>1. NetInv => NetworkKept
  BY DEF NetInv
<1> QED
  BY <1>1, NetInitInv, SerialNextInv, PTL DEF SerialSpec

\* The host and the allocator never name two owners of one slot.
THEOREM PoolOwnersAgree == SerialSpec => []OwnersAgree
<1>1. NetInv => OwnersAgree
  BY DEF NetInv
<1> QED
  BY <1>1, NetInitInv, SerialNextInv, PTL DEF SerialSpec

\* A slot held for a sandbox is one that something will give back.
THEOREM PoolLeaksNothing == SerialSpec => []NoSlotLeak
<1>1. NetInv => NoSlotLeak
  BY DEF NetInv
<1> QED
  BY <1>1, NetInitInv, SerialNextInv, PTL DEF SerialSpec
=============================================================================
