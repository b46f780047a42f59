------------------------- MODULE NodeManagerProofs -------------------------
(***************************************************************************)
(* The Manager's transitions exclude each other, for any number of         *)
(* goroutines, sandboxes and slots, with or without a network, and         *)
(* whatever the runtime and the host do. What makes TransitionClaimed      *)
(* inductive is that ids are minted once: a claim outlives the record of a *)
(* sandbox that was destroyed meanwhile, and would meet the next sandbox's *)
(* if an id came back.                                                     *)
(*                                                                         *)
(* Every step keeps the claims as they are, makes one, or gives one up;    *)
(* the three lemmas about those are all that is proved of the invariant,   *)
(* and the rest shows which of the three an action is.                     *)
(***************************************************************************)
EXTENDS NodeManager, TLAPS

Settled == {"RUNNING", "PAUSED"}

\* A goroutine is at rest or its record has the fields every operation has.
Shape(r) ==
    \/ r = Rest
    \/ /\ {"op", "id", "pc"} \subseteq DOMAIN r /\ r.id \in Ids
       /\ r.op \in {"create", "destroy", "pause", "resume", "request", "snapshot"}
       /\ r.op = "snapshot" => "prev" \in DOMAIN r /\ r.prev \in Settled

ClaimInv ==
    /\ DOMAIN th = Procs /\ \A t \in Procs : Shape(th[t])
    /\ DOMAIN rec \subseteq minted /\ minted \subseteq Ids
    /\ \A id \in DOMAIN rec : "state" \in DOMAIN rec[id]
    /\ \A t \in Procs, id \in Ids : Claims(t, id) => id \in minted
    /\ TransitionClaimed

\* The sandboxes other than id keep their states, and none is new.
OthersStay(id) ==
    /\ DOMAIN rec' \subseteq DOMAIN rec \cup {id}
    /\ \A k \in DOMAIN rec' : k # id => k \in DOMAIN rec /\ rec'[k].state = rec[k].state
\* The claims of every goroutine but t stay.
OthersClaim(t) ==
    \A u \in Procs \ {t} : ClaimOf(u)' = ClaimOf(u) /\ \A k \in Ids : Claims(u, k)' = Claims(u, k)
ThreadsOK ==
    /\ (DOMAIN th = Procs)' /\ (\A t \in Procs : Shape(th[t]))'
    /\ minted \subseteq minted' /\ (DOMAIN rec \subseteq minted)' /\ (minted \subseteq Ids)'
    /\ (\A id \in DOMAIN rec : "state" \in DOMAIN rec[id])'

Keeps ==
    /\ DOMAIN rec' \subseteq DOMAIN rec /\ \A k \in DOMAIN rec' : rec'[k].state = rec[k].state
    /\ \A u \in Procs : ClaimOf(u)' = ClaimOf(u) /\ \A k \in Ids : Claims(u, k)' = Claims(u, k)
Makes(t, id) ==
    /\ OthersStay(id) /\ OthersClaim(t) /\ id \in minted'
    /\ id \notin minted \/ (id \in DOMAIN rec /\ rec[id].state \in Settled)
    /\ ClaimOf(t) = {} /\ \A k \in Ids : Claims(t, k)' => k = id
    /\ Claims(t, id)' /\ rec'[id].state \in ClaimOf(t)'
GivesUp(t, id) ==
    /\ OthersStay(id) /\ DOMAIN rec' \subseteq DOMAIN rec /\ OthersClaim(t)
    /\ Claims(t, id) /\ ClaimOf(t)' = {}
    /\ id \in DOMAIN rec' => rec'[id].state \in Settled

ClaimStep == Keeps \/ \E t \in Procs, id \in Ids : Makes(t, id) \/ GivesUp(t, id)

\* A claim is a transitional state's.
LEMMA ClaimsAreTransitional ==
    \A t : ClaimOf(t) \cap Settled = {}
  BY DEF ClaimOf, Settled

LEMMA KeepsKeeps == ASSUME ClaimInv, ThreadsOK, Keeps PROVE ClaimInv'
<1>1. \A t \in Procs, id \in Ids : Claims(t, id)' => id \in minted'
  BY DEF ClaimInv, ThreadsOK, Keeps
<1>2. TransitionClaimed'
  <2>1. (\A t, u \in Procs, id \in Ids : Claims(t, id) /\ Claims(u, id) => t = u)'
    BY DEF ClaimInv, TransitionClaimed, Keeps
  <2>2. (\A t \in Procs, id \in DOMAIN rec : Claims(t, id) => rec[id].state \in ClaimOf(t))'
    BY DEF ClaimInv, TransitionClaimed, Keeps, ThreadsOK
  <2>3. (\A id \in DOMAIN rec : rec[id].state \notin {"RUNNING", "PAUSED"} => \E t \in Procs : Claims(t, id))'
    BY DEF ClaimInv, TransitionClaimed, Keeps, ThreadsOK
  <2> QED
    BY <2>1, <2>2, <2>3 DEF TransitionClaimed
<1> QED
  BY <1>1, <1>2 DEF ClaimInv, ThreadsOK

LEMMA MakesKeeps == ASSUME ClaimInv, ThreadsOK, NEW t \in Procs, NEW id \in Ids, Makes(t, id) PROVE ClaimInv'
<1>1. \A u \in Procs : ~Claims(u, id)
  BY ClaimsAreTransitional DEF ClaimInv, TransitionClaimed, Makes
<1>2. \A u \in Procs, k \in Ids : u # t => ClaimOf(u)' = ClaimOf(u) /\ Claims(u, k)' = Claims(u, k)
  BY DEF Makes, OthersClaim
<1>3. \A k \in Ids : Claims(t, k)' => k = id
  BY DEF Makes
<1>4. \A u \in Procs, k \in Ids : Claims(u, k)' => (u = t /\ k = id) \/ (u # t /\ k # id /\ Claims(u, k))
  BY <1>1, <1>2, <1>3
<1>5. \A u \in Procs, k \in Ids : Claims(u, k)' => k \in minted'
  BY <1>4 DEF ClaimInv, ThreadsOK, Makes
<1>6. TransitionClaimed'
  <2>1. (\A u, v \in Procs, k \in Ids : Claims(u, k) /\ Claims(v, k) => u = v)'
    BY <1>4 DEF ClaimInv, TransitionClaimed
  <2>2. (\A u \in Procs, k \in DOMAIN rec : Claims(u, k) => rec[k].state \in ClaimOf(u))'
    BY <1>2, <1>4 DEF ClaimInv, TransitionClaimed, Makes, OthersStay, ThreadsOK
  <2>3. (\A k \in DOMAIN rec : rec[k].state \notin {"RUNNING", "PAUSED"} => \E u \in Procs : Claims(u, k))'
    <3> SUFFICES ASSUME NEW k \in DOMAIN rec', rec'[k].state \notin {"RUNNING", "PAUSED"}
                 PROVE  \E u \in Procs : Claims(u, k)'
      OBVIOUS
    <3>1. CASE k = id
      BY <3>1 DEF Makes
    <3>2. CASE k # id
      <4>1. k \in DOMAIN rec /\ rec[k].state \notin {"RUNNING", "PAUSED"} /\ k \in Ids
        BY <3>2 DEF Makes, OthersStay, ThreadsOK
      <4>2. PICK u \in Procs : Claims(u, k)
        BY <4>1 DEF ClaimInv, TransitionClaimed
      <4>3. u # t
        BY <4>2 DEF Makes, Claims
      <4> QED
        BY <1>2, <4>1, <4>2, <4>3
    <3> QED
      BY <3>1, <3>2
  <2> QED
    BY <2>1, <2>2, <2>3 DEF TransitionClaimed
<1> QED
  BY <1>5, <1>6 DEF ClaimInv, ThreadsOK

LEMMA GivesUpKeeps == ASSUME ClaimInv, ThreadsOK, NEW t \in Procs, NEW id \in Ids, GivesUp(t, id) PROVE ClaimInv'
<1>1. \A u \in Procs, k \in Ids : u # t => ClaimOf(u)' = ClaimOf(u) /\ Claims(u, k)' = Claims(u, k)
  BY DEF GivesUp, OthersClaim
<1>2. \A k \in Ids : ~Claims(t, k)'
  BY DEF GivesUp, Claims
<1>3. \A u \in Procs, k \in Ids : Claims(u, k)' => u # t /\ Claims(u, k)
  BY <1>1, <1>2
<1>4. \A u \in Procs : u # t => ~Claims(u, id)
  BY DEF ClaimInv, TransitionClaimed, GivesUp
<1>5. \A u \in Procs, k \in Ids : Claims(u, k)' => k \in minted'
  BY <1>3 DEF ClaimInv, ThreadsOK
<1>6. TransitionClaimed'
  <2>1. (\A u, v \in Procs, k \in Ids : Claims(u, k) /\ Claims(v, k) => u = v)'
    BY <1>3 DEF ClaimInv, TransitionClaimed
  <2>2. (\A u \in Procs, k \in DOMAIN rec : Claims(u, k) => rec[k].state \in ClaimOf(u))'
    BY <1>1, <1>3, <1>4 DEF ClaimInv, TransitionClaimed, GivesUp, OthersStay, ThreadsOK
  <2>3. (\A k \in DOMAIN rec : rec[k].state \notin {"RUNNING", "PAUSED"} => \E u \in Procs : Claims(u, k))'
    <3> SUFFICES ASSUME NEW k \in DOMAIN rec', rec'[k].state \notin {"RUNNING", "PAUSED"}
                 PROVE  \E u \in Procs : Claims(u, k)'
      OBVIOUS
    <3>1. k # id /\ k \in DOMAIN rec /\ rec[k].state \notin {"RUNNING", "PAUSED"} /\ k \in Ids
      BY DEF GivesUp, OthersStay, ThreadsOK, Settled
    <3>2. PICK u \in Procs : Claims(u, k)
      BY <3>1 DEF ClaimInv, TransitionClaimed
    <3>3. u # t
      BY <3>1, <3>2 DEF GivesUp, Claims
    <3> QED
      BY <1>1, <3>1, <3>2, <3>3
  <2> QED
    BY <2>1, <2>2, <2>3 DEF TransitionClaimed
<1> QED
  BY <1>5, <1>6 DEF ClaimInv, ThreadsOK

LEMMA ClaimStepKeeps == ASSUME ClaimInv, ThreadsOK, ClaimStep PROVE ClaimInv'
  BY KeepsKeeps, MakesKeeps, GivesUpKeeps DEF ClaimStep

----------------------------------------------------------------------------
(* One goroutine moves *)

Moved(t) == DOMAIN th' = Procs /\ Shape(th'[t]) /\ \A u \in Procs \ {t} : th'[u] = th[u]

LEMMA MovedAlone == ASSUME ClaimInv, NEW t \in Procs, Moved(t) PROVE OthersClaim(t)
  BY DEF Moved, OthersClaim, Claims, ClaimOf

LEMMA MovedShapes ==
    ASSUME ClaimInv, NEW t \in Procs, Moved(t)
    PROVE  (DOMAIN th = Procs)' /\ (\A u \in Procs : Shape(th[u]))'
<1>1. \A u \in Procs : Shape(th'[u])
  BY DEF Moved, ClaimInv
<1> QED
  BY <1>1 DEF Moved, Shape

\* A step within an operation keeps what the operation is and what it is about.
LEMMA StepMoves ==
    ASSUME ClaimInv, NEW t \in Procs, NEW pc, th[t] # Rest, Step(t, pc)
    PROVE  Moved(t) /\ th'[t].op = th[t].op /\ th'[t].id = th[t].id /\ th'[t].pc = pc
<1>1. DOMAIN th = Procs /\ Shape(th[t]) /\ {"op", "id", "pc"} \subseteq DOMAIN th[t]
  BY DEF ClaimInv, Shape
<1>2. DOMAIN th' = Procs /\ th'[t] = [th[t] EXCEPT !.pc = pc] /\ \A u \in Procs \ {t} : th'[u] = th[u]
  BY <1>1 DEF Step
<1>3. /\ DOMAIN [th[t] EXCEPT !.pc = pc] = DOMAIN th[t] /\ [th[t] EXCEPT !.pc = pc].pc = pc
      /\ [th[t] EXCEPT !.pc = pc].op = th[t].op /\ [th[t] EXCEPT !.pc = pc].id = th[t].id
      /\ "prev" \in DOMAIN th[t] => [th[t] EXCEPT !.pc = pc].prev = th[t].prev
  BY <1>1
<1>4. Shape(th'[t])
  BY <1>1, <1>2, <1>3 DEF Shape
<1> QED
  BY <1>2, <1>3, <1>4 DEF Moved

LEMMA DoneMoves ==
    ASSUME ClaimInv, NEW t \in Procs, Done(t)
    PROVE  Moved(t) /\ th'[t] = Rest /\ ClaimOf(t)' = {}
<1>1. DOMAIN th' = Procs /\ th'[t] = Rest /\ \A u \in Procs \ {t} : th'[u] = th[u]
  BY DEF ClaimInv, Done
<1> QED
  BY <1>1 DEF Moved, Shape, ClaimOf, Rest

LEMMA StartMoves ==
    ASSUME ClaimInv, NEW t \in Procs, NEW r, Shape(r), th' = [th EXCEPT ![t] = r]
    PROVE  Moved(t) /\ th'[t] = r
  BY DEF ClaimInv, Moved

\* The records stay, or some go.
Quiet ==
    /\ UNCHANGED minted /\ DOMAIN rec' \subseteq DOMAIN rec
    /\ \A k \in DOMAIN rec' : rec'[k].state = rec[k].state /\ "state" \in DOMAIN rec'[k]
\* One record is written.
Writes(id) ==
    /\ UNCHANGED minted /\ DOMAIN rec' = DOMAIN rec
    /\ \A k \in DOMAIN rec' : "state" \in DOMAIN rec'[k]
    /\ \A k \in DOMAIN rec' : k # id => rec'[k].state = rec[k].state

LEMMA SameQuiet == ASSUME ClaimInv, UNCHANGED <<rec, minted>> PROVE Quiet
  BY DEF ClaimInv, Quiet
LEMMA WithoutQuiet == ASSUME ClaimInv, NEW id, rec' = Without(rec, id), UNCHANGED minted PROVE Quiet
<1>1. DOMAIN rec' = DOMAIN rec \ {id} /\ \A k \in DOMAIN rec' : rec'[k] = rec[k]
  BY DEF Without
<1> QED
  BY <1>1 DEF ClaimInv, Quiet

LEMMA QuietStep ==
    ASSUME ClaimInv, NEW t \in Procs, Moved(t), Quiet, ClaimOf(t)' = ClaimOf(t),
           ClaimOf(t) = {} \/ th'[t].id = th[t].id
    PROVE  ClaimInv'
<1>1. OthersClaim(t)
  BY MovedAlone
<1>2. \A k \in Ids : Claims(t, k)' = Claims(t, k)
  BY DEF Claims
<1>3. \A u \in Procs : ClaimOf(u)' = ClaimOf(u) /\ \A k \in Ids : Claims(u, k)' = Claims(u, k)
  BY <1>1, <1>2 DEF OthersClaim
<1>4. ThreadsOK
  BY MovedShapes DEF ThreadsOK, Quiet, ClaimInv
<1> QED
  BY <1>3, <1>4, ClaimStepKeeps DEF ClaimStep, Keeps, Quiet

LEMMA GiveUpStep ==
    ASSUME ClaimInv, NEW t \in Procs, Moved(t), ClaimOf(t) # {}, ClaimOf(t)' = {}, th[t].id \in Ids,
           \/ Quiet /\ th[t].id \notin DOMAIN rec'
           \/ Writes(th[t].id) /\ (th[t].id \in DOMAIN rec' => rec'[th[t].id].state \in Settled)
    PROVE  ClaimInv'
<1> DEFINE id == th[t].id
<1>1. OthersClaim(t)
  BY MovedAlone
<1>2. Claims(t, id)
  BY DEF Claims
<1>3. OthersStay(id) /\ DOMAIN rec' \subseteq DOMAIN rec /\ (id \in DOMAIN rec' => rec'[id].state \in Settled)
  BY DEF OthersStay, Quiet, Writes
<1>4. ThreadsOK
  BY MovedShapes DEF ThreadsOK, Quiet, Writes, ClaimInv
<1> QED
  BY <1>1, <1>2, <1>3, <1>4, ClaimStepKeeps DEF ClaimStep, GivesUp

LEMMA MakeStep ==
    ASSUME ClaimInv, NEW t \in Procs, NEW id \in Ids, Moved(t), ClaimOf(t) = {}, th'[t].id = id,
           Writes(id), id \in DOMAIN rec, rec[id].state \in Settled, rec'[id].state \in ClaimOf(t)'
    PROVE  ClaimInv'
<1>1. OthersClaim(t)
  BY MovedAlone
<1>2. Claims(t, id)' /\ \A k \in Ids : Claims(t, k)' => k = id
  BY DEF Claims
<1>3. OthersStay(id) /\ id \in minted'
  BY DEF OthersStay, Writes, ClaimInv
<1>4. ThreadsOK
  BY MovedShapes DEF ThreadsOK, Writes, ClaimInv
<1> QED
  BY <1>1, <1>2, <1>3, <1>4, ClaimStepKeeps DEF ClaimStep, Makes

\* A record is written field by field.
LEMMA PutState ==
    ASSUME ClaimInv, NEW id \in DOMAIN rec, NEW r, rec' = [rec EXCEPT ![id] = r], "state" \in DOMAIN r, UNCHANGED minted
    PROVE  Writes(id) /\ rec'[id] = r
  BY DEF ClaimInv, Writes

LEMMA QuietPut ==
    ASSUME ClaimInv, NEW id \in DOMAIN rec, NEW r, rec' = [rec EXCEPT ![id] = r], DOMAIN r = DOMAIN rec[id],
           r.state = rec[id].state, UNCHANGED minted
    PROVE  Quiet
  BY DEF ClaimInv, Quiet

LEMMA NoMove == ASSUME ClaimInv, UNCHANGED th, Quiet PROVE ClaimInv'
<1>1. \A u \in Procs : ClaimOf(u)' = ClaimOf(u) /\ \A k \in Ids : Claims(u, k)' = Claims(u, k)
  BY DEF ClaimOf, Claims
<1>2. (\A t \in Procs : Shape(th[t]))'
  BY DEF ClaimInv, Shape
<1>3. ThreadsOK
  BY <1>2 DEF ThreadsOK, Quiet, ClaimInv
<1> QED
  BY <1>1, <1>3, ClaimStepKeeps DEF ClaimStep, Keeps, Quiet

LEMMA RestClaims == ASSUME NEW t, th[t] = Rest PROVE ClaimOf(t) = {}
  BY DEF ClaimOf, Rest

\* Whoever is in an operation is not at rest, and its sandbox is one.
LEMMA BusyThread == ASSUME ClaimInv, NEW t \in Procs, th[t].op # "none" PROVE th[t] # Rest /\ th[t].id \in Ids /\ Shape(th[t])
  BY DEF ClaimInv, Shape, Rest

\* A step from one point of an operation to another under the same claim.
LEMMA SameClaimStep ==
    ASSUME ClaimInv, NEW t \in Procs, NEW pc, th[t].op # "none", Step(t, pc), Quiet,
           \/ th[t].op \in {"pause", "snapshot", "destroy"}
           \/ th[t].op = "create" /\ {th[t].pc, pc} \subseteq {"network", "boot", "dial", "commit", "drop"}
           \/ th[t].op \in {"resume", "request"} /\ {th[t].pc, pc} \subseteq WakeSteps
           \/ th[t].op = "request" /\ {th[t].pc, pc} \cap WakeSteps = {}
    PROVE  ClaimInv'
<1>1. Moved(t) /\ th'[t].op = th[t].op /\ th'[t].id = th[t].id /\ th'[t].pc = pc
  BY BusyThread, StepMoves
<1>2. ClaimOf(t)' = ClaimOf(t)
  BY <1>1, ZenonT(30) DEF ClaimOf, WakeSteps
<1> QED
  BY <1>1, <1>2, QuietStep

LEMMA NetworkReturnedKeeps == ASSUME ClaimInv, NEW t \in Procs, NetworkReturned(t) PROVE ClaimInv'
<1>1. th[t].op = "create" /\ th[t].pc = "network" /\ Quiet
  BY SameQuiet DEF NetworkReturned, On
<1>2. CASE Step(t, "drop")
  BY <1>1, <1>2, SameClaimStep
<1>3. CASE th' = [th EXCEPT ![t].pc = "boot", ![t].slot = call[t].slot]
  <2>1. PICK r : r = [[th[t] EXCEPT !.pc = "boot"] EXCEPT !.slot = call[t].slot]
    OBVIOUS
  <2>2. th' = [th EXCEPT ![t] = r]
    BY <1>3, <2>1, ZenonT(30) DEF ClaimInv
  <2>3. {"op", "id", "pc"} \subseteq DOMAIN th[t] /\ th[t].id \in Ids
    BY <1>1, BusyThread DEF Shape
  <2>4. DOMAIN r = DOMAIN th[t] /\ r.op = th[t].op /\ r.id = th[t].id /\ r.pc = "boot"
    BY <2>1, <2>3
  <2>5. Shape(r)
    BY <1>1, <2>3, <2>4 DEF Shape
  <2>6. Moved(t) /\ th'[t] = r
    BY <2>2, <2>5, StartMoves, ZenonT(30)
  <2>7. ClaimOf(t)' = ClaimOf(t)
    BY <1>1, <2>4, <2>6 DEF ClaimOf
  <2> QED
    BY <1>1, <2>4, <2>6, <2>7, QuietStep
<1> QED
  BY <1>2, <1>3 DEF NetworkReturned

LEMMA MachineStepsKeep ==
    ASSUME ClaimInv, NEW t \in Procs, Boot(t) \/ Dial(t) \/ PauseVM(t) \/ ResumeVM(t) \/ Freeze(t) \/ Unfreeze(t)
    PROVE  ClaimInv'
<1>1. Quiet
  BY SameQuiet DEF Boot, Dial, PauseVM, ResumeVM, Freeze, Unfreeze
<1>2. CASE Boot(t)
  <2>1. th[t].op = "create" /\ th[t].pc = "boot" /\ \E pc \in {"dial", "drop"} : Step(t, pc)
    BY <1>2 DEF Boot, On
  <2> QED
    BY <1>1, <2>1, SameClaimStep
<1>3. CASE Dial(t)
  <2>1. th[t].op = "create" /\ th[t].pc = "dial" /\ \E pc \in {"commit", "drop"} : Step(t, pc)
    BY <1>3 DEF Dial, On
  <2> QED
    BY <1>1, <2>1, SameClaimStep
<1>4. CASE PauseVM(t)
  <2>1. th[t].op = "pause" /\ \E pc \in {"paused", "pauseErr"} : Step(t, pc)
    BY <1>4 DEF PauseVM, RtPause, On
  <2> QED
    BY <1>1, <2>1, SameClaimStep
<1>5. CASE ResumeVM(t)
  <2>1. th[t].op \in {"resume", "request"} /\ th[t].pc = "rtResume" /\ \E pc \in {"resumed", "resumeErr"} : Step(t, pc)
    BY <1>5 DEF ResumeVM, RtResume, On
  <2> QED
    BY <1>1, <2>1, SameClaimStep DEF WakeSteps
<1>6. CASE Freeze(t)
  <2>1. th[t].op = "snapshot" /\ \E pc \in {"checkpoint", "restore"} : Step(t, pc)
    BY <1>6 DEF Freeze, RtPause, On
  <2> QED
    BY <1>1, <2>1, SameClaimStep
<1>7. CASE Unfreeze(t)
  <2>1. th[t].op = "snapshot" /\ Step(t, "redial")
    BY <1>7 DEF Unfreeze, RtResume, On
  <2> QED
    BY <1>1, <2>1, SameClaimStep
<1> QED
  BY <1>2, <1>3, <1>4, <1>5, <1>6, <1>7

\* What a checkpoint and the redial after it write is the connection's state only.
LEMMA FreshQuiet ==
    ASSUME ClaimInv, NEW id \in DOMAIN rec, NEW v, rec' = [rec EXCEPT ![id].fresh = v], UNCHANGED minted
    PROVE  Quiet
<1>1. PICK r : r = [rec[id] EXCEPT !.fresh = v]
  OBVIOUS
<1>2. DOMAIN r = DOMAIN rec[id] /\ r.state = rec[id].state /\ rec' = [rec EXCEPT ![id] = r]
  BY <1>1 DEF ClaimInv
<1> QED
  BY <1>2, QuietPut, ZenonT(30)

LEMMA CheckpointKeeps == ASSUME ClaimInv, NEW t \in Procs, Checkpoint(t) \/ Redial(t) PROVE ClaimInv'
<1>1. th[t].op = "snapshot" /\ \E pc \in {"unfreeze", "restore"} : Step(t, pc)
  BY DEF Checkpoint, Redial, On
<1>2. Quiet
  <2>1. UNCHANGED minted /\ (rec' = rec \/ \E v \in {TRUE, FALSE} : Known(th[t].id) /\ rec' = [rec EXCEPT ![th[t].id].fresh = v])
    BY DEF Checkpoint, Redial
  <2> QED
    BY <2>1, SameQuiet, FreshQuiet DEF Known
<1> QED
  BY <1>1, <1>2, SameClaimStep

----------------------------------------------------------------------------
(* Claims that end *)

\* The end of an operation: its record is gone, or is written to a state at rest.
LEMMA EndingStep ==
    ASSUME ClaimInv, NEW t \in Procs, th[t].op # "none", Moved(t), ClaimOf(t) # {}, ClaimOf(t)' = {},
           UNCHANGED minted,
           \/ th[t].id \notin DOMAIN rec /\ rec' = rec
           \/ /\ th[t].id \in DOMAIN rec
              /\ \E r : rec' = [rec EXCEPT ![th[t].id] = r] /\ "state" \in DOMAIN r /\ r.state \in Settled
    PROVE  ClaimInv'
<1>1. th[t].id \in Ids
  BY BusyThread
<1>2. CASE th[t].id \notin DOMAIN rec /\ rec' = rec
  <2>1. Quiet
    BY <1>2, SameQuiet
  <2> QED
    BY <1>1, <1>2, <2>1, GiveUpStep
<1>3. CASE th[t].id \in DOMAIN rec
  <2>1. PICK r : rec' = [rec EXCEPT ![th[t].id] = r] /\ "state" \in DOMAIN r /\ r.state \in Settled
    BY <1>3
  <2>2. Writes(th[t].id) /\ rec'[th[t].id] = r
    BY <1>3, <2>1, PutState, ZenonT(30)
  <2> QED
    BY <1>1, <2>1, <2>2, GiveUpStep
<1> QED
  BY <1>2, <1>3

LEMMA StateField ==
    ASSUME ClaimInv, NEW id \in DOMAIN rec, NEW s, NEW r, r = [rec[id] EXCEPT !.state = s]
    PROVE  "state" \in DOMAIN r /\ r.state = s
  BY DEF ClaimInv

\* A write of the state alone, guarded by the state that was claimed.
LEMMA StateIfEnds ==
    ASSUME ClaimInv, NEW t \in Procs, NEW old, NEW s \in Settled, th[t].op # "none",
           ClaimOf(t) = {old}, SetStateIf(th[t].id, old, s), UNCHANGED minted, Moved(t), ClaimOf(t)' = {}
    PROVE  ClaimInv'
<1> DEFINE id == th[t].id
<1>1. CASE id \notin DOMAIN rec
  BY <1>1, EndingStep DEF SetStateIf, Is, Known
<1>2. CASE id \in DOMAIN rec
  <2>1. Claims(t, id) /\ id \in Ids
    BY BusyThread DEF Claims
  <2>2. rec[id].state = old
    BY <1>2, <2>1 DEF ClaimInv, TransitionClaimed
  <2>3. PICK r : r = [rec[id] EXCEPT !.state = s]
    BY ZenonT(30)
  <2>4. rec' = [rec EXCEPT ![id] = r]
    BY <1>2, <2>2, <2>3 DEF SetStateIf, Is, Known
  <2>5. "state" \in DOMAIN r /\ r.state \in Settled
    BY <1>2, <2>3, StateField
  <2> QED
    BY <1>2, <2>4, <2>5, EndingStep, ZenonT(30)
<1> QED
  BY <1>1, <1>2

LEMMA PauseEndKeeps == ASSUME ClaimInv, NEW t \in Procs, PauseEnd(t) PROVE ClaimInv'
<1> DEFINE id == th[t].id
<1>1. th[t].op = "pause" /\ UNCHANGED minted /\ Done(t)
  BY DEF PauseEnd, On
<1>2. Moved(t) /\ ClaimOf(t)' = {} /\ ClaimOf(t) = {"PAUSING"}
  BY <1>1, DoneMoves DEF ClaimOf
<1>3. CASE SetStateIf(id, "PAUSING", "RUNNING")
  BY <1>1, <1>2, <1>3, StateIfEnds DEF Settled
<1>4. CASE SetState(id, "PAUSED")
  <2>1. CASE id \notin DOMAIN rec
    BY <1>1, <1>2, <1>4, <2>1, EndingStep DEF SetState, Known
  <2>2. CASE id \in DOMAIN rec
    <3>1. PICK r : r = [rec[id] EXCEPT !.state = "PAUSED"]
      BY ZenonT(30)
    <3>2. rec' = [rec EXCEPT ![id] = r]
      BY <1>4, <2>2, <3>1 DEF SetState, Known
    <3>3. "state" \in DOMAIN r /\ r.state \in Settled
      BY <2>2, <3>1, StateField DEF Settled
    <3> QED
      BY <1>1, <1>2, <2>2, <3>2, <3>3, EndingStep, ZenonT(30)
  <2> QED
    BY <2>1, <2>2
<1> QED
  BY <1>3, <1>4 DEF PauseEnd

LEMMA RestoreKeeps == ASSUME ClaimInv, NEW t \in Procs, Restore(t) PROVE ClaimInv'
<1>1. th[t].op = "snapshot" /\ UNCHANGED minted /\ Done(t) /\ SetStateIf(th[t].id, "SNAPSHOTTING", th[t].prev)
  BY DEF Restore, On
<1>2. Moved(t) /\ ClaimOf(t)' = {} /\ ClaimOf(t) = {"SNAPSHOTTING"}
  BY <1>1, DoneMoves DEF ClaimOf
<1>3. th[t].prev \in Settled
  BY <1>1, BusyThread DEF Shape
<1> QED
  BY <1>1, <1>2, <1>3, StateIfEnds

LEMMA CommitKeeps == ASSUME ClaimInv, NEW t \in Procs, Commit(t) PROVE ClaimInv'
<1> DEFINE id == th[t].id
<1>1. th[t].op = "create" /\ th[t].pc = "commit" /\ UNCHANGED minted /\ Done(t)
  BY DEF Commit, On
<1>2. Moved(t) /\ ClaimOf(t)' = {} /\ ClaimOf(t) # {}
  BY <1>1, DoneMoves DEF ClaimOf
<1>3. CASE id \notin DOMAIN rec
  BY <1>1, <1>2, <1>3, EndingStep DEF Commit, Known
<1>4. CASE id \in DOMAIN rec
  <2>1. PICK r : r = [[rec[id] EXCEPT !.state = "RUNNING"] EXCEPT !.fresh = TRUE]
    OBVIOUS
  <2>2. rec' = [rec EXCEPT ![id] = r]
    BY <1>4, <2>1, ZenonT(30) DEF Commit, Known
  <2>3. "state" \in DOMAIN rec[id]
    BY <1>4 DEF ClaimInv
  <2>4. "state" \in DOMAIN r /\ r.state \in Settled
    BY <2>1, <2>3 DEF Settled
  <2> QED
    BY <1>1, <1>2, <1>4, <2>2, <2>4, EndingStep, ZenonT(30)
<1> QED
  BY <1>3, <1>4

LEMMA ResumeEndKeeps == ASSUME ClaimInv, NEW t \in Procs, ResumeEnd(t) PROVE ClaimInv'
<1> DEFINE id == th[t].id
<1>1. th[t].op \in {"resume", "request"} /\ th[t].pc \in {"resumed", "resumeErr"} /\ UNCHANGED minted
  BY DEF ResumeEnd
<1>2. ClaimOf(t) = {"RESUMING"}
  BY <1>1 DEF ClaimOf, WakeSteps
<1>3. ASSUME NEW pc \in {"serve", "release"}, AfterResume(t, pc) PROVE Moved(t) /\ ClaimOf(t)' = {}
  <2>1. CASE th[t].op = "request"
    <3>1. Moved(t) /\ th'[t].op = "request" /\ th'[t].pc = pc
      BY <1>3, <2>1, BusyThread, StepMoves DEF AfterResume
    <3> QED
      BY <3>1 DEF ClaimOf, WakeSteps
  <2>2. CASE th[t].op # "request"
    BY <1>3, <2>2, DoneMoves DEF AfterResume
  <2> QED
    BY <2>1, <2>2
<1>4. CASE SetStateIf(id, "RESUMING", "PAUSED") /\ AfterResume(t, "release")
  BY <1>1, <1>2, <1>3, <1>4, StateIfEnds DEF Settled
<1>5. CASE /\ rec' = IF Known(id) THEN [rec EXCEPT ![id].state = "RUNNING", ![id].idle = FALSE] ELSE rec
           /\ AfterResume(t, "serve")
  <2>0. Moved(t) /\ ClaimOf(t)' = {}
    BY <1>3, <1>5
  <2>1. CASE id \notin DOMAIN rec
    BY <1>1, <1>2, <1>5, <2>0, <2>1, EndingStep DEF Known
  <2>2. CASE id \in DOMAIN rec
    <3>1. PICK r : r = [[rec[id] EXCEPT !.state = "RUNNING"] EXCEPT !.idle = FALSE]
      OBVIOUS
    <3>2. rec' = [rec EXCEPT ![id] = r]
      BY <1>5, <2>2, <3>1, ZenonT(30) DEF Known
    <3>3. "state" \in DOMAIN rec[id]
      BY <2>2 DEF ClaimInv
    <3>4. "state" \in DOMAIN r /\ r.state \in Settled
      BY <3>1, <3>3 DEF Settled
    <3> QED
      BY <1>1, <1>2, <2>0, <2>2, <3>2, <3>4, EndingStep, ZenonT(30)
  <2> QED
    BY <2>1, <2>2
<1> QED
  BY <1>4, <1>5 DEF ResumeEnd

\* releaseNetwork either goes on to the network's step or is the end.
LEMMA ReleaseMoves ==
    ASSUME ClaimInv, NEW t \in Procs, NEW pc \in {"dropNet", "killNet"}, th[t].op \in {"create", "destroy"}, ReleaseNetwork(t, pc)
    PROVE  Moved(t) /\ ClaimOf(t)' = {}
<1>1. CASE Networked
  <2>1. Moved(t) /\ th'[t].op = th[t].op /\ th'[t].pc = pc
    BY <1>1, BusyThread, StepMoves DEF ReleaseNetwork
  <2> QED
    BY <2>1 DEF ClaimOf
<1>2. CASE ~Networked
  BY <1>2, DoneMoves DEF ReleaseNetwork
<1> QED
  BY <1>1, <1>2

LEMMA DropFailedKeeps == ASSUME ClaimInv, NEW t \in Procs, DropFailed(t) PROVE ClaimInv'
<1>1. th[t].op = "create" /\ th[t].pc = "drop" /\ rec' = Without(rec, th[t].id) /\ UNCHANGED minted
  BY DEF DropFailed, On
<1>2. Moved(t) /\ ClaimOf(t)' = {} /\ ClaimOf(t) # {}
  BY <1>1, ReleaseMoves DEF DropFailed, ClaimOf
<1>3. Quiet /\ th[t].id \notin DOMAIN rec' /\ th[t].id \in Ids
  BY <1>1, WithoutQuiet, BusyThread, ZenonT(30) DEF Without
<1> QED
  BY <1>2, <1>3, GiveUpStep

\* Of operations that hold no claim.
LEMMA UnclaimedStep ==
    ASSUME ClaimInv, NEW t \in Procs, Moved(t), Quiet, ClaimOf(t) = {}, ClaimOf(t)' = {}
    PROVE  ClaimInv'
  BY QuietStep, ZenonT(30)

LEMMA NetworkReleasedKeeps == ASSUME ClaimInv, NEW t \in Procs, NetworkReleased(t) \/ Kill(t) PROVE ClaimInv'
<1>1. Quiet
  BY SameQuiet DEF NetworkReleased, Kill, mgrVarsButThreads
<1>2. ClaimOf(t) = {}
  BY DEF NetworkReleased, Kill, On, ClaimOf
<1>3. CASE NetworkReleased(t)
  BY <1>1, <1>2, <1>3, DoneMoves, UnclaimedStep DEF NetworkReleased
<1>4. CASE Kill(t)
  <2>1. th[t].op = "destroy" /\ ReleaseNetwork(t, "killNet")
    BY <1>4 DEF Kill, On
  <2> QED
    BY <1>1, <1>2, <2>1, ReleaseMoves, UnclaimedStep
<1> QED
  BY <1>3, <1>4

----------------------------------------------------------------------------
(* Claims that begin *)

LEMMA DestroyingKeeps ==
    ASSUME ClaimInv, NEW t \in Procs, NEW id \in Ids, th[t] = Rest, Destroying(t, id), UNCHANGED minted
    PROVE  ClaimInv'
<1>1. PICK r : r = [op |-> "destroy", id |-> id, pc |-> "kill"]
  BY ZenonT(30)
<1>2. Shape(r)
  BY <1>1 DEF Shape
<1>3. Moved(t) /\ th'[t] = r
  BY <1>1, <1>2, StartMoves, ZenonT(30) DEF Destroying
<1>4. ClaimOf(t)' = {} /\ ClaimOf(t) = {}
  BY <1>1, <1>3, RestClaims DEF ClaimOf
<1>5. Quiet
  BY WithoutQuiet DEF Destroying
<1> QED
  BY <1>3, <1>4, <1>5, UnclaimedStep

\* A goroutine that had no claim writes a transitional state and claims it.
LEMMA ClaimingStep ==
    ASSUME ClaimInv, NEW t \in Procs, NEW id \in Ids, NEW s, Moved(t), ClaimOf(t) = {}, th'[t].id = id, ClaimOf(t)' = {s},
           id \in DOMAIN rec, rec[id].state \in Settled, rec' = [rec EXCEPT ![id].state = s], UNCHANGED minted
    PROVE  ClaimInv'
<1>1. PICK r : r = [rec[id] EXCEPT !.state = s]
  OBVIOUS
<1>2. rec' = [rec EXCEPT ![id] = r]
  BY <1>1
<1>3. "state" \in DOMAIN r /\ r.state = s
  BY <1>1, StateField
<1>4. Writes(id) /\ rec'[id].state = s
  BY <1>2, <1>3, PutState, ZenonT(30)
<1> QED
  BY <1>4, MakeStep

LEMMA PausingKeeps ==
    ASSUME ClaimInv, NEW t \in Procs, NEW id \in Ids, th[t] = Rest, Is(id, "RUNNING"), Pausing(t, id), UNCHANGED minted
    PROVE  ClaimInv'
<1>1. PICK r : r = [op |-> "pause", id |-> id, pc |-> "rtPause"]
  BY ZenonT(30)
<1>2. Shape(r)
  BY <1>1 DEF Shape
<1>3. Moved(t) /\ th'[t] = r
  BY <1>1, <1>2, StartMoves, ZenonT(30) DEF Pausing
<1>4. ClaimOf(t)' = {"PAUSING"} /\ th'[t].id = id /\ ClaimOf(t) = {}
  BY <1>1, <1>3, RestClaims DEF ClaimOf
<1>5. id \in DOMAIN rec /\ rec[id].state \in Settled /\ rec' = [rec EXCEPT ![id].state = "PAUSING"]
  BY DEF Is, Known, Settled, Pausing
<1> QED
  BY <1>3, <1>4, <1>5, ClaimingStep, ZenonT(30)

LEMMA ResumeBeginKeeps == ASSUME ClaimInv, NEW t \in Procs, NEW id \in Ids, ResumeBegin(t, id) PROVE ClaimInv'
<1>1. PICK r : r = [op |-> "resume", id |-> id, pc |-> "rtResume"]
  BY ZenonT(30)
<1>2. Shape(r)
  BY <1>1 DEF Shape
<1>3. Moved(t) /\ th'[t] = r
  BY <1>1, <1>2, StartMoves, ZenonT(30) DEF ResumeBegin
<1>4. ClaimOf(t)' = {"RESUMING"} /\ th'[t].id = id /\ ClaimOf(t) = {}
  BY <1>1, <1>3, RestClaims DEF ClaimOf, WakeSteps, ResumeBegin, Ready
<1>5. id \in DOMAIN rec /\ rec[id].state \in Settled /\ rec' = [rec EXCEPT ![id].state = "RESUMING"] /\ UNCHANGED minted
  BY DEF Is, Known, Settled, ResumeBegin, SetState
<1> QED
  BY <1>3, <1>4, <1>5, ClaimingStep, ZenonT(30)

LEMMA SnapshotBeginKeeps == ASSUME ClaimInv, NEW t \in Procs, NEW id \in Ids, SnapshotBegin(t, id) PROVE ClaimInv'
<1>0. Known(id) /\ rec[id].state \in Settled /\ th[t] = Rest
  BY DEF SnapshotBegin, Ready, Settled
<1>1. PICK r : r = [op |-> "snapshot", id |-> id, prev |-> rec[id].state,
                    pc |-> IF rec[id].state = "RUNNING" THEN "freeze" ELSE "checkpoint"]
  BY ZenonT(30)
<1>2. Shape(r)
  BY <1>0, <1>1 DEF Shape
<1>3. Moved(t) /\ th'[t] = r
  BY <1>1, <1>2, StartMoves, ZenonT(30) DEF SnapshotBegin
<1>4. ClaimOf(t)' = {"SNAPSHOTTING"} /\ th'[t].id = id /\ ClaimOf(t) = {}
  BY <1>0, <1>1, <1>3, RestClaims DEF ClaimOf
<1>5. id \in DOMAIN rec /\ rec' = [rec EXCEPT ![id].state = "SNAPSHOTTING"] /\ UNCHANGED minted
  BY <1>0 DEF Known, SnapshotBegin, SetState
<1> QED
  BY <1>0, <1>3, <1>4, <1>5, ClaimingStep, ZenonT(30)

LEMMA WakeKeeps == ASSUME ClaimInv, NEW t \in Procs, Wake(t) PROVE ClaimInv'
<1> DEFINE id == th[t].id
<1>1. th[t].op = "request" /\ th[t].pc = "wake" /\ UNCHANGED minted
  BY DEF Wake, On
<1>2. CASE Is(id, "PAUSED") /\ SetState(id, "RESUMING") /\ Step(t, "rtResume")
  <2>1. Moved(t) /\ th'[t].op = "request" /\ th'[t].id = id /\ th'[t].pc = "rtResume" /\ id \in Ids
    BY <1>1, <1>2, BusyThread, StepMoves
  <2>2. ClaimOf(t) = {} /\ ClaimOf(t)' = {"RESUMING"}
    BY <1>1, <2>1 DEF ClaimOf, WakeSteps
  <2>3. id \in DOMAIN rec /\ rec[id].state \in Settled /\ rec' = [rec EXCEPT ![id].state = "RESUMING"]
    BY <1>2 DEF Is, Known, Settled, SetState
  <2> QED
    BY <1>1, <2>1, <2>2, <2>3, ClaimingStep, ZenonT(30)
<1>3. CASE rec' = rec /\ \E pc \in {"serve", "release"} : Step(t, pc)
  BY <1>1, <1>3, SameQuiet, SameClaimStep DEF WakeSteps
<1> QED
  BY <1>2, <1>3 DEF Wake

LEMMA CreateBeginKeeps == ASSUME ClaimInv, NEW t \in Procs, NEW id \in Ids, CreateBegin(t, id) PROVE ClaimInv'
<1>1. PICK r : r = [op |-> "create", id |-> id, slot |-> NoSlot, pc |-> IF Networked THEN "network" ELSE "boot"]
  BY ZenonT(30)
<1>2. Shape(r)
  BY <1>1 DEF Shape
<1>3. Moved(t) /\ th'[t] = r
  BY <1>1, <1>2, StartMoves, ZenonT(30) DEF CreateBegin
<1>4. ClaimOf(t)' = {"STARTING", "RESTORING"} /\ th'[t].id = id /\ ClaimOf(t) = {}
  BY <1>1, <1>3, RestClaims DEF ClaimOf, CreateBegin, Ready
<1>5. PICK state \in {"STARTING", "RESTORING"} :
        rec' = With(rec, id, [state |-> state, inFlight |-> 0, idle |-> FALSE, fresh |-> FALSE])
  BY ZenonT(30) DEF CreateBegin
<1>6. PICK new : new = [state |-> state, inFlight |-> 0, idle |-> FALSE, fresh |-> FALSE]
  BY ZenonT(30)
<1>7. "state" \in DOMAIN new /\ new.state = state
  BY <1>6
<1>8. DOMAIN rec' = DOMAIN rec \cup {id} /\ rec'[id] = new /\ \A k \in DOMAIN rec : k # id => rec'[k] = rec[k]
  BY <1>5, <1>6 DEF With
<1>9. id \notin minted /\ minted' = minted \cup {id}
  BY DEF CreateBegin
<1>10. ThreadsOK
  <2>1. (DOMAIN th = Procs)' /\ (\A u \in Procs : Shape(th[u]))'
    BY <1>3, MovedShapes
  <2>2. \A k \in DOMAIN rec' : "state" \in DOMAIN rec'[k]
    BY <1>7, <1>8 DEF ClaimInv
  <2> QED
    BY <1>8, <1>9, <2>1, <2>2 DEF ThreadsOK, ClaimInv
<1>11. Makes(t, id)
  <2>1. OthersStay(id)
    BY <1>8 DEF OthersStay
  <2>2. OthersClaim(t)
    BY <1>3, MovedAlone
  <2>3. Claims(t, id)' /\ \A k \in Ids : Claims(t, k)' => k = id
    BY <1>4 DEF Claims
  <2> QED
    BY <1>4, <1>7, <1>8, <1>9, <2>1, <2>2, <2>3 DEF Makes
<1> QED
  BY <1>10, <1>11, ClaimStepKeeps DEF ClaimStep

----------------------------------------------------------------------------
(* Requests, the sweep and Close *)

\* What a request writes is its count and the activity.
LEMMA ActivityQuiet ==
    ASSUME ClaimInv, NEW id \in DOMAIN rec, NEW n, NEW v, UNCHANGED minted,
           \/ rec' = [rec EXCEPT ![id].inFlight = n, ![id].idle = v]
           \/ rec' = [rec EXCEPT ![id].idle = v]
    PROVE  Quiet
<1>1. PICK r : \/ r = [[rec[id] EXCEPT !.inFlight = n] EXCEPT !.idle = v] /\ rec' = [rec EXCEPT ![id] = r]
               \/ r = [rec[id] EXCEPT !.idle = v] /\ rec' = [rec EXCEPT ![id] = r]
  OBVIOUS
<1>2. DOMAIN r = DOMAIN rec[id] /\ r.state = rec[id].state
  BY <1>1 DEF ClaimInv
<1> QED
  BY <1>1, <1>2, QuietPut

LEMMA RequestBeginKeeps == ASSUME ClaimInv, NEW t \in Procs, NEW id \in Ids, RequestBegin(t, id) PROVE ClaimInv'
<1>0. id \in DOMAIN rec /\ UNCHANGED minted /\ th[t] = Rest
  BY DEF RequestBegin, Known, Ready
<1>1. CASE rec' = [rec EXCEPT ![id].idle = FALSE] /\ th' = th
  <2>1. Quiet
    BY <1>0, <1>1, ActivityQuiet, ZenonT(30)
  <2> QED
    BY <1>1, <2>1, NoMove
<1>2. CASE /\ rec' = [rec EXCEPT ![id].inFlight = @ + 1, ![id].idle = FALSE]
           /\ th' = [th EXCEPT ![t] = [op |-> "request", id |-> id,
                                       pc |-> IF rec[id].state = "RUNNING" THEN "serve" ELSE "wake"]]
  <2>1. PICK r : r = [op |-> "request", id |-> id, pc |-> IF rec[id].state = "RUNNING" THEN "serve" ELSE "wake"]
    BY ZenonT(30)
  <2>2. Shape(r)
    BY <2>1 DEF Shape
  <2>3. Moved(t) /\ th'[t] = r
    BY <1>2, <2>1, <2>2, StartMoves, ZenonT(30)
  <2>4. ClaimOf(t)' = {} /\ ClaimOf(t) = {}
    BY <1>0, <2>1, <2>3, RestClaims DEF ClaimOf, WakeSteps
  <2>5. Quiet
    BY <1>0, <1>2, ActivityQuiet, ZenonT(30)
  <2> QED
    BY <2>3, <2>4, <2>5, UnclaimedStep
<1> QED
  BY <1>1, <1>2 DEF RequestBegin

LEMMA RequestEndKeeps == ASSUME ClaimInv, NEW t \in Procs, RequestEnd(t) PROVE ClaimInv'
<1>1. ClaimOf(t) = {} /\ UNCHANGED minted /\ Done(t)
  BY DEF RequestEnd, On, ClaimOf, WakeSteps
<1>2. Quiet
  <2>1. CASE th[t].id \notin DOMAIN rec
    BY <1>1, <2>1, SameQuiet DEF RequestEnd, Known
  <2>2. CASE th[t].id \in DOMAIN rec
    BY <1>1, <2>2, ActivityQuiet, ZenonT(30) DEF RequestEnd, Known
  <2> QED
    BY <2>1, <2>2
<1> QED
  BY <1>1, <1>2, DoneMoves, UnclaimedStep

LEMMA ActKeeps == ASSUME ClaimInv, NEW t \in Procs, Act(t) PROVE ClaimInv'
<1>1. th[t] = Rest /\ UNCHANGED minted
  BY DEF Act
<1>2. PICK id \in todo[t] : \/ Known(id) /\ Destroying(t, id)
                            \/ Is(id, "RUNNING") /\ Pausing(t, id)
                            \/ UNCHANGED <<rec, th>>
  BY DEF Act
<1>3. Known(id) => id \in Ids
  BY DEF Known, ClaimInv
<1>4. CASE Known(id) /\ Destroying(t, id)
  BY <1>1, <1>3, <1>4, DestroyingKeeps
<1>5. CASE Is(id, "RUNNING") /\ Pausing(t, id)
  BY <1>1, <1>3, <1>5, PausingKeeps DEF Is
<1>6. CASE UNCHANGED <<rec, th>>
  BY <1>1, <1>6, SameQuiet, NoMove
<1> QED
  BY <1>2, <1>4, <1>5, <1>6

\* Steps that move no goroutine.
LEMMA OutsideKeeps ==
    ASSUME ClaimInv, NEW t \in Procs,
           \/ CallStep(t) /\ UNCHANGED mgrVars
           \/ Close(t) \/ SweepIdle
           \/ \E id \in Ids : TimePasses(id)
           \/ UNCHANGED vars
    PROVE  ClaimInv'
<1>1. CASE UNCHANGED <<rec, th, minted>>
  BY <1>1, SameQuiet, NoMove
<1>2. CASE \E id \in Ids : TimePasses(id)
  BY <1>2, ActivityQuiet, NoMove, ZenonT(30) DEF TimePasses, Known
<1> QED
  BY <1>1, <1>2 DEF mgrVars, Close, SweepIdle, vars

LEMMA ClaimInvInit == Init => ClaimInv
  BY DEF Init, ClaimInv, Shape, Claims, ClaimOf, TransitionClaimed, Rest

LEMMA ClaimInvNext == ClaimInv /\ [Next]_vars => ClaimInv'
<1> SUFFICES ASSUME ClaimInv, [Next]_vars PROVE ClaimInv'
  OBVIOUS
<1>1. CASE \E t \in Procs : Continue(t)
  BY <1>1, NetworkReturnedKeeps, MachineStepsKeep, CommitKeeps, DropFailedKeeps, NetworkReleasedKeeps, PauseEndKeeps,
     ResumeEndKeeps, WakeKeeps, CheckpointKeeps, RestoreKeeps, OutsideKeeps DEF Continue
<1>2. CASE \E t \in Procs : RequestEnd(t) \/ Close(t) \/ Act(t)
  BY <1>2, RequestEndKeeps, OutsideKeeps, ActKeeps
<1>3. CASE \E t \in Procs, id \in Ids : Begin(t, id)
  <2>1. PICK t \in Procs, id \in Ids : Begin(t, id)
    BY <1>3
  <2>2. CASE PauseBegin(t, id)
    BY <2>2, PausingKeeps DEF PauseBegin, Ready
  <2> QED
    BY <2>1, <2>2, CreateBeginKeeps, ResumeBeginKeeps, RequestBeginKeeps, SnapshotBeginKeeps DEF Begin
<1>4. CASE \E t \in Procs, id \in Ids : DestroyBegin(t, id)
  BY <1>4, DestroyingKeeps DEF DestroyBegin, Ready
<1>5. CASE SweepIdle \/ (\E id \in Ids : TimePasses(id)) \/ UNCHANGED vars
  BY <1>5, OutsideKeeps, ManagerAssumption
<1> QED
  BY <1>1, <1>2, <1>3, <1>4, <1>5 DEF Next

\* At most one operation is in a sandbox's transition at a time, the record shows the state
\* it claimed, and a record in transition has its claimant, whatever clients ask for and
\* whatever fails (Create, ForkSandbox, Pause, Resume, AgentConn, Snapshot, Destroy,
\* sweepIdle, Close).
THEOREM TransitionsExclusive == Spec => []TransitionClaimed
<1>1. Init => ClaimInv
  BY ClaimInvInit
<1>2. ClaimInv /\ [Next]_vars => ClaimInv'
  BY ClaimInvNext
<1>3. ClaimInv => TransitionClaimed
  BY DEF ClaimInv
<1> QED
  BY <1>1, <1>2, <1>3, PTL DEF Spec

\* The same of the system whose clients wait for a create before they delete.
THEOREM WaitingTransitionsExclusive == WaitingSpec => []TransitionClaimed
<1>1. Init => ClaimInv
  BY ClaimInvInit
<1>2. [WaitingNext]_vars => [Next]_vars
  BY DEF WaitingNext, Next
<1>3. ClaimInv /\ [WaitingNext]_vars => ClaimInv'
  BY <1>2, ClaimInvNext
<1>4. ClaimInv => TransitionClaimed
  BY DEF ClaimInv
<1> QED
  BY <1>1, <1>3, <1>4, PTL DEF WaitingSpec
=============================================================================
