------------------------- MODULE PortForwardProofs -------------------------
(***************************************************************************)
(* A forwarded request is answered by the sandbox it named, for any number *)
(* of sandboxes, slots and requests, although the connection the agent's   *)
(* port rides may lead to another sandbox. For a user's port the argument  *)
(* is that a slot holds one sandbox at a time, so that what is dialled is  *)
(* the sandbox that was resolved or one that came after it; for the        *)
(* agent's, that an agent accepts its own sandbox's token only.            *)
(***************************************************************************)
EXTENDS PortForward, TLAPS

BoxRecords == [state : {"absent", "running", "paused", "gone"}, slot : FwdSlots \cup {"none"}]
Flags == BOOLEAN
FwdRecords ==
    [pc : {"idle", "resolved", "sent", "answered"}, box : FwdBoxes \cup {"none"}, port : {"none", "user", "agent"},
     slot : FwdSlots \cup {"none"}, token : FwdBoxes \cup {"none"}, conn : FwdBoxes \cup {"none"},
     by : FwdBoxes \cup {"none"}, resolvedThenGone : Flags]

\* No two sandboxes share a slot.
SlotsApart ==
    \A s, t \in FwdBoxes : fwdBox[s].slot = fwdBox[t].slot /\ fwdBox[s].slot # "none" => s = t

\* The sandbox a request was resolved to still has the slot it was resolved to, or is gone.
Resolved(f) ==
    /\ f.box \in FwdBoxes /\ f.slot \in FwdSlots
    /\ \/ f.port = "user" /\ f.token = "none"
       \/ f.port = "agent" /\ f.token = f.box
    /\ f.resolvedThenGone = TRUE \/ fwdBox[f.box].slot = f.slot
\* A request for a user's port rides to the sandbox it named, or to one that came after it.
Carried(f) ==
    /\ f.conn \in FwdBoxes
    /\ f.port = "user" => f.conn = f.box \/ f.resolvedThenGone = TRUE

ForwardOK(f) ==
    /\ f \in FwdRecords
    /\ f.pc # "idle" => Resolved(f)
    /\ f.pc \in {"sent", "answered"} => Carried(f)
    /\ f.pc = "answered" => f.by = f.box \/ (f.port = "user" /\ f.resolvedThenGone = TRUE)

PfInv ==
    /\ fwdBox \in [FwdBoxes -> BoxRecords] /\ h2cPool \subseteq FwdBoxes
    /\ forward \in [Forwards -> FwdRecords]
    /\ \A s \in FwdBoxes : fwdBox[s].state = "absent" => fwdBox[s].slot = "none"
    /\ SlotsApart
    /\ \A r \in Forwards : ForwardOK(forward[r])

LEMMA NoForwardOK == NoForward \in FwdRecords /\ ForwardOK(NoForward) /\ ForwardOK(NoForward)'
<1>1. NoForward \in FwdRecords
  BY DEF NoForward, FwdRecords, Flags
<1> QED
  BY <1>1, ZenonT(30) DEF NoForward, ForwardOK, FwdRecords

LEMMA PfInvInit == PfInit => PfInv
<1> SUFFICES ASSUME PfInit PROVE PfInv
  OBVIOUS
<1>1. fwdBox \in [FwdBoxes -> BoxRecords] /\ h2cPool \subseteq FwdBoxes /\ SlotsApart
      /\ \A s \in FwdBoxes : fwdBox[s].state = "absent" => fwdBox[s].slot = "none"
  BY DEF PfInit, BoxRecords, SlotsApart
<1>2. forward \in [Forwards -> FwdRecords] /\ \A r \in Forwards : forward[r] = NoForward
  BY NoForwardOK DEF PfInit
<1> QED
  BY <1>1, <1>2, NoForwardOK DEF PfInv

\* A step of a request, which leaves the sandboxes and the other requests alone.
LEMMA RequestStep ==
    ASSUME PfInv, NEW r \in Forwards, NEW new, SetF(r, new), UNCHANGED fwdBox,
           h2cPool' \subseteq FwdBoxes, ForwardOK(new)
    PROVE  PfInv'
<1>1. new \in FwdRecords /\ forward' = [forward EXCEPT ![r] = new] /\ forward \in [Forwards -> FwdRecords]
  BY DEF ForwardOK, SetF, PfInv
<1>2. \A f : ForwardOK(f) => ForwardOK(f)'
  BY DEF ForwardOK, Resolved, Carried
<1>3. forward' \in [Forwards -> FwdRecords] /\ \A q \in Forwards : forward'[q] \in {forward[q], new}
  BY <1>1
<1>4. \A q \in Forwards : ForwardOK(forward'[q])
  BY <1>3 DEF PfInv
<1>5. (\A q \in Forwards : ForwardOK(forward[q]))'
  BY <1>2, <1>4 DEF ForwardOK, Resolved, Carried
<1> QED
  BY <1>3, <1>5 DEF PfInv, SlotsApart

\* What a slot's namespace holds is the sandbox with that slot, and nothing else has it.
LEMMA InSlotIs ==
    ASSUME PfInv, NEW k \in FwdSlots
    PROVE  /\ InSlot(k) # "none" => InSlot(k) \in FwdBoxes /\ fwdBox[InSlot(k)].slot = k
           /\ InSlot(k) = "none" => \A s \in FwdBoxes : fwdBox[s].slot # k
  BY ForwardAssumption DEF InSlot

\* What follows the dash of a Host.
Rests == FwdBoxes \cup {""}
LEMMA HostRecords == FwdHosts = [dash : Flags, port : {0, AgentPort, 65535, 65536}, rest : Rests]
  BY DEF FwdHosts, Flags, Rests
LEMMA HostRest == ASSUME NEW host \in FwdHosts PROVE host.rest \in Rests
  BY HostRecords

LEMMA ServeHTTPKeeps == ASSUME PfInv, NEW r \in Forwards, ServeHTTP(r) PROVE PfInv'
<1>1. PICK to \in Targets : fwdBox[to[1]].slot # "none" /\ SetF(r, TargetFor(to[1], to[2]))
  BY DEF ServeHTTP
<1>2. to[1] \in FwdBoxes /\ to[2] \in {"user", "agent"}
  <2>1. PICK host \in FwdHosts : to = ParseSandboxHost(host) /\ to # <<"", "">>
    BY Zenon DEF Targets
  <2>2. host.rest # "" /\ to = <<host.rest, IF host.port = AgentPort THEN "agent" ELSE "user">>
    BY <2>1, Zenon DEF ParseSandboxHost
  <2>3. host.rest \in FwdBoxes
    BY <2>2, HostRest DEF Rests
  <2> QED
    BY <2>2, <2>3
<1> DEFINE s == to[1]
           port == to[2]
           new == TargetFor(s, port)
<1>3. fwdBox[s].slot \in FwdSlots
  BY <1>1, <1>2 DEF PfInv, BoxRecords
<1>5. new \in FwdRecords
  <2>1. (IF port = "agent" THEN s ELSE "none") \in FwdBoxes \cup {"none"} /\ FALSE \in Flags
    BY <1>2 DEF Flags
  <2> QED
    BY <1>2, <1>3, <2>1, ZenonT(30) DEF FwdRecords, TargetFor
<1>6. ForwardOK(new)
  BY <1>2, <1>3, <1>5 DEF ForwardOK, Resolved, TargetFor
<1> QED
  BY <1>1, <1>6, RequestStep DEF ServeHTTP, PfInv

\* A request that is sent over a connection to sandbox s.
LEMMA SendKeeps ==
    ASSUME PfInv, NEW r \in Forwards, NEW s \in FwdBoxes, forward[r].pc = "resolved",
           forward[r].port = "user" => s = forward[r].box \/ forward[r].resolvedThenGone = TRUE,
           SetF(r, [forward[r] EXCEPT !.pc = "sent", !.conn = s]), UNCHANGED fwdBox, h2cPool' \subseteq FwdBoxes
    PROVE  PfInv'
<1> DEFINE f == forward[r]
           new == [f EXCEPT !.pc = "sent", !.conn = s]
<1>1. ForwardOK(f) /\ f \in FwdRecords
  BY DEF PfInv
<1>2. /\ new \in FwdRecords /\ new.pc = "sent" /\ new.conn = s /\ new.box = f.box /\ new.port = f.port
      /\ new.slot = f.slot /\ new.token = f.token /\ new.resolvedThenGone = f.resolvedThenGone
  BY <1>1, ZenonT(30) DEF FwdRecords
<1>3. ForwardOK(new)
  <2> HIDE DEF new
  <2> QED
    BY <1>1, <1>2 DEF ForwardOK, Resolved, Carried
<1> QED
  BY <1>3, RequestStep

LEMMA DropKeeps ==
    ASSUME PfInv, NEW r \in Forwards, SetF(r, NoForward), UNCHANGED fwdBox, h2cPool' \subseteq FwdBoxes
    PROVE  PfInv'
  BY NoForwardOK, RequestStep

LEMMA DialTargetKeeps == ASSUME PfInv, NEW r \in Forwards, DialTarget(r) PROVE PfInv'
<1> DEFINE s == InSlot(forward[r].slot)
<1>1. forward[r].pc = "resolved" /\ Resolved(forward[r]) /\ UNCHANGED fwdBox /\ h2cPool \subseteq FwdBoxes
  BY DEF DialTarget, PfInv, ForwardOK
<1>2. CASE s = "none"
  BY <1>1, <1>2, DropKeeps DEF DialTarget
<1>3. CASE s # "none"
  <2>1. s \in FwdBoxes /\ fwdBox[s].slot = forward[r].slot /\ forward[r].slot # "none"
    BY <1>1, <1>3, InSlotIs, ForwardAssumption DEF Resolved
  <2>2. s = forward[r].box \/ forward[r].resolvedThenGone = TRUE
    BY <1>1, <2>1 DEF Resolved, PfInv, SlotsApart
  <2>3. SetF(r, [forward[r] EXCEPT !.pc = "sent", !.conn = s]) /\ h2cPool' \subseteq FwdBoxes
    BY <1>1, <1>3, <2>1 DEF DialTarget
  <2> HIDE DEF s
  <2> QED
    BY <1>1, <2>1, <2>2, <2>3, SendKeeps, ZenonT(30)
<1> QED
  BY <1>2, <1>3

LEMMA ReuseConnectionKeeps == ASSUME PfInv, NEW r \in Forwards, ReuseConnection(r) PROVE PfInv'
<1>1. PICK s \in h2cPool : SetF(r, [forward[r] EXCEPT !.pc = "sent", !.conn = s])
  BY ZenonT(30) DEF ReuseConnection
<1>2. s \in FwdBoxes /\ forward[r].pc = "resolved" /\ forward[r].port # "user" /\ UNCHANGED fwdBox /\ h2cPool' \subseteq FwdBoxes
  BY DEF ReuseConnection, OwnConnection, PfInv
<1> QED
  BY <1>1, <1>2, SendKeeps, ZenonT(30)

LEMMA SandboxAnswersKeeps == ASSUME PfInv, NEW r \in Forwards, SandboxAnswers(r) PROVE PfInv'
<1> DEFINE f == forward[r]
           s == f.conn
           new == [f EXCEPT !.pc = "answered", !.by = s]
<1>1. f.pc = "sent" /\ ForwardOK(f) /\ f \in FwdRecords /\ UNCHANGED <<fwdBox, h2cPool>> /\ h2cPool' \subseteq FwdBoxes
  BY DEF SandboxAnswers, PfInv
<1>2. CASE f.port = "agent" /\ ~AgentAccepts(s, f.token)
  BY <1>1, <1>2, DropKeeps DEF SandboxAnswers
<1>3. CASE ~(f.port = "agent" /\ ~AgentAccepts(s, f.token))
  <2>1. SetF(r, new)
    BY <1>3 DEF SandboxAnswers
  <2>2. /\ new \in FwdRecords /\ new.pc = "answered" /\ new.conn = s /\ new.by = s /\ new.box = f.box /\ new.port = f.port
        /\ new.slot = f.slot /\ new.token = f.token /\ new.resolvedThenGone = f.resolvedThenGone
    BY <1>1, ZenonT(30) DEF FwdRecords
  <2>3. s = f.box \/ (f.port = "user" /\ f.resolvedThenGone = TRUE)
    BY <1>1, <1>3 DEF ForwardOK, Resolved, Carried, AgentAccepts
  <2>4. ForwardOK(new)
    <3> HIDE DEF new
    <3> QED
      BY <1>1, <2>2, <2>3 DEF ForwardOK, Resolved, Carried
  <2> HIDE DEF new
  <2> QED
    BY <1>1, <2>1, <2>4, RequestStep
<1> QED
  BY <1>2, <1>3

LEMMA RequestLeavesKeeps == ASSUME PfInv, NEW r \in Forwards, BadGateway(r) \/ CallerLeaves(r) PROVE PfInv'
<1>1. SetF(r, NoForward) /\ UNCHANGED fwdBox /\ h2cPool' \subseteq FwdBoxes
  BY DEF BadGateway, CallerLeaves, PfInv
<1> QED
  BY <1>1, DropKeeps

\* A sandbox that keeps its slot, or is given one nobody has.
LEMMA BoxKeepsOrTakes ==
    ASSUME PfInv, NEW s \in FwdBoxes, NEW new \in BoxRecords, fwdBox' = [fwdBox EXCEPT ![s] = new],
           UNCHANGED <<h2cPool, forward>>, new.state # "absent",
           \/ new.slot = fwdBox[s].slot
           \/ fwdBox[s].slot = "none" /\ \A t \in FwdBoxes : fwdBox[t].slot # new.slot
    PROVE  PfInv'
<1>1. fwdBox' \in [FwdBoxes -> BoxRecords] /\ fwdBox'[s] = new /\ \A t \in FwdBoxes \ {s} : fwdBox'[t] = fwdBox[t]
  BY DEF PfInv
<1>2. SlotsApart'
  BY <1>1 DEF PfInv, SlotsApart
<1>3. \A r \in Forwards : ForwardOK(forward[r])'
  <2> SUFFICES ASSUME NEW r \in Forwards PROVE ForwardOK(forward[r])'
    OBVIOUS
  <2>1. ForwardOK(forward[r])
    BY DEF PfInv
  <2>2. Resolved(forward[r]) => Resolved(forward[r])'
    BY <1>1, ForwardAssumption DEF Resolved
  <2> QED
    BY <2>1, <2>2 DEF ForwardOK, Carried
<1> QED
  BY <1>1, <1>2, <1>3 DEF PfInv

LEMMA BoxKeeps ==
    ASSUME PfInv, NEW s \in FwdBoxes, BoxStarts(s) \/ BoxPauses(s) \/ BoxResumes(s)
    PROVE  PfInv'
<1>0. fwdBox \in [FwdBoxes -> BoxRecords] /\ fwdBox[s] \in BoxRecords
  BY DEF PfInv
<1>1. CASE BoxStarts(s)
  <2>1. PICK k \in FwdSlots : InSlot(k) = "none" /\ fwdBox' = [fwdBox EXCEPT ![s] = [state |-> "running", slot |-> k]]
    BY <1>1, ZenonT(30) DEF BoxStarts
  <2> DEFINE new == [state |-> "running", slot |-> k]
  <2>2. new \in BoxRecords /\ \A t \in FwdBoxes : fwdBox[t].slot # new.slot
    BY <2>1, InSlotIs DEF BoxRecords
  <2>3. fwdBox[s].slot = "none"
    BY <1>1 DEF PfInv, BoxStarts
  <2> QED
    BY <1>1, <2>1, <2>2, <2>3, BoxKeepsOrTakes, ZenonT(30) DEF BoxStarts
<1>2. CASE BoxPauses(s)
  <2> DEFINE new == [fwdBox[s] EXCEPT !.state = "paused"]
  <2>1. new \in BoxRecords /\ new.slot = fwdBox[s].slot /\ new.state # "absent" /\ fwdBox' = [fwdBox EXCEPT ![s] = new] /\ UNCHANGED <<h2cPool, forward>>
    BY <1>0, <1>2 DEF BoxPauses, BoxRecords
  <2> HIDE DEF new
  <2> QED
    BY <2>1, BoxKeepsOrTakes, ZenonT(30)
<1>3. CASE BoxResumes(s)
  <2> DEFINE new == [fwdBox[s] EXCEPT !.state = "running"]
  <2>1. new \in BoxRecords /\ new.slot = fwdBox[s].slot /\ new.state # "absent" /\ fwdBox' = [fwdBox EXCEPT ![s] = new] /\ UNCHANGED <<h2cPool, forward>>
    BY <1>0, <1>3 DEF BoxResumes, BoxRecords
  <2> HIDE DEF new
  <2> QED
    BY <2>1, BoxKeepsOrTakes, ZenonT(30)
<1> QED
  BY <1>1, <1>2, <1>3

\* A sandbox that is destroyed gives up its slot, and whoever was resolved to it knows.
LEMMA BoxDestroyedKeeps == ASSUME PfInv, NEW s \in FwdBoxes, BoxDestroyed(s) PROVE PfInv'
<1> DEFINE gone == [state |-> "gone", slot |-> "none"]
           Told(r) == [forward[r] EXCEPT !.resolvedThenGone = TRUE]
<1>1. fwdBox \in [FwdBoxes -> BoxRecords] /\ gone \in BoxRecords /\ fwdBox' = [fwdBox EXCEPT ![s] = gone] /\ UNCHANGED h2cPool
  BY DEF PfInv, BoxDestroyed, BoxRecords
<1>2. fwdBox' \in [FwdBoxes -> BoxRecords] /\ fwdBox'[s] = gone /\ \A t \in FwdBoxes \ {s} : fwdBox'[t] = fwdBox[t]
  BY <1>1
<1>3. SlotsApart' /\ \A t \in FwdBoxes : fwdBox'[t].state = "absent" => fwdBox'[t].slot = "none"
  BY <1>2 DEF PfInv, SlotsApart
<1>4. forward' = [r \in Forwards |-> IF forward[r].box = s THEN Told(r) ELSE forward[r]]
  BY DEF BoxDestroyed
<1>5. \A r \in Forwards : forward'[r] \in FwdRecords /\ ForwardOK(forward[r])'
  <2> SUFFICES ASSUME NEW r \in Forwards PROVE forward'[r] \in FwdRecords /\ ForwardOK(forward[r])'
    OBVIOUS
  <2>1. forward[r] \in FwdRecords /\ ForwardOK(forward[r])
    BY DEF PfInv
  <2>2. CASE forward[r].box # s
    <3>1. forward'[r] = forward[r]
      BY <1>4, <2>2
    <3>2. Resolved(forward[r]) => Resolved(forward[r])'
      BY <1>2, <2>2, <3>1 DEF Resolved
    <3> QED
      BY <2>1, <3>1, <3>2 DEF ForwardOK, Carried
  <2>3. CASE forward[r].box = s
    <3>1. forward'[r] = Told(r) /\ TRUE \in Flags
      BY <1>4, <2>3 DEF Flags
    <3>2. /\ Told(r) \in FwdRecords /\ Told(r).resolvedThenGone = TRUE
          /\ Told(r).pc = forward[r].pc /\ Told(r).box = forward[r].box /\ Told(r).port = forward[r].port
          /\ Told(r).slot = forward[r].slot /\ Told(r).token = forward[r].token /\ Told(r).conn = forward[r].conn
          /\ Told(r).by = forward[r].by
      BY <2>1, <3>1, ZenonT(30) DEF FwdRecords
    <3> HIDE DEF Told
    <3> QED
      BY <2>1, <3>1, <3>2 DEF ForwardOK, Resolved, Carried
  <2> QED
    BY <2>2, <2>3
<1>6. forward' \in [Forwards -> FwdRecords]
  BY <1>4, <1>5
<1> QED
  BY <1>1, <1>2, <1>3, <1>5, <1>6 DEF PfInv

LEMMA PfInvStutter == PfInv /\ UNCHANGED fwdVars => PfInv'
  BY DEF PfInv, SlotsApart, ForwardOK, Resolved, Carried, fwdVars

LEMMA PfInvStep == PfInv /\ [PfNext]_fwdVars => PfInv'
  BY ServeHTTPKeeps, DialTargetKeeps, ReuseConnectionKeeps, SandboxAnswersKeeps, RequestLeavesKeeps, BoxKeeps,
     BoxDestroyedKeeps, PfInvStutter DEF PfNext

LEMMA PfInvAnswers == PfInv => AnsweredByItsSandbox
  BY DEF PfInv, ForwardOK, Resolved, AnsweredByItsSandbox

\* What answers a request to the agent's port is the agent of the sandbox it named, whatever
\* connection it rode; what answers one to a user's port is that sandbox, unless it was
\* destroyed after the request was resolved; and no user's port is handed a token
\* (ServeHTTP, TargetFor, transportFor, authorize).
THEOREM ForwardsAnsweredRightly == PfSpec => []AnsweredByItsSandbox
<1>1. PfInit => PfInv
  BY PfInvInit
<1>2. PfInv /\ [PfNext]_fwdVars => PfInv'
  BY PfInvStep
<1>3. PfInv => AnsweredByItsSandbox
  BY PfInvAnswers
<1> QED
  BY <1>1, <1>2, <1>3, PTL DEF PfSpec
=============================================================================
