-------------------------------- MODULE Uffd --------------------------------
(***************************************************************************)
(* The page-fault handler of one restored guest (uffd_linux.go): bound     *)
(* before the load, handed a userfault descriptor by Firecracker, serving  *)
(* the guest's faults out of the snapshot's memory image, and closed by    *)
(* killVMM or by a load that failed while its goroutine may be anywhere.   *)
(*                                                                         *)
(* The mutex covers the descriptor, the flag closed and the removed pages. *)
(* The image is read without it.                                           *)
(***************************************************************************)
EXTENDS Naturals, Sequences, FiniteSets

CONSTANTS
    ImagePages,    \* pages the memory image holds
    BeyondPages,   \* pages past the image's end
    MaxDiscards    \* bound: pages the guest gives back

ASSUME UffdAssumption == ImagePages \cap BeyondPages = {} /\ MaxDiscards \in Nat

GuestPages == ImagePages \cup BeyondPages

VARIABLES
    serving,   \* the goroutine: where it is, and the message it works on
    inbox,     \* what Firecracker still has to send: the descriptor, the layout
    fds,       \* descriptors noded holds: the userfault fd, a memfd sent with it
    uffd,      \* h.uffd, -1 or the descriptor; and h.closed
    mapped,    \* whether the image is mapped
    events,    \* messages queued on the userfault descriptor
    page,      \* page -> what the guest sees there
    removed,   \* h.removed
    uffdErr,   \* h.failed
    discards   \* pages the guest gave back

uffdVars == <<serving, inbox, fds, uffd, mapped, events, page, removed, uffdErr, discards>>

UGo(pc) == serving' = [serving EXCEPT !.pc = pc]
UAt(pc) == serving.pc = pc

\* newUffdHandler, and Firecracker told to load.
UffdInit ==
    /\ serving = [pc |-> "accept", got |-> {}, msg |-> <<>>]
    /\ inbox = {"fd", "memfd", "layout"} /\ fds = {} /\ uffd = [fd |-> FALSE, closed |-> FALSE]
    /\ mapped = TRUE /\ events = <<>> /\ page = [p \in GuestPages |-> "absent"]
    /\ removed = {} /\ uffdErr = FALSE /\ discards = {}

\* No handler: a guest that was booted.
UffdGone ==
    /\ serving = [pc |-> "ended", got |-> {}, msg |-> <<>>]
    /\ inbox = {} /\ fds = {} /\ uffd = [fd |-> FALSE, closed |-> TRUE]
    /\ mapped = FALSE /\ events = <<>> /\ page = [p \in GuestPages |-> "zero"]
    /\ removed = {} /\ uffdErr = FALSE /\ discards = GuestPages

\* AcceptUnix, which a Close of the listener ends.
Accept ==
    /\ UAt("accept")
    /\ IF uffd.closed THEN UGo("ended") /\ uffdErr' = TRUE ELSE UGo("recv") /\ uffdErr' = uffdErr
    /\ UNCHANGED <<inbox, fds, uffd, mapped, events, page, removed, discards>>

\* Mutant of Timeout: the deadline ends the goroutine and nobody is told.
TimeoutQuiet == UGo("ended") /\ fds' = {} /\ UNCHANGED <<uffdErr, inbox>>

\* recvUffd fails when its deadline passes, and closes what came.
Timeout == UGo("ended") /\ fds' = {} /\ uffdErr' = TRUE /\ inbox' = inbox

\* recvUffd reads until it has both; the descriptors come in one message, the
\* layout with it or in another. All but the first are closed.
RecvUffd ==
    /\ UAt("recv")
    /\ \/ \E part \in {{"fd", "memfd"}, {"layout"}, {"fd", "memfd", "layout"}} :
            /\ part \subseteq inbox
            /\ inbox' = inbox \ part
            /\ serving' = [serving EXCEPT !.got = @ \cup (part \ {"memfd"}),
                             !.pc = IF inbox \ part = {} THEN "install" ELSE "recv"]
            /\ fds' = fds \cup (part \cap {"fd"}) /\ uffdErr' = uffdErr
       \/ Timeout
    /\ UNCHANGED <<uffd, mapped, events, page, removed, discards>>

\* run, under the mutex.
Install ==
    /\ UAt("install")
    /\ IF uffd.closed THEN fds' = {} /\ UGo("ended") /\ uffd' = uffd
       ELSE uffd' = [uffd EXCEPT !.fd = TRUE] /\ UGo("read") /\ fds' = fds
    /\ UNCHANGED <<inbox, mapped, events, page, removed, uffdErr, discards>>

\* readMsg, and serve's switch on the event.
ReadMsg ==
    /\ UAt("read")
    /\ IF uffd.closed THEN UGo("ended") /\ UNCHANGED <<events, removed>>
       ELSE /\ events # <<>> /\ events' = Tail(events)
            /\ IF Head(events).event = "pagefault"
               THEN serving' = [serving EXCEPT !.pc = "fill", !.msg = Head(events)] /\ removed' = removed
               ELSE removed' = removed \cup {Head(events).page} /\ UGo("read")
    /\ UNCHANGED <<inbox, fds, uffd, mapped, page, uffdErr, discards>>

\* Mutant of Answer: pages given back are not remembered.
AnswerForgets(p) == IF p \in BeyondPages THEN "zero" ELSE "data"

\* What fill puts into a page.
Answer(p) == IF p \in removed \/ p \in BeyondPages THEN "zero" ELSE "data"

\* fill took the descriptor under the mutex, and uses it and the image without:
\* after a Close the ioctl fails, or the image it indexes is nil.
Fill ==
    LET p == serving.msg.page
    IN  /\ UAt("fill")
        /\ \/ "fd" \in fds /\ (Answer(p) = "zero" \/ mapped) /\ uffdErr' = uffdErr /\ UGo("read")
              /\ page' = [page EXCEPT ![p] = IF @ = "waits" THEN Answer(p) ELSE @]
           \/ "fd" \notin fds /\ uffdErr' = TRUE /\ UGo("ended") /\ page' = page
           \/ Answer(p) = "data" /\ ~mapped /\ uffdErr' = TRUE /\ UGo("panic") /\ page' = page
        /\ UNCHANGED <<inbox, fds, uffd, mapped, events, removed, discards>>

----------------------------------------------------------------------------
(* Close *)

CloseMark ==
    /\ ~uffd.closed
    /\ uffd' = [uffd EXCEPT !.closed = TRUE, !.fd = FALSE]
    /\ fds' = IF uffd.fd THEN fds \ {"fd"} ELSE fds
    /\ UNCHANGED <<serving, inbox, mapped, events, page, removed, uffdErr, discards>>
Munmap ==
    /\ uffd.closed /\ mapped /\ mapped' = FALSE
    /\ UNCHANGED <<serving, inbox, fds, uffd, events, page, removed, uffdErr, discards>>

----------------------------------------------------------------------------
(* The guest *)

Touch(p) ==
    /\ page[p] = "absent"
    /\ page' = [page EXCEPT ![p] = "waits"]
    /\ events' = Append(events, [event |-> "pagefault", page |-> p])
    /\ UNCHANGED <<serving, inbox, fds, uffd, mapped, removed, uffdErr, discards>>
Discard(p) ==
    /\ page[p] \in {"data", "zero"} /\ Cardinality(discards) < MaxDiscards
    /\ discards' = discards \cup {p}
    /\ page' = [page EXCEPT ![p] = "absent"]
    /\ events' = Append(events, [event |-> "remove", page |-> p])
    /\ UNCHANGED <<serving, inbox, fds, uffd, mapped, removed, uffdErr>>

HandlerStep == Accept \/ RecvUffd \/ Install \/ ReadMsg \/ Fill
UffdNext ==
    HandlerStep \/ CloseMark \/ Munmap \/ \E p \in GuestPages : Touch(p) \/ Discard(p)
UffdFairness == WF_uffdVars(HandlerStep) /\ WF_uffdVars(Munmap)
UffdSpec == UffdInit /\ [][UffdNext]_uffdVars /\ UffdFairness

----------------------------------------------------------------------------
(* Properties *)

\* run and Close: whichever comes first, once both are through the handler
\* holds no descriptor of the guest and no mapping of its image.
HandlerReleases ==
    UAt("ended") /\ uffd.closed /\ ~mapped => fds = {}

\* serve: a page the guest gave back is zero when it comes back; "reading the
\* image again would resurrect data the guest has already discarded".
DiscardedStaysGone ==
    \A p \in GuestPages : page[p] = "data" => p \notin discards

\* Both of the above, of one handler.
UffdSound == HandlerReleases /\ DiscardedStaysGone

\* A guest that waits for a page gets it, unless the handler was closed or
\* reports that it failed.
FaultAnswered ==
    \A p \in GuestPages : page[p] = "waits" ~> page[p] # "waits" \/ uffd.closed \/ uffdErr
=============================================================================
