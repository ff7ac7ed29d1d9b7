----------------------------- MODULE EventRelay -----------------------------
(***************************************************************************)
(* The API process of Patterns 2 to 5 and the page it serves.  The API     *)
(* holds no task: it sends submissions and queries to the manager          *)
(* (shared/client, or gRPC in Pattern 4) and relays the manager's events   *)
(* into its own hub, over an SSE stream (Patterns 2 and 3), a gRPC stream  *)
(* (4) or NATS (5).  The page gets its cards from POST /tasks or from the  *)
(* index and brings them up to date from events and from one GET per card. *)
(* Patterns 2 to 4 have one manager with the store in its memory.  In      *)
(* Pattern 5 several managers share the store, each with a runEventLoop of *)
(* its own, and a task may be executed more than once.  Of an execution    *)
(* only the status events are kept: progress does not touch a card's       *)
(* status.                                                                 *)
(***************************************************************************)
EXTENDS ManagerCore

CONSTANTS
    Managers,       \* the manager processes of Pattern 5
    Kinds,          \* the transports of the relay: "sse", "grpc", "nats"
    FeedCap,        \* capacity of the manager's side (64 or 100)
    OutCap,         \* capacity of the API's side (64, 100 or 256)
    SubCap,         \* capacity of a hub subscription (64)
    MaxFaults       \* bound on broken links, failed calls, repeats, crashes, reloads

ASSUME RelayAssumption ==
    /\ Managers # {}
    /\ Kinds \subseteq {"sse", "grpc", "nats"}
    /\ {FeedCap, OutCap, SubCap} \subseteq Nat \ {0}
    /\ MaxFaults \in Nat

VARIABLES
    kind,       \* the transport
    due,        \* [Tasks]: its executions that are still to report "running"
    going,      \* [Tasks]: its executions that are still to report their ending
    loops,      \* [Managers]: runEventLoop: where it is and the event it holds
    repeated,   \* the tasks that may be recorded more than once
    recorded,   \* [Tasks]: history: the endings the store has had
    link,       \* the relay's subscription: "down", "up", or "dead" for good
    feed,       \* events the manager's side holds for this API
    out,        \* the channel the API's pump ranges over
    page,       \* the page's EventSource is connected
    sseCh,      \* its channel in the hub
    post,       \* [Tasks]: the answer of POST /tasks: "none", "sent", "shown"
    card,       \* [Tasks]: the status the card shows, "none" without a card
    fetch,      \* [Tasks]: syncCardState: "none", "asked", or the answer
    missed,     \* the tasks whose ending was dropped, not listened to or not sent
    overwritten,\* the tasks whose card was set back by an older answer or event
    skipped,    \* the tasks whose ending came before their card
    unanswered, \* of those the tasks whose syncCardState got no answer
    faults      \* the faults so far

execVars == <<due, going, repeated>>
managerVars == <<mgrVars, execVars, loops, recorded>>
relayVars == <<kind, link, feed, out>>
behindVars == <<overwritten, skipped, unanswered>>
pageVars == <<page, sseCh, post, card, fetch, behindVars>>
vars == <<managerVars, relayVars, pageVars, missed, faults>>

Shown == TaskStatus \cup {"undefined"}

(* Type invariant of manager, relay and page.                              *)
TypeOK ==
    /\ MgrTypeOK
    /\ kind \in Kinds
    /\ due \in [Tasks -> Nat] /\ going \in [Tasks -> Nat]
    /\ loops \in [Managers -> [pc : {"receive", "persist", "publish"},
                               ev : Event \cup {NoEvent}]]
    /\ \A m \in Managers : loops[m].pc # "receive" => loops[m].ev \in Event
    /\ repeated \subseteq Tasks
    /\ recorded \in [Tasks -> SUBSET Terminal]
    /\ link \in {"down", "up", "dead"}
    /\ feed \in Seq(Event) /\ Len(feed) <= FeedCap
    /\ out \in Seq(Event) /\ Len(out) <= OutCap
    /\ page \in BOOLEAN
    /\ sseCh \in Seq(Event) /\ Len(sseCh) <= SubCap
    /\ post \in [Tasks -> {"none", "sent", "shown"}]
    /\ card \in [Tasks -> Shown \cup {"none"}]
    /\ fetch \in [Tasks -> Shown \cup {"none", "asked"}]
    /\ missed \subseteq Tasks /\ overwritten \subseteq Tasks
    /\ skipped \subseteq Tasks /\ unanswered \subseteq Tasks
    /\ faults \in 0..MaxFaults

(* NewAPI has called Subscribe; the subscription itself is still to come.  *)
Init ==
    /\ MgrInit
    /\ kind \in Kinds
    /\ due = [t \in Tasks |-> 0] /\ going = [t \in Tasks |-> 0]
    /\ loops = [m \in Managers |-> [pc |-> "receive", ev |-> NoEvent]]
    /\ repeated = {}
    /\ recorded = [t \in Tasks |-> {}]
    /\ link = "down" /\ feed = <<>> /\ out = <<>>
    /\ page = FALSE /\ sseCh = <<>>
    /\ post = [t \in Tasks |-> "none"]
    /\ card = [t \in Tasks |-> "none"]
    /\ fetch = [t \in Tasks |-> "none"]
    /\ missed = {} /\ overwritten = {} /\ skipped = {} /\ unanswered = {}
    /\ faults = 0

Fault == faults < MaxFaults /\ faults' = faults + 1

Ends(evs) == {evs[i].task : i \in {j \in 1..Len(evs) : IsTerminal(evs[j])}}

(* A send that does not wait: the event is dropped when there is no room.  *)
Offer(ch, ev, cap) == IF Len(ch) < cap THEN Append(ch, ev) ELSE ch

Dropped(ch, ev, cap) == IF Len(ch) < cap THEN {} ELSE Ends(<<ev>>)

-----------------------------------------------------------------------------
(* POST /tasks at the API, forwarded to the manager.                       *)

(* The card is rendered from the task the API built: "pending".            *)
Submit(t) ==
    /\ SubmitAccepted(t, NoUser, 1)
    /\ due' = [due EXCEPT ![t] = 1]
    /\ post' = [post EXCEPT ![t] = "sent"]
    /\ UNCHANGED <<going, repeated, loops, recorded, relayVars, page, sseCh, card, fetch,
                   behindVars, missed, faults>>

(* The call to the manager timed out although the manager took the task:   *)
(* the API answers 500 and the page gets no card.                          *)
SubmitUnanswered(t) ==
    /\ Fault
    /\ SubmitAccepted(t, NoUser, 1)
    /\ due' = [due EXCEPT ![t] = 1]
    /\ UNCHANGED <<going, repeated, loops, recorded, relayVars, pageVars, missed>>

(* The manager refuses the task and the API answers with its error: Create *)
(* comes first, then Dispatch ...                                          *)
CreateOnly(t) ==
    /\ Fault
    /\ SubmitCreate(t, NoUser, 1)
    /\ UNCHANGED <<execVars, loops, recorded, relayVars, pageVars, missed>>

(* ... which fails; in Pattern 5 the message may be stored all the same,   *)
(* and the task is executed although its row becomes "failed" ...          *)
DispatchRefused(t) ==
    /\ SubmitRefused(t, "other")
    /\ \/ UNCHANGED <<due, repeated>>
       \/ /\ kind = "nats"
          /\ due' = [due EXCEPT ![t] = 1]
          /\ repeated' = repeated \cup {t}
    /\ UNCHANGED <<going, loops, recorded, relayVars, pageVars, missed, faults>>

(* ... at last.                                                            *)
RefusalStored(t) ==
    /\ SubmitFail(t)
    /\ recorded' = [recorded EXCEPT ![t] = @ \cup {"failed"}]
    /\ UNCHANGED <<execVars, loops, relayVars, pageVars, missed, faults>>

-----------------------------------------------------------------------------
(* The executions of a task and their events at a manager: runEventLoop.   *)

Serving == IF kind = "nats" THEN Managers ELSE {CHOOSE m \in Managers : TRUE}

(* Mutant of Received: the terminal status is published, not persisted.    *)
ReceivedForgetful(ev) == [pc |-> "publish", ev |-> ev]

(* ReceiveEvent and Get: an ending is persisted first.  There is one user, *)
(* the empty one, so the row adds nothing to the event.                    *)
Received(ev) == [pc |-> IF IsTerminal(ev) THEN "persist" ELSE "publish", ev |-> ev]

(* One manager receives what an execution emits.                           *)
WorkerEvent(m, t) ==
    /\ m \in Serving /\ loops[m].pc = "receive"
    /\ \/ /\ due[t] > 0
          /\ due' = [due EXCEPT ![t] = @ - 1]
          /\ going' = [going EXCEPT ![t] = @ + 1]
          /\ loops' = [loops EXCEPT ![m] = Received(StatusEvent(t, "running"))]
       \/ /\ going[t] > 0
          /\ going' = [going EXCEPT ![t] = @ - 1]
          /\ \E s \in Terminal : loops' = [loops EXCEPT ![m] = Received(StatusEvent(t, s))]
          /\ UNCHANGED due
    /\ UNCHANGED <<mgrVars, repeated, recorded, relayVars, pageVars, missed, faults>>

(* Pattern 5: an overdue task is sent again by a deadline loop, or its     *)
(* message by the broker.  Its last execution goes on, or has ended with   *)
(* its worker or without a manager to receive the ending.                  *)
SentAgain(t) ==
    /\ kind = "nats"
    /\ store[t].dispatchedAt \/ t \in repeated
    /\ Fault
    /\ due' = [due EXCEPT ![t] = @ + 1]
    /\ \/ UNCHANGED going
       \/ going[t] > 0 /\ going' = [going EXCEPT ![t] = @ - 1]
    /\ repeated' = repeated \cup {t}
    /\ UNCHANGED <<mgrVars, loops, recorded, relayVars, pageVars, missed>>

(* SetStatus replaces whatever the row has.                                *)
Persist(m) ==
    /\ loops[m].pc = "persist"
    /\ LET ev == loops[m].ev
       IN  /\ SetStatus(ev.task, ev.status)
           /\ recorded' = [recorded EXCEPT ![ev.task] = @ \cup {ev.status}]
    /\ loops' = [loops EXCEPT ![m].pc = "publish"]
    /\ UNCHANGED <<req, loop, execVars, relayVars, pageVars, missed, faults>>

(* Pattern 5: what the process holds is gone; it is started again.         *)
ManagerCrash(m) ==
    /\ kind = "nats" /\ loops[m].pc # "receive"
    /\ Fault
    /\ loops' = [loops EXCEPT ![m] = [pc |-> "receive", ev |-> NoEvent]]
    /\ missed' = missed \cup Ends(<<loops[m].ev>>)
    /\ UNCHANGED <<mgrVars, execVars, recorded, relayVars, pageVars>>

(* MemoryBridge.Publish (and eventBroadcastLoop, which does the same once  *)
(* more), or NATSBridge.Publish: nobody waits for a subscriber and nothing *)
(* is kept for one that is away.                                           *)
PublishEvent(m) ==
    /\ loops[m].pc = "publish"
    /\ LET ev == loops[m].ev
       IN  IF link = "up"
           THEN /\ feed' = Offer(feed, ev, FeedCap)
                /\ missed' = missed \cup Dropped(feed, ev, FeedCap)
           ELSE missed' = missed \cup Ends(<<ev>>) /\ UNCHANGED feed
    /\ loops' = [loops EXCEPT ![m] = [pc |-> "receive", ev |-> NoEvent]]
    /\ UNCHANGED <<mgrVars, execVars, recorded, kind, link, out, pageVars, faults>>

-----------------------------------------------------------------------------
(* The relay.  From Connected on the manager's side holds a subscription;  *)
(* what Broken leaves in its buffers is gone.                              *)

Connected ==
    /\ link = "down"
    /\ link' = "up"
    /\ UNCHANGED <<managerVars, kind, feed, out, pageVars, missed, faults>>

Broken(then) ==
    /\ link = "up"
    /\ Fault
    /\ link' = then
    /\ feed' = <<>>
    /\ missed' = missed \cup Ends(feed)
    /\ UNCHANGED <<managerVars, kind, out, pageVars>>

(* The next event enters the API's channel: the reader waits for room ...  *)
Taken ==
    /\ feed # <<>>
    /\ Len(out) < OutCap
    /\ out' = Append(out, Head(feed))
    /\ feed' = Tail(feed)
    /\ UNCHANGED <<managerVars, kind, link, pageVars, missed, faults>>

(* ... or drops it.                                                        *)
Offered ==
    /\ feed # <<>>
    /\ out' = Offer(out, Head(feed), OutCap)
    /\ missed' = missed \cup Dropped(out, Head(feed), OutCap)
    /\ feed' = Tail(feed)
    /\ UNCHANGED <<managerVars, kind, link, pageVars, faults>>

(* Patterns 2 and 3: BridgeStream serves what streamEvents asks for, and   *)
(* streamWithReconnect asks again.                                         *)
BridgeStream == kind = "sse" /\ Connected
StreamWithReconnect == kind = "sse" /\ Broken("down")

(* Mutant of StreamEvents: the channel has no bound.                       *)
StreamEventsOver ==
    /\ kind = "sse" /\ feed # <<>>
    /\ out' = Append(out, Head(feed))
    /\ feed' = Tail(feed)
    /\ UNCHANGED <<managerVars, kind, link, pageVars, missed, faults>>

StreamEvents == kind = "sse" /\ Taken

(* Pattern 4: the goroutine of the client returns after the first error.   *)
ServerSubscribe == kind = "grpc" /\ Connected
ClientSubscribe == kind = "grpc" /\ Taken
ClientReturns == kind = "grpc" /\ Broken("dead")

(* Pattern 5: the callback never waits.  The library reconnects, up to the *)
(* default number of attempts.                                             *)
NATSSubscribe == kind = "nats" /\ (Connected \/ Offered)
NATSBreak == kind = "nats" /\ (Broken("down") \/ Broken("dead"))

(* "for ev := range ch { hub.Publish(ev) }"                                *)
Pump ==
    /\ out # <<>>
    /\ out' = Tail(out)
    /\ IF page
       THEN /\ sseCh' = Offer(sseCh, Head(out), SubCap)
            /\ missed' = missed \cup Dropped(sseCh, Head(out), SubCap)
       ELSE missed' = missed \cup Ends(<<Head(out)>>) /\ UNCHANGED sseCh
    /\ UNCHANGED <<managerVars, kind, link, feed, page, post, card, fetch, behindVars, faults>>

-----------------------------------------------------------------------------
(* The page.                                                               *)

(* EventSource connects, and again after an error.                         *)
PageConnect ==
    /\ ~page
    /\ page' = TRUE
    /\ UNCHANGED <<managerVars, relayVars, sseCh, post, card, fetch, behindVars, missed, faults>>

PageBreak ==
    /\ page
    /\ Fault
    /\ page' = FALSE /\ sseCh' = <<>>
    /\ missed' = missed \cup Ends(sseCh)
    /\ UNCHANGED <<managerVars, relayVars, post, card, fetch, behindVars>>

(* The card's class and badge are set whatever they show by then.          *)
SetCard(t, s) ==
    /\ card' = [card EXCEPT ![t] = s]
    /\ overwritten' = IF s \in Terminal THEN overwritten \ {t}
                      ELSE IF card[t] \in Terminal \/ s = "undefined" THEN overwritten \cup {t}
                      ELSE overwritten

(* handleTaskStatus: an event without a card is skipped.                   *)
HandleTaskStatus ==
    /\ sseCh # <<>>
    /\ LET ev == Head(sseCh)
       IN  IF card[ev.task] = "none"
           THEN skipped' = skipped \cup Ends(<<ev>>) /\ UNCHANGED <<card, overwritten>>
           ELSE SetCard(ev.task, ev.status) /\ UNCHANGED skipped
    /\ sseCh' = Tail(sseCh)
    /\ UNCHANGED <<managerVars, relayVars, page, post, fetch, unanswered, missed, faults>>

(* Mutant of InsertCard: the state is not fetched after the insertion.     *)
InsertCardOnly(t) ==
    /\ post[t] = "sent"
    /\ post' = [post EXCEPT ![t] = "shown"]
    /\ card' = [card EXCEPT ![t] = "pending"]
    /\ UNCHANGED <<managerVars, relayVars, page, sseCh, fetch, behindVars, missed, faults>>

(* HTMX inserts the card; htmx:afterSwap calls syncCardState.              *)
InsertCard(t) ==
    /\ post[t] = "sent"
    /\ post' = [post EXCEPT ![t] = "shown"]
    /\ card' = [card EXCEPT ![t] = "pending"]
    /\ fetch' = [fetch EXCEPT ![t] = "asked"]
    /\ UNCHANGED <<managerVars, relayVars, page, sseCh, behindVars, missed, faults>>

(* GET /tasks/:id, answered from the manager's store.                      *)
GetTask(t) ==
    /\ fetch[t] = "asked"
    /\ fetch' = [fetch EXCEPT ![t] = store[t].status]
    /\ UNCHANGED <<managerVars, relayVars, page, sseCh, post, card, behindVars, missed, faults>>

(* Get returns false on any error: 404, whose body has no status.          *)
GetTaskFails(t) ==
    /\ fetch[t] = "asked"
    /\ Fault
    /\ fetch' = [fetch EXCEPT ![t] = "undefined"]
    /\ UNCHANGED <<managerVars, relayVars, page, sseCh, post, card, behindVars, missed>>

(* The fetch is rejected, or its answer is not JSON: nothing catches it.   *)
SyncFails(t) ==
    /\ fetch[t] \in Shown \cup {"asked"}
    /\ Fault
    /\ fetch' = [fetch EXCEPT ![t] = "none"]
    /\ unanswered' = unanswered \cup (skipped \cap {t})
    /\ UNCHANGED <<managerVars, relayVars, page, sseCh, post, card, overwritten, skipped, missed>>

SyncCardState(t) ==
    /\ fetch[t] \in Shown
    /\ SetCard(t, fetch[t])
    /\ fetch' = [fetch EXCEPT ![t] = "none"]
    /\ UNCHANGED <<managerVars, relayVars, page, sseCh, post, skipped, unanswered, missed, faults>>

(* GET /: a new page with the rows of the store, not yet listening.        *)
Index ==
    /\ Fault
    /\ card' = [t \in Tasks |-> IF Exists(t) THEN store[t].status ELSE "none"]
    /\ post' = [t \in Tasks |-> IF Exists(t) THEN "shown" ELSE "none"]
    /\ fetch' = [t \in Tasks |-> "none"]
    /\ page' = FALSE /\ sseCh' = <<>>
    /\ missed' = {} /\ overwritten' = {} /\ skipped' = {} /\ unanswered' = {}
    /\ UNCHANGED <<managerVars, relayVars>>

-----------------------------------------------------------------------------
System ==
    \/ \E m \in Managers : (\E t \in Tasks : WorkerEvent(m, t)) \/ Persist(m) \/ PublishEvent(m)
    \/ \E t \in Tasks :
          DispatchRefused(t) \/ RefusalStored(t) \/ InsertCard(t) \/ GetTask(t) \/ SyncCardState(t)
    \/ BridgeStream \/ StreamEvents \/ ServerSubscribe \/ ClientSubscribe \/ NATSSubscribe
    \/ Pump
    \/ PageConnect \/ HandleTaskStatus

Next ==
    \/ System
    \/ \E t \in Tasks :
          Submit(t) \/ SubmitUnanswered(t) \/ CreateOnly(t) \/ SentAgain(t)
          \/ GetTaskFails(t) \/ SyncFails(t)
    \/ \E m \in Managers : ManagerCrash(m)
    \/ StreamWithReconnect \/ ClientReturns \/ NATSBreak \/ PageBreak \/ Index

Spec == Init /\ [][Next]_vars

(* Faults are bounded, so every behaviour uses its steps up: it is enough  *)
(* that the system does not stop while it can go on.                       *)
FairSpec == Spec /\ WF_vars(System)

-----------------------------------------------------------------------------
(***************************************************************************)
(* Properties.                                                             *)
(***************************************************************************)

(* A card that shows an ending shows one the store has had, through every  *)
(* buffer of the relay, across reconnects and whichever of event, answer   *)
(* and index the card has it from.  It is the one the store has now,       *)
(* unless the task was sent to the workers more than once, or executed     *)
(* although its dispatch had failed: Pattern 5 lets a later execution      *)
(* replace the ending, and managers publish in another order than they     *)
(* write.                                                                  *)
CardTruth ==
    \A t \in Tasks : card[t] \in Terminal =>
        card[t] \in recorded[t] /\ (t \notin repeated => card[t] = store[t].status)

(* The card of an accepted task that ended comes to show the ending, or an *)
(* ending when there were several, although events may be there before the *)
(* card is.  What can keep it behind until the next reload is named: the   *)
(* ending was dropped by a full buffer, came while nobody listened or was  *)
(* lost with its manager; an answer of syncCardState without a status, or  *)
(* an answer or an event older than what the card showed, came last; or    *)
(* the ending came before the card and syncCardState got no answer.  Of a  *)
(* refused task no event tells that its row became "failed".               *)
Settled(t) ==
    IF t \in repeated THEN card[t] \in Terminal ELSE card[t] = store[t].status

Settles ==
    \A t \in Tasks :
        (card[t] # "none" /\ store[t].status \in Terminal /\ HTTPStatus(t) = 202) ~>
        (Settled(t) \/ t \in missed \cup overwritten \cup unanswered)
=============================================================================
