----------------------------- MODULE EventFanout -----------------------------
(***************************************************************************)
(* The way of an event from the manager to the browsers in one process:    *)
(* shared/events/memory.go (MemoryBridge, one subscription), the pump      *)
(* goroutine that ranges over it, shared/sse/hub.go (Hub) and the          *)
(* SSEStream handler of every connected client.  Each buffer drops what    *)
(* does not fit.                                                           *)
(***************************************************************************)
EXTENDS TaskModel

CONSTANTS
    Clients,        \* the browser pages that may open GET /events
    ClientUser,     \* [Clients -> UserIDs]: the identity each sends
    BusCap,         \* capacity of a MemoryBridge subscription (64)
    SubCap          \* capacity of a Hub subscription (64)

ASSUME ClientUserAssumption == ClientUser \in [Clients -> UserIDs]
ASSUME FanoutCapAssumption == BusCap \in Nat \ {0} /\ SubCap \in Nat \ {0}

VARIABLES
    bus,        \* the subscription's channel: contents, in m.live, closed
    pump,       \* the goroutine "for ev := range ch { hub.Publish(ev) }"
    sub,        \* Hub.userSubs: is the client's channel registered
    sseCh,      \* the client's channel
    lastSeen    \* the last event of each task written to the client

fanoutVars == <<bus, pump, sub, sseCh, lastSeen>>

PumpPc == {"range", "publish", "exit"}

FanoutTypeOK ==
    /\ bus \in [buf : Seq(Event), live : BOOLEAN, closed : BOOLEAN]
    /\ Len(bus.buf) <= BusCap
    /\ pump \in [pc : PumpPc, ev : Event \cup {NoEvent}]
    /\ pump.pc = "publish" => pump.ev \in Event
    /\ sub \in [Clients -> BOOLEAN]
    /\ sseCh \in [Clients -> Seq(Event)]
    /\ \A c \in Clients : Len(sseCh[c]) <= SubCap
    /\ lastSeen \in [Clients -> [Tasks -> Event \cup {NoEvent}]]

FanoutInit ==
    /\ bus = [buf |-> <<>>, live |-> TRUE, closed |-> FALSE]
    /\ pump = [pc |-> "range", ev |-> NoEvent]
    /\ sub = [c \in Clients |-> FALSE]
    /\ sseCh = [c \in Clients |-> <<>>]
    /\ lastSeen = [c \in Clients |-> [t \in Tasks |-> NoEvent]]

-----------------------------------------------------------------------------
(* A non-blocking send: dropped when the buffer is full.                   *)
Offer(ch, ev, cap) == IF Len(ch) < cap THEN Append(ch, ev) ELSE ch

(* MemoryBridge.Publish: the map of live channels is iterated under the    *)
(* mutex.                                                                  *)
BridgePublish(ev) ==
    /\ bus' = [bus EXCEPT !.buf = IF bus.live THEN Offer(@, ev, BusCap) ELSE @]
    /\ UNCHANGED <<pump, sub, sseCh, lastSeen>>

(* The goroutine started by Subscribe, once its context is done: delete    *)
(* from the map under the mutex, then close outside it.                    *)
BridgeDelete ==
    /\ bus.live
    /\ bus' = [bus EXCEPT !.live = FALSE]
    /\ UNCHANGED <<pump, sub, sseCh, lastSeen>>

BridgeClose ==
    /\ ~bus.live
    /\ ~bus.closed
    /\ bus' = [bus EXCEPT !.closed = TRUE]
    /\ UNCHANGED <<pump, sub, sseCh, lastSeen>>

-----------------------------------------------------------------------------
(* The pump; a closed channel is drained before range ends.                *)

PumpReceive ==
    /\ pump.pc = "range"
    /\ bus.buf # <<>>
    /\ pump' = [pc |-> "publish", ev |-> Head(bus.buf)]
    /\ bus' = [bus EXCEPT !.buf = Tail(@)]
    /\ UNCHANGED <<sub, sseCh, lastSeen>>

PumpExit ==
    /\ pump.pc = "range"
    /\ bus.buf = <<>>
    /\ bus.closed
    /\ pump' = [pump EXCEPT !.pc = "exit"]
    /\ UNCHANGED <<bus, sub, sseCh, lastSeen>>

(* Mutant of HubSubscribers: every channel of every user.                  *)
HubBroadcast(u) == {c \in Clients : sub[c]}

(* Hub.Publish: every channel registered under ev.UserID.                  *)
HubSubscribers(u) == {c \in Clients : sub[c] /\ ClientUser[c] = u}

HubPublish ==
    /\ pump.pc = "publish"
    /\ sseCh' = [c \in Clients |->
                    IF c \in HubSubscribers(pump.ev.user)
                    THEN Offer(sseCh[c], pump.ev, SubCap) ELSE sseCh[c]]
    /\ pump' = [pc |-> "range", ev |-> NoEvent]
    /\ UNCHANGED <<bus, sub, lastSeen>>

-----------------------------------------------------------------------------
(* The SSEStream handler: Subscribe with a new channel, one write per      *)
(* event received, and the deferred unsubscribe when the request ends.     *)
(* EventSource reconnects by itself, so a page may connect again and keeps *)
(* what it has shown.                                                      *)

SSEConnect(c) ==
    /\ ~sub[c]
    /\ sub' = [sub EXCEPT ![c] = TRUE]
    /\ UNCHANGED <<bus, pump, sseCh, lastSeen>>

SSEWrite(c) ==
    /\ sub[c]
    /\ sseCh[c] # <<>>
    /\ lastSeen' = [lastSeen EXCEPT ![c][Head(sseCh[c]).task] = Head(sseCh[c])]
    /\ sseCh' = [sseCh EXCEPT ![c] = Tail(@)]
    /\ UNCHANGED <<bus, pump, sub>>

SSEDisconnect(c) ==
    /\ sub[c]
    /\ sub' = [sub EXCEPT ![c] = FALSE]
    /\ sseCh' = [sseCh EXCEPT ![c] = <<>>]
    /\ UNCHANGED <<bus, pump, lastSeen>>
=============================================================================
