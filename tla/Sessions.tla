------------------------------ MODULE Sessions ------------------------------
(***************************************************************************)
(* Connections that use several documents and sessions                     *)
(* (internal/server/connection.go, hub.go): what a subscribe and a sync    *)
(* note in conn.subs, whom a broadcast spares, and the events and the      *)
(* metrics of a connection's life.  Queues and replays are Delivery's; a   *)
(* message has its document here, and a session the client may choose      *)
(* anew with each message.                                                 *)
(***************************************************************************)
EXTENDS Naturals, FiniteSets

CONSTANTS
    Conn,
    Doc,
    Session,
    Nil,
    MaxMessages   \* bound: subscribe and sync messages in all

SessionsAssumption ==
    /\ Nil \notin Session /\ Nil \notin Conn
    /\ Nil \notin [type : {"subscribe", "sync"}, doc : Doc, session : Session]
    /\ MaxMessages \in Nat

VARIABLES
    phase,        \* a connection: "new", "open", "closed", "deregistered", "gone"
    subs,         \* conn.subs: a session per document, or Nil
    hubDocs,      \* hub.docs
    call,         \* the message a connection's read loop is handling, or Nil
    bc,           \* the Broadcast of a document, which is under its mutex, or Nil
    active,       \* metrics: connectionsActive
    messages,     \* messages handled
    used,         \* history: the sessions a connection used for a document
    connected,    \* history: on_client_connected events, with their connection
    disconnected, \* history: on_client_disconnected events
    echoed        \* history: connections that were sent a change of the only
                  \* session they used for its document

vars == <<phase, subs, hubDocs, call, bc, active, messages,
          used, connected, disconnected, echoed>>

Events == Conn \X Doc \X Session

TypeOK ==
    /\ phase \in [Conn -> {"new", "open", "closed", "deregistered", "gone"}]
    /\ subs \in [Conn -> [Doc -> Session \cup {Nil}]]
    /\ hubDocs \in [Doc -> SUBSET Conn]
    /\ call \in [Conn -> [type : {"subscribe", "sync"}, doc : Doc, session : Session] \cup {Nil}]
    /\ bc \in [Doc -> [by : Conn, targets : SUBSET Conn] \cup {Nil}]
    /\ active \in Nat
    /\ messages \in 0..MaxMessages
    /\ used \in [Conn -> [Doc -> SUBSET Session]]
    /\ connected \subseteq Events
    /\ disconnected \subseteq Events
    /\ echoed \subseteq Conn

Init ==
    /\ phase = [c \in Conn |-> "new"]
    /\ subs = [c \in Conn |-> [d \in Doc |-> Nil]]
    /\ hubDocs = [d \in Doc |-> {}]
    /\ call = [c \in Conn |-> Nil]
    /\ bc = [d \in Doc |-> Nil]
    /\ active = 0
    /\ messages = 0
    /\ used = [c \in Conn |-> [d \in Doc |-> {}]]
    /\ connected = {}
    /\ disconnected = {}
    /\ echoed = {}

Goto(c, p) == phase' = [phase EXCEPT ![c] = p]

\* serve counts the connection and starts to read.
Serve(c) ==
    /\ phase[c] = "new"
    /\ Goto(c, "open")
    /\ active' = active + 1
    /\ UNCHANGED <<subs, hubDocs, call, bc, messages, used, connected, disconnected, echoed>>

\* The read loop takes a message.
Message(c, type, d, s) ==
    /\ phase[c] = "open"
    /\ call[c] = Nil
    /\ messages < MaxMessages
    /\ messages' = messages + 1
    /\ call' = [call EXCEPT ![c] = [type |-> type, doc |-> d, session |-> s]]
    /\ used' = [used EXCEPT ![c][d] = @ \cup {s}]

Return(c) == call' = [call EXCEPT ![c] = Nil]
----------------------------------------------------------------------------
(* Subscribe.                                                              *)

\* Mutant: the session is not noted.
HandleSubscribeUnnoted(c, d, s) ==
    /\ Message(c, "subscribe", d, s)
    /\ UNCHANGED <<phase, subs, hubDocs, bc, active, connected, disconnected, echoed>>

\* handleSubscribe notes the session ...
HandleSubscribe(c, d, s) ==
    /\ Message(c, "subscribe", d, s)
    /\ subs' = [subs EXCEPT ![c][d] = s]
    /\ UNCHANGED <<phase, hubDocs, bc, active, connected, disconnected, echoed>>

\* ... then registers with the hub and fires the connected event.
HubSubscribe(c) ==
    /\ call[c] # Nil
    /\ call[c].type = "subscribe"
    /\ hubDocs' = [hubDocs EXCEPT ![call[c].doc] = @ \cup {c}]
    /\ connected' = connected \cup {<<c, call[c].doc, call[c].session>>}
    /\ Return(c)
    /\ UNCHANGED <<phase, subs, bc, active, messages, used, disconnected, echoed>>
----------------------------------------------------------------------------
(* Sync.                                                                   *)

\* handleSync notes the session of a document it has none for, and submits.
HandleSync(c, d, s) ==
    /\ Message(c, "sync", d, s)
    /\ subs' = [subs EXCEPT ![c][d] = IF @ = Nil THEN s ELSE @]
    /\ UNCHANGED <<phase, hubDocs, bc, active, connected, disconnected, echoed>>

Submitting(c) ==
    /\ call[c] # Nil
    /\ call[c].type = "sync"
    /\ bc[call[c].doc] = Nil

\* Submit fails: there is no broadcast.
SubmitFails(c) ==
    /\ Submitting(c)
    /\ Return(c)
    /\ UNCHANGED <<phase, subs, hubDocs, bc, active, messages, used, connected, disconnected, echoed>>

\* Submit goes through; Broadcast copies the document's subscribers ...
Broadcast(c) ==
    /\ Submitting(c)
    /\ bc' = [bc EXCEPT ![call[c].doc] = [by |-> c, targets |-> hubDocs[call[c].doc]]]
    /\ UNCHANGED <<phase, subs, hubDocs, call, active, messages, used, connected, disconnected, echoed>>

\* ... visits one after another and spares those whose session is the author's ...
Visit(d, c) ==
    /\ bc[d] # Nil
    /\ c \in bc[d].targets
    /\ bc' = [bc EXCEPT ![d].targets = @ \ {c}]
    /\ LET s == call[bc[d].by].session IN
       echoed' = IF subs[c][d] # s /\ used[c][d] = {s} THEN echoed \cup {c} ELSE echoed
    /\ UNCHANGED <<phase, subs, hubDocs, call, active, messages, used, connected, disconnected>>

\* ... and returns, to the author's connection.
BroadcastDone(d) ==
    /\ bc[d] # Nil
    /\ bc[d].targets = {}
    /\ bc' = [bc EXCEPT ![d] = Nil]
    /\ Return(bc[d].by)
    /\ UNCHANGED <<phase, subs, hubDocs, active, messages, used, connected, disconnected, echoed>>
----------------------------------------------------------------------------
(* The end of a connection.                                                *)

\* close, for whatever reason, while the read loop is anywhere.
Close(c) ==
    /\ phase[c] = "open"
    /\ Goto(c, "closed")
    /\ UNCHANGED <<subs, hubDocs, call, bc, active, messages, used, connected, disconnected, echoed>>

\* The documents a connection has a session for.
Subscriptions(c) == {d \in Doc : subs[c][d] # Nil}

\* The read loop has returned: hub.deregister.
Deregister(c) ==
    /\ phase[c] = "closed"
    /\ call[c] = Nil
    /\ hubDocs' = [d \in Doc |-> IF d \in Subscriptions(c) THEN hubDocs[d] \ {c} ELSE hubDocs[d]]
    /\ Goto(c, "deregistered")
    /\ UNCHANGED <<subs, call, bc, active, messages, used, connected, disconnected, echoed>>

\* Mutant: events for what the hub has, which is nothing any more.
FireDisconnectedHub(c) ==
    /\ phase[c] = "deregistered"
    /\ disconnected' = disconnected \cup {<<c, d, subs[c][d]>> : d \in {e \in Doc : c \in hubDocs[e]}}
    /\ active' = active - 1
    /\ Goto(c, "gone")
    /\ UNCHANGED <<subs, hubDocs, call, bc, messages, used, connected, echoed>>

\* fireDisconnected, and serve's deferred ConnectionClosed.
FireDisconnected(c) ==
    /\ phase[c] = "deregistered"
    /\ disconnected' = disconnected \cup {<<c, d, subs[c][d]>> : d \in Subscriptions(c)}
    /\ active' = active - 1
    /\ Goto(c, "gone")
    /\ UNCHANGED <<subs, hubDocs, call, bc, messages, used, connected, echoed>>
----------------------------------------------------------------------------
Next ==
    \/ \E c \in Conn :
         \/ Serve(c) \/ HubSubscribe(c) \/ SubmitFails(c) \/ Broadcast(c)
         \/ Close(c) \/ Deregister(c) \/ FireDisconnected(c)
         \/ \E d \in Doc :
              \/ Visit(d, c)
              \/ \E s \in Session : HandleSubscribe(c, d, s) \/ HandleSync(c, d, s)
    \/ \E d \in Doc : BroadcastDone(d)

Spec == Init /\ [][Next]_vars
----------------------------------------------------------------------------
(* Properties.                                                             *)

\* No echo: a connection that has used one session for a document, whether it
\* subscribed or synced first, is never sent a change of that session, its own or
\* that of another connection of the device.
NoEcho == echoed = {}

\* The end of a connection is complete: the hub has it under no document, whatever
\* mix of subscribes and syncs it handled; each document with a connected event
\* has one disconnected event, under the session it subscribed to it with last;
\* and the gauge counts the connections that are served.
TornDown ==
    /\ \A c \in Conn : phase[c] \in {"deregistered", "gone"} =>
         \A d \in Doc : c \notin hubDocs[d]
    /\ \A c \in Conn, d \in Doc : phase[c] = "gone" =>
         LET ended == {s \in Session : <<c, d, s>> \in disconnected} IN
         /\ ended \subseteq {subs[c][d]}
         /\ (\E s \in Session : <<c, d, s>> \in connected) =>
                ended # {} /\ <<c, d, subs[c][d]>> \in connected
    /\ active = Cardinality({c \in Conn : phase[c] \notin {"new", "gone"}})
=============================================================================
