---------------------------- MODULE RendererClient ----------------------------
(***************************************************************************)
(* The renderer client owns a renderer session and the transport it        *)
(* listens to. A new transport is a candidate until its handshake is       *)
(* over: the active one stays until then, and what the candidate sends     *)
(* meanwhile is kept for the session. The client calls the host back while *)
(* it retires a transport, when a new one is active and for every message  *)
(* it replays, and the host may call the client again from there.          *)
(***************************************************************************)
EXTENDS Integers, Sequences

CONSTANTS Transports,     \* transports the host may hand over, each at most once
          MaxMessages,    \* bound: messages of one transport
          None

ASSUME ClientAssumption ==
  /\ None \notin Transports
  /\ MaxMessages \in Nat

VARIABLES
  active,      \* activeTransport
  session,     \* the transport the renderer session listens to
  pending,     \* the candidate of pendingReplacement
  generation,  \* connectionGeneration
  transport,   \* the transports: connection, handshake and traffic
  wait         \* a correlated wait of an action: for its result, then for its rendering,
               \* with the connection it is registered on

\* The client's state as one value, for operations that call each other.
client == [active |-> active, session |-> session, pending |-> pending,
           generation |-> generation, transport |-> transport, wait |-> wait]
vars == <<active, session, pending, generation, transport, wait>>

NoWait == [for |-> "nothing", on |-> None]

\* `attempt` is the call that was given the transport, `since` its generation; `sent`
\* counts the messages of the simulator, `buffer` and `seen` are those kept by the
\* handshake and those the session got. History: the buffered messages never replayed
\* (`skipped`), those of another transport that were replayed while the session listened
\* to this one (`foreign`), and whether it was attached while another one was retired.
Unused == [net |-> "new", attempt |-> "none", since |-> 0, mode |-> "unknown", infoFirst |-> FALSE,
           sent |-> 0, buffer |-> <<>>, seen |-> <<>>,
           skipped |-> 0, foreign |-> 0, nested |-> FALSE]

Becomes(k) ==
  /\ active' = k.active /\ session' = k.session /\ pending' = k.pending
  /\ generation' = k.generation /\ transport' = k.transport /\ wait' = k.wait

Init ==
  /\ active = None /\ session = None /\ pending = None
  /\ generation = 0
  /\ transport = [t \in Transports |-> Unused]
  /\ wait = NoWait

\* What a destroyed transport carried is of no interest any more.
Destroy(k, t) ==
  [k EXCEPT !.transport[t] = [Unused EXCEPT !.net = "destroyed", !.attempt = k.transport[t].attempt]]

\* Mutant of Reject: the caller of a superseded attempt is not told.
RejectNothing(k, t) == k

\* An attempt that rejects.
Reject(k, t) == [k EXCEPT !.transport[t].attempt = "rejected"]

-----------------------------------------------------------------------------
(* The operations of the client *)

\* Mutant of CancelPending: the superseded candidate is only forgotten.
ForgetPending(k) ==
  IF k.pending = None THEN k ELSE [Reject(k, k.pending) EXCEPT !.pending = None]

\* A candidate that is superseded: its handshake is aborted, its transport destroyed.
CancelPending(k) ==
  IF k.pending = None THEN k
  ELSE [Destroy(Reject(k, k.pending), k.pending) EXCEPT !.pending = None]

NextGeneration(k) == [k EXCEPT !.generation = @ + 1]

\* Another operation begins.
Supersede(k) == CancelPending(NextGeneration(k))

StartAttempt(k, t) ==
  LET v == Supersede(k)
  IN [v EXCEPT !.pending = t,
               !.transport[t] = [@ EXCEPT !.net = "connecting", !.attempt = "handshake",
                                          !.since = v.generation]]

\* The active transport from now on, one that connects, and reconnects, by itself.
Attach(k, t, nested) ==
  [k EXCEPT !.active = t, !.session = t,
            !.transport[t] = [@ EXCEPT !.net = "connecting", !.attempt = "attached",
                                       !.since = k.generation, !.nested = nested]]

\* What the host does when it is called back: nothing, or one call of the client.
Nothing == [op |-> "nothing", on |-> None]
Disconnecting == [op |-> "disconnect", on |-> None]
HostCalls == {Nothing, Disconnecting} \cup [op : {"connect", "replace", "attach"}, on : Transports]

\* The call c, with d made inside of it.
MayCall(k, c) == c.on # None => k.transport[c.on].attempt = "none"
MayNest(k, c, d) == MayCall(k, c) /\ MayCall(k, d) /\ (c.on # None => c.on # d.on)

\* A call from a listener of the close event, when there is no active transport to retire.
HostCall(k, c) ==
  CASE c.op = "nothing"    -> k
    [] c.op = "disconnect" -> Supersede(k)
    [] c.op = "connect"    -> StartAttempt(Supersede(k), c.on)
    [] c.op = "replace"    -> StartAttempt(k, c.on)
    [] c.op = "attach"     -> Attach(Supersede(k), c.on, TRUE)

\* Outstanding waits end with the connection they are registered on; between the result
\* and the wait for the rendering none is registered.
AbortWaits(k) == IF k.wait.for = "registering" THEN k ELSE [k EXCEPT !.wait = NoWait]

\* releaseActiveTransport: the transport is given up first, so that a listener of its
\* close event meets a client without one; then the session detaches from whatever it
\* listens to by now, and the transport goes.
Release(k, d) ==
  IF k.active = None THEN k
  ELSE LET v == HostCall([AbortWaits(k) EXCEPT !.active = None], d)
       IN Destroy([v EXCEPT !.session = None], k.active)

DisconnectAll(k, d) == Release(Supersede(k), d)

\* A call of the host; a listener of the close event it causes makes the call d.
Perform(k, c, d) ==
  CASE c.op = "nothing"    -> k
    [] c.op = "disconnect" -> DisconnectAll(k, d)
    [] c.op = "connect"    -> StartAttempt(DisconnectAll(k, d), c.on)
    [] c.op = "replace"    -> StartAttempt(k, c.on)
    [] c.op = "attach"     -> Attach(DisconnectAll(k, d), c.on, FALSE)

-----------------------------------------------------------------------------
(* Calls of the host *)

Called(c, d) == MayNest(client, c, d) /\ Becomes(Perform(client, c, d))

Connect(t, d)         == Called([op |-> "connect", on |-> t], d)
ReplaceTransport(t)   == Called([op |-> "replace", on |-> t], Nothing)
AttachTransport(t, d) == Called([op |-> "attach", on |-> t], d)

\* Without a transport it changes nothing.
Disconnect(d) == (active # None \/ pending # None) /\ Called(Disconnecting, d)

\* beginAction over an open connection.
BeginAction ==
  /\ session # None /\ transport[session].net = "open" /\ wait = NoWait
  /\ wait' = [for |-> "result", on |-> session]
  /\ UNCHANGED <<active, session, pending, generation, transport>>

\* The timer of a wait; between the two waits none runs.
WaitTimeout ==
  /\ wait.for \in {"result", "rendering"}
  /\ wait' = NoWait
  /\ UNCHANGED <<active, session, pending, generation, transport>>

-----------------------------------------------------------------------------
(* The handshake, and what the network does *)

Opened(t) ==
  /\ \/ transport[t].net = "connecting"
     \/ transport[t].net = "closed" /\ transport[t].attempt = "attached"
  /\ transport' = [transport EXCEPT ![t].net = "open"]
  /\ UNCHANGED <<active, session, pending, generation, wait>>

\* One more message arrives: for the session if it listens, for the buffer during the
\* handshake, else for nobody.
Arrive(k, t, isInfo) ==
  LET old == k.transport[t]
      n == old.sent + 1
      new == [old EXCEPT !.sent = n,
                         !.seen = IF k.session = t THEN Append(@, n) ELSE @,
                         !.buffer = IF old.attempt \in {"handshake", "ready"} THEN Append(@, n) ELSE @,
                         !.mode = IF isInfo THEN "strict" ELSE @,
                         !.infoFirst = @ \/ (isInfo /\ n = 1)]
  IN [k EXCEPT !.transport[t] = new]

Deliver(t) ==
  /\ transport[t].net = "open" /\ transport[t].sent < MaxMessages
  /\ \E isInfo \in BOOLEAN : Becomes(Arrive(client, t, isInfo))

\* The negotiation of a legacy simulator, which announces nothing.
LegacyMode(t) ==
  /\ t = pending
  /\ transport[t].net = "open" /\ transport[t].mode = "unknown"
  /\ transport' = [transport EXCEPT ![t].mode = "legacy"]
  /\ UNCHANGED <<active, session, pending, generation, wait>>

\* The candidate is rejected and destroyed.
GiveUp(t) == Becomes([Destroy(Reject(client, t), t) EXCEPT !.pending = None])

\* No answer in time, an error, the connection closes, or the host aborts by its signal.
HandshakeFails(t) == t = pending /\ GiveUp(t)

\* Connected, and the mode is known: an announcement that is not the first message is
\* refused; otherwise the attempt goes on when its turn comes.
HandshakeEnds(t) ==
  /\ transport[t].attempt = "handshake"
  /\ transport[t].net = "open" /\ transport[t].mode # "unknown"
  /\ IF transport[t].mode = "strict" /\ ~transport[t].infoFirst
       THEN GiveUp(t)
       ELSE /\ transport' = [transport EXCEPT ![t].attempt = "ready"]
            /\ UNCHANGED <<active, session, pending, generation, wait>>

\* Mutant of Superseded: nobody asks whether the host has changed its mind.
NeverSuperseded(k, v) == FALSE

\* assertCurrent: another operation has begun in between.
Superseded(k, v) == k.generation # v.generation

\* Mutant of TakeBuffer: the buffer as it was before the old transport was retired.
TakeEarlier(v, t) == [v EXCEPT !.transport[t].seen = transport[t].buffer]

\* The session gets what the handshake kept, in wire order.
TakeBuffer(v, t) == [v EXCEPT !.transport[t].seen = v.transport[t].buffer]

\* What the handshake kept is dropped.
SkipBuffer(v, t) == [v EXCEPT !.transport[t].skipped = Len(v.transport[t].buffer)]

\* The rest of a replay, n messages, goes to the transport attached in the middle of it.
Misdirect(v, c, n) ==
  IF c.op = "attach" THEN [v EXCEPT !.transport[c.on].foreign = n] ELSE v

\* t is active, and the outcome of its attempt is decided.
Activated(v, t, outcome) ==
  [v EXCEPT !.active = t, !.session = t, !.transport[t].attempt = outcome]

\* t is active and the session listens to it. The host is told (onActivated), the buffer
\* is replayed, and a state sync is requested. When a callback throws, or the sync cannot
\* be sent, t is retired as any active transport. When the host calls the client from a
\* callback, the attempt is superseded and rejects: what onActivated leaves is not
\* replayed, a replay that has begun goes on to its end; t stays if nothing retired it.
Finish(v, t) ==
  \/ Becomes(TakeBuffer(Activated(v, t, "installed"), t))
  \/ LET r == Activated(v, t, "rejected")
     IN \/ \E d \in HostCalls : MayCall(r, d) /\ Becomes(Release(r, d))
        \/ \E c \in HostCalls \ {Nothing}, d \in HostCalls :
             /\ MayNest(r, c, d)
             /\ \/ Becomes(Perform(SkipBuffer(r, t), c, d))
                \/ \E n \in 0 .. Len(r.transport[t].buffer) - 1 :
                     Becomes(Misdirect(Perform(TakeBuffer(r, t), c, d), c, n))

\* The candidate takes over: the old transport is retired (the host may call, the
\* candidate may send on), then the attempt looks whether it is still the current one.
Install(t) ==
  /\ transport[t].attempt = "ready"
  /\ LET k == [client EXCEPT !.pending = None]
     IN \E c \in HostCalls, late, aborted \in BOOLEAN :
        /\ MayCall(k, c)
        /\ active = None => c = Nothing /\ ~late
        /\ late => transport[t].sent < MaxMessages
        /\ LET v == Release(IF late THEN Arrive(k, t, FALSE) ELSE k, c)
           IN IF Superseded(k, v) \/ aborted
                THEN Becomes(Destroy(Reject(v, t), t))
                ELSE Finish(v, t)

ActionResult ==
  /\ wait.for = "result" /\ transport[wait.on].net = "open"
  /\ wait' = [for |-> "registering", on |-> None]
  /\ UNCHANGED <<active, session, pending, generation, transport>>

\* The wait for the rendering is registered when the code that awaited the result goes
\* on: it is over if the rendering has been seen or the client is not connected, else
\* it belongs to the connection of that moment.
AwaitRendering ==
  /\ wait.for = "registering"
  /\ \/ wait' = NoWait
     \/ /\ session # None /\ transport[session].net = "open"
        /\ wait' = [for |-> "rendering", on |-> session]
  /\ UNCHANGED <<active, session, pending, generation, transport>>

Rendered ==
  /\ wait.for = "rendering"
  /\ wait' = NoWait
  /\ UNCHANGED <<active, session, pending, generation, transport>>

\* The other side closes the connection: if the session listens, waits end and the host
\* may act. The client keeps the transport, which may reconnect.
RemoteClose(t) ==
  /\ transport[t].net = "open" /\ t # pending
  /\ LET closed(k) == [k EXCEPT !.transport[t].net = "closed"]
     IN IF session = t
          THEN \E c, d \in HostCalls :
                 /\ MayNest(client, c, d)
                 /\ Becomes(Perform(closed(AbortWaits(client)), c, d))
          ELSE Becomes(closed(client))

Network(t) == Opened(t) \/ Deliver(t) \/ LegacyMode(t) \/ RemoteClose(t)
Attempt(t) == HandshakeEnds(t) \/ HandshakeFails(t) \/ Install(t)

Next ==
  \/ \E t \in Transports :
       \/ \E d \in HostCalls : Connect(t, d) \/ AttachTransport(t, d)
       \/ ReplaceTransport(t) \/ Network(t) \/ Attempt(t)
  \/ \E d \in HostCalls : Disconnect(d)
  \/ BeginAction \/ WaitTimeout \/ ActionResult \/ AwaitRendering \/ Rendered

Spec == Init /\ [][Next]_vars
-----------------------------------------------------------------------------
(* Properties *)

\* Types; the candidate is the transport with an attempt under way.
TypeOK ==
  /\ active \in Transports \cup {None} /\ pending \in Transports \cup {None}
  /\ session \in Transports \cup {None}
  /\ generation \in Nat
  /\ \A t \in Transports :
       /\ transport[t].net \in {"new", "connecting", "open", "closed", "destroyed"}
       /\ transport[t].attempt \in {"none", "handshake", "ready", "installed", "attached", "rejected"}
       /\ transport[t].attempt \in {"handshake", "ready"} <=> t = pending
       /\ transport[t].sent \in 0 .. MaxMessages /\ transport[t].since \in 0 .. generation
       /\ transport[t].skipped \in 0 .. transport[t].sent /\ transport[t].foreign \in Nat
  /\ wait.for \in {"nothing", "result", "registering", "rendering"}

\* Whatever was handed over is the active transport, the candidate, or destroyed, and the
\* session listens to the active one. The exception is a transport that a close listener
\* attached while another one was retired (RendererClient.ts:69-74 inside 150-163): the
\* session is detached from it, and an attachTransport that goes on afterwards forgets it
\* alive. A registered wait belongs to the open connection the session listens to: it ends
\* with it. (Between the result and the wait for the rendering none is registered, so the
\* latter may belong to a later connection than the result came over: AwaitRendering.)
EveryTransportIsOwned ==
  /\ active # None => active # pending
  /\ session = IF active # None /\ ~transport[active].nested THEN active ELSE None
  /\ \A t \in Transports :
       /\ t \in {active, pending} => transport[t].net \in {"connecting", "open", "closed"}
       /\ transport[t].net \in {"connecting", "open", "closed"} =>
            t \in {active, pending} \/ transport[t].nested
  /\ wait.for \in {"result", "rendering"} =>
       wait.on = session /\ session # None /\ transport[session].net = "open"

\* A swap loses nothing and reorders nothing: the session has got every message of the
\* transport it listens to, those that arrived before it listened included. The exception
\* is the buffer of a transport whose onActivated began another operation
\* (RendererClient.ts:118-128): it is lost as a whole, the attempt rejects, and what comes
\* later is again complete. Nor does the session take another transport's messages for
\* those of a transport that has been installed.
NothingLostInTheSwap ==
  session # None =>
    LET t == transport[session]
    IN /\ t.seen = [i \in 1 .. t.sent - t.skipped |-> i + t.skipped]
       /\ t.skipped > 0 => t.attempt = "rejected" /\ t.skipped = Len(t.buffer)
       /\ t.foreign > 0 => t.attempt = "attached"

\* The last operation wins: an attempt succeeds only if no other operation began after
\* it, the ones that began while the old transport was retired included.
LatestOperationWins ==
  [][\A t \in Transports :
       transport[t].attempt # "installed" /\ transport'[t].attempt = "installed"
         => transport[t].since = generation']_vars
=============================================================================
