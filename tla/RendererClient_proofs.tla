------------------------- MODULE RendererClient_proofs -------------------------
(***************************************************************************)
(* The properties of RendererClient.tla, for every set of transports and   *)
(* every number of messages.                                               *)
(*                                                                         *)
(* Good is a predicate on the client's state as a value: it holds between  *)
(* any two operations, and inside one of them when the transports in hand, *)
(* taken out of the client and not yet placed, are named.  Each operation  *)
(* has a lemma about the value it returns.                                 *)
(***************************************************************************)
EXTENDS RendererClient, TLAPS

Nets == {"new", "connecting", "open", "closed", "destroyed"}
AttemptStates == {"none", "handshake", "ready", "installed", "attached", "rejected"}

Transport ==
  [net : Nets, attempt : AttemptStates, since : Nat, mode : {"unknown", "strict", "legacy"},
   infoFirst : BOOLEAN, sent : 0 .. MaxMessages, buffer : Seq(Nat), seen : Seq(Nat),
   skipped : Nat, foreign : Nat, nested : BOOLEAN]

Waits == [for : {"nothing", "result", "registering", "rendering"}, on : Transports \cup {None}]

Client ==
  [active : Transports \cup {None}, session : Transports \cup {None},
   pending : Transports \cup {None}, generation : Nat, transport : [Transports -> Transport],
   wait : Waits]

Live == {"connecting", "open", "closed"}
Trying == {"handshake", "ready"}

\* The numbers of the messages after the first s.
After(s, n) == [i \in 1 .. n - s |-> i + s]
Ordinals(n) == After(0, n)

\* What is known of a transport wherever it is.
Sound(k, t) ==
  LET x == k.transport[t]
  IN /\ x.attempt = "none" => x = Unused
     /\ x.since <= k.generation
     /\ x.skipped <= x.sent
     /\ x.attempt \in Trying =>
          /\ x.buffer = Ordinals(x.sent) /\ x.seen = <<>>
          /\ x.skipped = 0 /\ x.foreign = 0 /\ ~x.nested

\* Where it is; H is the set of transports in hand.
Placed(k, H, t) ==
  LET owned == t = k.active \/ t = k.pending \/ t \in H
      x == k.transport[t]
  IN /\ owned => x.net \in Live
     /\ x.net \in Live => owned \/ x.nested
     /\ x.attempt \in Trying => t = k.pending \/ t \in H
     /\ t = k.pending => x.attempt \in Trying /\ x.since = k.generation

\* No wait is registered.
Idle(k) == k.wait.for \notin {"result", "rendering"}

Good(k, H) ==
  /\ k \in Client
  /\ k.active # None => k.active # k.pending
  /\ k.active \notin H /\ k.pending \notin H
  /\ \A t \in Transports : Sound(k, t) /\ Placed(k, H, t)
  /\ ~Idle(k) => k.wait.on = k.session /\ k.session # None /\ k.session = k.active
                 /\ k.transport[k.session].net = "open"

\* The session listens to the active transport, unless a close listener attached it.
Listening(k) ==
  k.session = IF k.active # None /\ ~k.transport[k.active].nested THEN k.active ELSE None

\* What the session has got of its transport.
Whole(x) ==
  /\ x.seen = After(x.skipped, x.sent)
  /\ x.skipped > 0 => x.attempt = "rejected" /\ x.skipped = Len(x.buffer)
  /\ x.foreign > 0 => x.attempt = "attached"

Complete(k) == k.session # None => Whole(k.transport[k.session])

\* Transports that nobody has handed over, and those in hand, are as before, but for T.
Untouched(k, v, H, T) ==
  \A u \in Transports \ T :
    k.transport[u].attempt = "none" \/ u \in H => v.transport[u] = k.transport[u]

\* The transport the client has, and what the session listens to, are as before.
Unmoved(k, v) ==
  /\ v.active = k.active /\ v.session = k.session /\ v.wait = k.wait
  /\ k.active # None => v.transport[k.active] = k.transport[k.active]

\* No transport has been installed between k and v.
NoInstall(k, v) ==
  \A u \in Transports :
    v.transport[u].attempt = "installed" => k.transport[u].attempt = "installed"

LEMMA UnusedType ==
  /\ Unused \in Transport /\ Unused.net = "new" /\ Unused.attempt = "none" /\ Unused.sent = 0
  /\ Unused.since = 0 /\ Unused.skipped = 0 /\ Unused.foreign = 0 /\ Unused.nested = FALSE
  /\ Unused.buffer = Ordinals(Unused.sent) /\ Unused.seen = <<>> /\ Whole(Unused)
<1>1. 0 \in 0 .. MaxMessages /\ <<>> \in Seq(Nat)
  BY ClientAssumption
<1>2. After(0, 0) = <<>>
  BY DEF After
<1> QED BY <1>1, <1>2 DEF Unused, Transport, Nets, AttemptStates, Ordinals, Whole

LEMMA TailAppend ==
  ASSUME NEW n \in Nat, NEW s \in 0 .. n
  PROVE  After(s, n) \in Seq(Nat) /\ Append(After(s, n), n + 1) = After(s, n + 1)
<1>1. After(s, n) \in Seq(Nat) /\ Len(After(s, n)) = n - s
  BY DEF After
<1>2. Append(After(s, n), n + 1)
        = [i \in 1 .. (n - s) + 1 |-> IF i \in 1 .. n - s THEN After(s, n)[i] ELSE n + 1]
  BY <1>1
<1>3. \A i \in 1 .. (n - s) + 1 : (IF i \in 1 .. n - s THEN After(s, n)[i] ELSE n + 1) = i + s
  BY DEF After
<1>4. (n - s) + 1 = (n + 1) - s
  OBVIOUS
<1> QED BY <1>1, <1>2, <1>3, <1>4 DEF After

LEMMA OrdinalsAppend ==
  ASSUME NEW n \in Nat
  PROVE  /\ Ordinals(n) \in Seq(Nat) /\ Len(Ordinals(n)) = n
         /\ Append(Ordinals(n), n + 1) = Ordinals(n + 1)
<1>1. 0 \in 0 .. n
  OBVIOUS
<1>2. Len(Ordinals(n)) = n
  BY DEF Ordinals, After
<1> QED BY <1>1, <1>2, TailAppend DEF Ordinals

\* Where the active transport and the session's are as before, so is what the session got.
LEMMA UnmovedKeeps ==
  ASSUME NEW k \in Client, NEW v, Unmoved(k, v), Listening(k)
  PROVE  Listening(v) /\ (Complete(k) => Complete(v))
<1>1. k.session = None \/ k.session = k.active
  BY DEF Listening
<1>2. Listening(v)
  BY DEF Unmoved, Listening
<1>3. Complete(k) => Complete(v)
  BY <1>1 DEF Unmoved, Complete
<1> QED BY <1>2, <1>3

-----------------------------------------------------------------------------
(* The operations *)

LEMMA DestroyGood ==
  ASSUME NEW k, NEW H \in SUBSET Transports, Good(k, H), NEW t \in H,
         k.transport[t].attempt \notin Trying \cup {"none"}, k.session # t
  PROVE  LET v == Destroy(k, t) IN
           /\ Good(v, H \ {t}) /\ Untouched(k, v, H, {t}) /\ NoInstall(k, v)
           /\ v.active = k.active /\ v.session = k.session /\ v.pending = k.pending
           /\ v.generation = k.generation /\ v.wait = k.wait
           /\ \A u \in Transports \ {t} : v.transport[u] = k.transport[u]
           /\ v.transport[t].net = "destroyed" /\ v.transport[t].attempt = k.transport[t].attempt
<1> DEFINE v == Destroy(k, t)
           x == [Unused EXCEPT !.net = "destroyed", !.attempt = k.transport[t].attempt]
<1>1. k \in Client /\ k.transport[t] \in Transport
  BY DEF Good, Client
<1>2. /\ x \in Transport /\ x.net = "destroyed" /\ x.attempt = k.transport[t].attempt
      /\ x.since = 0 /\ x.skipped = 0 /\ x.sent = 0
  BY <1>1, UnusedType DEF Transport, Unused, Nets
<1>3. v = [k EXCEPT !.transport = [k.transport EXCEPT ![t] = x]]
  BY <1>1 DEF Destroy, Client
<1>4. /\ v \in Client /\ v.transport = [k.transport EXCEPT ![t] = x]
      /\ v.active = k.active /\ v.session = k.session /\ v.pending = k.pending
      /\ v.generation = k.generation /\ v.wait = k.wait
  <2> HIDE DEF x
  <2> QED BY <1>1, <1>2, <1>3 DEF Client
<1>5. \A u \in Transports : v.transport[u] = IF u = t THEN x ELSE k.transport[u]
  BY <1>1, <1>4 DEF Client
<1> HIDE DEF v, x
<1>6. Good(v, H \ {t})
  <2>1. t # k.active /\ t # k.pending
    BY DEF Good
  <2>2. \A u \in Transports : Sound(v, u) /\ Placed(v, H \ {t}, u)
    <3> TAKE u \in Transports
    <3>1. Sound(k, u) /\ Placed(k, H, u) /\ k.generation \in Nat
      BY <1>1 DEF Good, Client
    <3>2. CASE u = t
      BY <1>2, <1>4, <1>5, <2>1, <3>1, <3>2 DEF Sound, Placed, Live, Trying
    <3>3. CASE u # t
      BY <1>4, <1>5, <3>1, <3>3 DEF Sound, Placed
    <3> QED BY <3>2, <3>3
  <2>3. ~Idle(k) => v.transport[k.session].net = "open"
    BY <1>1, <1>5 DEF Good, Client
  <2> QED BY <1>4, <2>2, <2>3 DEF Good, Idle
<1>7. Untouched(k, v, H, {t})
  BY <1>5 DEF Untouched
<1>8. NoInstall(k, v)
  BY <1>2, <1>5 DEF NoInstall
<1>9. v.transport[t] = x
  BY <1>5
<1> QED BY <1>2, <1>4, <1>6, <1>7, <1>8, <1>9 DEF v

\* A rejected candidate is destroyed, whatever it was; the operation is a new generation.
Gone == [Unused EXCEPT !.net = "destroyed", !.attempt = "rejected"]

LEMMA GoneType ==
  /\ Gone \in Transport /\ Gone.net = "destroyed" /\ Gone.attempt = "rejected" /\ Gone.since = 0
  /\ Gone.skipped = 0 /\ Gone.sent = 0
BY UnusedType DEF Gone, Transport, Unused, Nets, AttemptStates

LEMMA DestroyRejected ==
  ASSUME NEW k \in Client, NEW t \in Transports
  PROVE  Destroy(Reject(k, t), t) = [k EXCEPT !.transport = [k.transport EXCEPT ![t] = Gone]]
<1> DEFINE r == [k.transport[t] EXCEPT !.attempt = "rejected"]
           q == [k EXCEPT !.transport = [k.transport EXCEPT ![t] = r]]
<1>1. k.transport[t] \in Transport /\ k.transport \in [Transports -> Transport]
  BY DEF Client
<1>2. r \in Transport /\ r.attempt = "rejected"
  BY <1>1 DEF Transport, AttemptStates
<1>3. Reject(k, t) = q
  BY <1>1 DEF Reject, Client
<1>4. q \in Client /\ q.transport = [k.transport EXCEPT ![t] = r]
  <2> HIDE DEF r
  <2> QED BY <1>1, <1>2 DEF Client
<1>5. q.transport[t].attempt = "rejected"
  BY <1>1, <1>2, <1>4
<1>6. Destroy(q, t) = [q EXCEPT !.transport = [q.transport EXCEPT ![t] = Gone]]
  <2> HIDE DEF q, r
  <2>1. [Unused EXCEPT !.net = "destroyed", !.attempt = q.transport[t].attempt] = Gone
    BY <1>5 DEF Gone
  <2> QED BY <1>4, <2>1 DEF Destroy, Client
<1>7. [q.transport EXCEPT ![t] = Gone] = [k.transport EXCEPT ![t] = Gone]
  <2> HIDE DEF q, r
  <2> QED BY <1>1, <1>4
<1>8. [q EXCEPT !.transport = [k.transport EXCEPT ![t] = Gone]]
        = [k EXCEPT !.transport = [k.transport EXCEPT ![t] = Gone]]
  <2> HIDE DEF r
  <2> QED BY <1>1 DEF Client
<1> QED BY <1>3, <1>6, <1>7, <1>8

LEMMA SupersedeGood ==
  ASSUME NEW k, NEW H \in SUBSET Transports, Good(k, H)
  PROVE  LET v == Supersede(k) IN
           /\ Good(v, H) /\ Untouched(k, v, H, {}) /\ NoInstall(k, v) /\ Unmoved(k, v)
           /\ v.pending = None /\ v.generation = k.generation + 1
<1> DEFINE v == Supersede(k)
           n == NextGeneration(k)
           p == k.pending
<1>1. k \in Client
  BY DEF Good
<1>2. n = [k EXCEPT !.generation = k.generation + 1]
  BY <1>1 DEF NextGeneration, Client
<1>3. /\ n \in Client /\ n.active = k.active /\ n.session = k.session /\ n.pending = p
      /\ n.generation = k.generation + 1 /\ n.transport = k.transport /\ n.wait = k.wait
  BY <1>1, <1>2 DEF Client
<1>4. CASE p = None
  <2>1. v = n
    BY <1>3, <1>4 DEF Supersede, CancelPending
  <2>2. Good(n, H)
    <3> HIDE DEF n
    <3> QED BY <1>1, <1>3, <1>4, ClientAssumption DEF Good, Sound, Placed, Idle, Client, Transport
  <2> HIDE DEF v, n
  <2> QED BY <1>3, <1>4, <2>1, <2>2 DEF v, Untouched, NoInstall, Unmoved
<1>5. CASE p # None
  <2>1. p \in Transports
    BY <1>1, <1>5 DEF Client
  <2>2. v = [[n EXCEPT !.transport = [n.transport EXCEPT ![p] = Gone]] EXCEPT !.pending = None]
    <3> HIDE DEF n, p
    <3>1. v = [Destroy(Reject(n, p), p) EXCEPT !.pending = None]
      BY <1>3, <1>5 DEF Supersede, CancelPending, n
    <3> QED BY <1>3, <2>1, <3>1, DestroyRejected
  <2>3. /\ v \in Client /\ v.active = k.active /\ v.session = k.session /\ v.pending = None
        /\ v.generation = k.generation + 1 /\ v.wait = k.wait
        /\ v.transport = [k.transport EXCEPT ![p] = Gone]
    <3> HIDE DEF n, v, p
    <3> QED BY <1>3, <2>1, <2>2, GoneType DEF Client
  <2>4. \A u \in Transports : v.transport[u] = IF u = p THEN Gone ELSE k.transport[u]
    <3> HIDE DEF v
    <3> QED BY <1>1, <2>3 DEF Client
  <2>5. k.transport[p].attempt # "none"
    BY <2>1 DEF Good, Placed, Trying
  <2> HIDE DEF v, n
  <2>6. Good(v, H)
    <3>1. \A u \in Transports : Sound(v, u) /\ Placed(v, H, u)
      <4> TAKE u \in Transports
      <4>1. /\ Sound(k, u) /\ Placed(k, H, u) /\ u # None /\ p \notin H /\ p # k.active
            /\ k.generation \in Nat /\ k.transport[u].since \in Nat
        BY <1>1, <1>5, ClientAssumption DEF Good, Client, Transport
      <4>2. CASE u = p
        BY <2>3, <2>4, <4>1, <4>2, GoneType DEF Sound, Placed, Live, Trying
      <4>3. CASE u # p
        BY <2>3, <2>4, <4>1, <4>3 DEF Sound, Placed
      <4> QED BY <4>2, <4>3
    <3>2. ~Idle(k) => v.transport[k.session].net = "open"
      BY <1>1, <1>5, <2>4 DEF Good, Client
    <3> QED BY <2>3, <3>1, <3>2, ClientAssumption DEF Good, Idle
  <2>7. Untouched(k, v, H, {})
    <3>1. p \notin H
      BY DEF Good
    <3> QED BY <2>4, <2>5, <3>1 DEF Untouched
  <2>8. NoInstall(k, v)
    BY <2>4, GoneType DEF NoInstall
  <2>9. Unmoved(k, v)
    BY <1>1, <1>5, <2>3, <2>4 DEF Unmoved, Good, Client
  <2> QED BY <2>3, <2>6, <2>7, <2>8, <2>9 DEF v
<1> QED BY <1>4, <1>5

\* A transport that nobody has handed over yet is nowhere.
LEMMA FreshIsNowhere ==
  ASSUME NEW k, NEW H \in SUBSET Transports, Good(k, H),
         NEW t \in Transports, k.transport[t].attempt = "none"
  PROVE  /\ k.transport[t] = Unused /\ k.transport[t] \in Transport
         /\ t # k.active /\ t # k.pending /\ t \notin H /\ t # None
BY UnusedType, ClientAssumption DEF Good, Sound, Placed, Live, Trying

LEMMA StartAttemptGood ==
  ASSUME NEW k, NEW H \in SUBSET Transports, Good(k, H),
         NEW t \in Transports, k.transport[t].attempt = "none"
  PROVE  LET v == StartAttempt(k, t) IN
           /\ Good(v, H) /\ Untouched(k, v, H, {t}) /\ NoInstall(k, v) /\ Unmoved(k, v)
           /\ v.generation = k.generation + 1
<1> DEFINE s == Supersede(k)
           v == StartAttempt(k, t)
           x == [s.transport[t] EXCEPT !.net = "connecting", !.attempt = "handshake",
                                       !.since = s.generation]
<1>1. /\ Good(s, H) /\ Untouched(k, s, H, {}) /\ NoInstall(k, s) /\ Unmoved(k, s)
      /\ s.pending = None /\ s.generation = k.generation + 1
  BY SupersedeGood
<1> HIDE DEF s
<1>2. s \in Client /\ k \in Client
  BY <1>1 DEF Good
<1>3. s.transport[t] = k.transport[t]
  BY <1>1 DEF Untouched
<1>4. v = [s EXCEPT !.pending = t, !.transport = [s.transport EXCEPT ![t] = x]]
  <2>1. v = [s EXCEPT !.pending = t, !.transport[t] = x]
    BY DEF StartAttempt, s, x
  <2> QED BY <1>2, <2>1 DEF Client
<1> HIDE DEF v
<1>5. /\ s.transport[t] = Unused /\ Unused \in Transport
      /\ t # s.active /\ t \notin H /\ t # None
  BY <1>1, <1>3, FreshIsNowhere, UnusedType
<1>6. /\ x \in Transport /\ x.net = "connecting" /\ x.attempt = "handshake" /\ x.since = s.generation
      /\ x.buffer = Unused.buffer /\ x.sent = Unused.sent /\ x.seen = Unused.seen
      /\ x.skipped = Unused.skipped /\ x.foreign = Unused.foreign /\ x.nested = Unused.nested
  BY <1>2, <1>5 DEF Client, Transport, Nets, AttemptStates
<1>7. /\ v \in Client /\ v.active = s.active /\ v.session = s.session /\ v.pending = t
      /\ v.generation = s.generation /\ v.wait = s.wait
      /\ v.transport = [s.transport EXCEPT ![t] = x]
  <2> HIDE DEF x
  <2> QED BY <1>2, <1>4, <1>6 DEF Client
<1>8. \A u \in Transports : v.transport[u] = IF u = t THEN x ELSE s.transport[u]
  BY <1>2, <1>7 DEF Client
<1> HIDE DEF x
<1>9. Good(v, H)
  <2>1. \A u \in Transports : Sound(v, u) /\ Placed(v, H, u)
    <3> TAKE u \in Transports
    <3>1. Sound(s, u) /\ Placed(s, H, u) /\ u # None /\ s.generation \in Nat
      BY <1>1, <1>2, ClientAssumption DEF Good, Client
    <3>2. CASE u = t
      <4>1. Sound(v, u)
        BY <1>6, <1>7, <1>8, <3>1, <3>2, UnusedType DEF Sound, Trying
      <4>2. Placed(v, H, u)
        BY <1>5, <1>6, <1>7, <1>8, <3>1, <3>2 DEF Placed, Live, Trying
      <4> QED BY <4>1, <4>2
    <3>3. CASE u # t
      BY <1>1, <1>7, <1>8, <3>1, <3>3 DEF Sound, Placed
    <3> QED BY <3>2, <3>3
  <2>2. ~Idle(s) => v.transport[s.session].net = "open"
    BY <1>1, <1>2, <1>5, <1>8 DEF Good, Client
  <2> QED BY <1>1, <1>5, <1>7, <2>1, <2>2 DEF Good, Idle
<1>10. Untouched(k, v, H, {t})
  BY <1>1, <1>8 DEF Untouched
<1>11. NoInstall(k, v)
  BY <1>1, <1>6, <1>8 DEF NoInstall
<1>12. Unmoved(k, v)
  BY <1>1, <1>2, <1>5, <1>7, <1>8 DEF Unmoved, Client
<1> QED BY <1>1, <1>7, <1>9, <1>10, <1>11, <1>12 DEF v

\* An active transport there still is was itself attached from a close listener.
Vacant(k) == k.active # None => k.transport[k.active].nested

\* What attaching t makes of k.
Attached(k, v, H, t, nested) ==
  /\ Good(v, H) /\ Untouched(k, v, H, {t}) /\ NoInstall(k, v) /\ Idle(v)
  /\ v.active = t /\ v.session = t /\ v.generation = k.generation
  /\ v.transport[t].nested = nested /\ v.transport[t].attempt = "attached"
  /\ Whole(v.transport[t])

LEMMA AttachGood ==
  ASSUME NEW k, NEW H \in SUBSET Transports, Good(k, H), Idle(k), Vacant(k),
         NEW t \in Transports, k.transport[t].attempt = "none", NEW nested \in BOOLEAN
  PROVE  Attached(k, Attach(k, t, nested), H, t, nested)
<1> DEFINE v == Attach(k, t, nested)
           x == [k.transport[t] EXCEPT !.net = "connecting", !.attempt = "attached",
                                       !.since = k.generation, !.nested = nested]
<1>1. k \in Client
  BY DEF Good
<1>2. /\ k.transport[t] = Unused /\ Unused \in Transport
      /\ t # k.active /\ t # k.pending /\ t \notin H /\ t # None
  BY FreshIsNowhere, UnusedType
<1>3. v = [k EXCEPT !.active = t, !.session = t, !.transport = [k.transport EXCEPT ![t] = x]]
  BY <1>1 DEF Attach, Client
<1>4. /\ x \in Transport /\ x.net = "connecting" /\ x.attempt = "attached" /\ x.since = k.generation
      /\ x.nested = nested /\ x.sent = Unused.sent /\ x.seen = Unused.seen /\ x.buffer = Unused.buffer
      /\ x.skipped = Unused.skipped /\ x.foreign = Unused.foreign
  BY <1>1, <1>2 DEF Client, Transport, Nets, AttemptStates
<1> HIDE DEF x, v
<1>5. /\ v \in Client /\ v.active = t /\ v.session = t /\ v.pending = k.pending
      /\ v.generation = k.generation /\ v.wait = k.wait
      /\ v.transport = [k.transport EXCEPT ![t] = x]
  BY <1>1, <1>3, <1>4 DEF Client
<1>6. \A u \in Transports : v.transport[u] = IF u = t THEN x ELSE k.transport[u]
  BY <1>1, <1>5 DEF Client
<1>7. \A u \in Transports : Sound(v, u) /\ Placed(v, H, u)
  <2> TAKE u \in Transports
  <2>1. Sound(k, u) /\ Placed(k, H, u) /\ u # None /\ k.generation \in Nat
    BY <1>1, ClientAssumption DEF Good, Client
  <2>2. CASE u = t
    <3>1. Sound(v, u)
      BY <1>4, <1>5, <1>6, <2>1, <2>2, UnusedType DEF Sound, Trying
    <3>2. Placed(v, H, u)
      BY <1>2, <1>4, <1>5, <1>6, <2>1, <2>2 DEF Placed, Live, Trying
    <3> QED BY <3>1, <3>2
  <2>3. CASE u # t
    BY <1>5, <1>6, <2>1, <2>3 DEF Sound, Placed, Vacant
  <2> QED BY <2>2, <2>3
<1>8. Good(v, H)
  BY <1>2, <1>5, <1>7 DEF Good, Idle
<1>9. Untouched(k, v, H, {t}) /\ NoInstall(k, v)
  BY <1>4, <1>6 DEF Untouched, NoInstall
<1>10. Whole(x)
  BY <1>4, UnusedType DEF Whole
<1> QED BY <1>4, <1>5, <1>6, <1>8, <1>9, <1>10 DEF v, Idle, Attached

\* A call from a close listener: a client without a transport has none afterwards, or one
\* that was attached in between.
LEMMA HostCallGood ==
  ASSUME NEW k, NEW H \in SUBSET Transports, Good(k, H), k.active = None, Idle(k),
         NEW c \in HostCalls, MayCall(k, c)
  PROVE  LET v == HostCall(k, c) IN
           /\ Good(v, H) /\ Untouched(k, v, H, {c.on}) /\ NoInstall(k, v) /\ Idle(v)
           /\ v.generation >= k.generation
           /\ v.active # None => v.transport[v.active].nested /\ v.generation # k.generation
<1> DEFINE v == HostCall(k, c)
           s == Supersede(k)
<1>1. k.generation \in Nat
  BY DEF Good, Client
<1>2. CASE c.op = "nothing"
  <2>1. v = k
    BY <1>2 DEF HostCall
  <2> QED BY <1>1, <2>1 DEF Untouched, NoInstall
<1>3. /\ Good(s, H) /\ Untouched(k, s, H, {}) /\ NoInstall(k, s) /\ s.active = None /\ Idle(s)
      /\ s.generation = k.generation + 1
  BY SupersedeGood DEF Unmoved, Idle
<1> HIDE DEF s
<1>4. CASE c.op = "disconnect"
  <2>1. v = s
    BY <1>4 DEF HostCall, s
  <2> QED BY <1>1, <1>3, <2>1 DEF Untouched
<1>5. ASSUME c.op \in {"connect", "replace", "attach"}
      PROVE  c.on \in Transports /\ k.transport[c.on].attempt = "none" /\ s.transport[c.on].attempt = "none"
  <2>1. c.on \in Transports /\ c.on # None
    BY <1>5, ClientAssumption DEF HostCalls, Nothing, Disconnecting
  <2> QED BY <1>3, <2>1 DEF MayCall, Untouched
<1>6. CASE c.op = "connect"
  <2>1. v = StartAttempt(s, c.on)
    BY <1>6 DEF HostCall, s
  <2>2. /\ Good(v, H) /\ Untouched(s, v, H, {c.on}) /\ NoInstall(s, v) /\ Unmoved(s, v)
        /\ v.generation = s.generation + 1
    BY <1>3, <1>5, <1>6, <2>1, StartAttemptGood
  <2> HIDE DEF v
  <2> QED BY <1>1, <1>3, <2>2 DEF v, Untouched, NoInstall, Unmoved, Idle
<1>7. CASE c.op = "replace"
  <2>1. v = StartAttempt(k, c.on)
    BY <1>7 DEF HostCall
  <2>2. /\ Good(v, H) /\ Untouched(k, v, H, {c.on}) /\ NoInstall(k, v) /\ Unmoved(k, v)
        /\ v.generation = k.generation + 1
    BY <1>5, <1>7, <2>1, StartAttemptGood
  <2> HIDE DEF v
  <2> QED BY <1>1, <2>2 DEF v, Unmoved, Idle
<1>8. CASE c.op = "attach"
  <2>1. v = Attach(s, c.on, TRUE)
    BY <1>8 DEF HostCall, s
  <2>2. /\ Good(v, H) /\ Untouched(s, v, H, {c.on}) /\ NoInstall(s, v) /\ Idle(v)
        /\ v.active = c.on /\ v.generation = s.generation /\ v.transport[c.on].nested = TRUE
    <3> DEFINE n == TRUE
    <3>1. n \in BOOLEAN
      OBVIOUS
    <3>2. v = Attach(s, c.on, n)
      BY <2>1
    <3> HIDE DEF n, v
    <3>0. Vacant(s)
      BY <1>3 DEF Vacant
    <3>3. Attached(s, v, H, c.on, n)
      BY <3>0, <1>3, <1>5, <1>8, <3>1, <3>2, AttachGood
    <3> QED BY <3>3 DEF Attached, n, v
  <2> HIDE DEF v
  <2> QED BY <1>1, <1>3, <2>2 DEF v, Untouched, NoInstall
<1> QED BY <1>2, <1>4, <1>6, <1>7, <1>8 DEF HostCalls, Nothing, Disconnecting

LEMMA AbortWaitsIdle ==
  ASSUME NEW k \in Client
  PROVE  LET v == AbortWaits(k) IN
           /\ v \in Client /\ Idle(v) /\ v.active = k.active /\ v.session = k.session
           /\ v.pending = k.pending /\ v.generation = k.generation /\ v.transport = k.transport
<1>1. NoWait \in Waits /\ NoWait.for = "nothing"
  BY DEF NoWait, Waits
<1> QED BY <1>1 DEF AbortWaits, Idle, Client

LEMMA ReleaseGood ==
  ASSUME NEW k, NEW H \in SUBSET Transports, Good(k, H), Listening(k),
         NEW c \in HostCalls, MayCall(k, c)
  PROVE  LET v == Release(k, c) IN
           /\ Good(v, H) /\ Untouched(k, v, H, {c.on}) /\ NoInstall(k, v) /\ Idle(v)
           /\ Listening(v) /\ v.session = None
           /\ v.generation >= k.generation
           /\ v.active # None => v.generation # k.generation
<1> DEFINE v == Release(k, c)
           a == k.active
           b == AbortWaits(k)
           m == [b EXCEPT !.active = None]
           h == HostCall(m, c)
           d == [h EXCEPT !.session = None]
<1>1. k \in Client /\ k.generation \in Nat
  BY DEF Good, Client
<1>2. CASE a = None
  <2>1. v = k
    BY <1>2 DEF Release
  <2>2. k.session = None
    BY <1>2 DEF Listening
  <2>3. Idle(k)
    BY <2>2 DEF Good
  <2> QED BY <1>1, <1>2, <2>1, <2>2, <2>3 DEF Untouched, NoInstall
<1>3. CASE a # None
  <2>1. a \in Transports /\ a # None
    BY <1>1, <1>3 DEF Client
  <2>2. /\ m \in Client /\ m.active = None /\ m.session = k.session /\ m.pending = k.pending
        /\ m.generation = k.generation /\ m.transport = k.transport /\ Idle(m)
    <3>1. /\ b \in Client /\ Idle(b) /\ b.session = k.session
          /\ b.pending = k.pending /\ b.generation = k.generation /\ b.transport = k.transport
      BY <1>1, AbortWaitsIdle
    <3> HIDE DEF b
    <3> QED BY <3>1 DEF Client, Idle
  <2>3. /\ k.transport[a].net \in Live /\ k.transport[a].attempt \notin Trying \cup {"none"}
        /\ a \notin H /\ a # k.pending
    <3>1. Sound(k, a) /\ Placed(k, H, a) /\ a \notin H /\ a # k.pending
      BY <1>3, <2>1 DEF Good
    <3> QED BY <3>1, UnusedType DEF Sound, Placed, Live
  <2>4. Good(m, H \cup {a})
    <3>1. \A u \in Transports : Sound(m, u) /\ Placed(m, H \cup {a}, u)
      <4> TAKE u \in Transports
      <4>1. Sound(k, u) /\ Placed(k, H, u) /\ u # None
        BY ClientAssumption DEF Good
      <4> HIDE DEF m
      <4> QED BY <2>2, <2>3, <4>1 DEF Sound, Placed
    <3>2. None \notin H \cup {a} /\ k.pending \notin H
      BY <2>1, ClientAssumption DEF Good
    <3> HIDE DEF m
    <3> QED BY <2>2, <2>3, <3>1, <3>2 DEF Good
  <2>5. MayCall(m, c)
    BY <2>2 DEF MayCall
  <2>6. /\ Good(h, H \cup {a}) /\ Untouched(m, h, H \cup {a}, {c.on}) /\ NoInstall(m, h) /\ Idle(h)
        /\ h.generation >= m.generation
        /\ h.active # None => h.transport[h.active].nested /\ h.generation # m.generation
    <3> HIDE DEF m
    <3>1. H \cup {a} \in SUBSET Transports
      BY <2>1
    <3> QED BY <2>2, <2>4, <2>5, <3>1, HostCallGood
  <2>7. a # c.on
    BY <2>1, <2>3 DEF MayCall
  <2>8. h.transport[a] = k.transport[a]
    BY <2>1, <2>2, <2>6, <2>7 DEF Untouched
  <2>9. /\ d \in Client /\ d.active = h.active /\ d.session = None /\ d.pending = h.pending
        /\ d.generation = h.generation /\ d.transport = h.transport /\ Idle(d)
    <3>1. h \in Client
      BY <2>6 DEF Good
    <3> HIDE DEF h
    <3> QED BY <2>6, <3>1 DEF Client, Idle
  <2>10. Good(d, H \cup {a})
    <3>1. \A u \in Transports : Sound(d, u) /\ Placed(d, H \cup {a}, u)
      <4> TAKE u \in Transports
      <4>1. Sound(h, u) /\ Placed(h, H \cup {a}, u)
        BY <2>6 DEF Good
      <4> HIDE DEF d, h
      <4> QED BY <2>6, <2>9, <4>1 DEF Sound, Placed
    <3> HIDE DEF d, h
    <3> QED BY <2>6, <2>9, <3>1 DEF Good
  <2>11. v = Destroy(d, a)
    BY <1>3 DEF Release
  <2>12. d.transport[a].attempt \notin Trying \cup {"none"}
    BY <2>3, <2>8, <2>9
  <2>13. /\ Good(v, (H \cup {a}) \ {a}) /\ Untouched(d, v, H \cup {a}, {a}) /\ NoInstall(d, v)
         /\ v.active = h.active /\ v.session = None /\ v.wait = d.wait /\ v.generation = h.generation
         /\ \A u \in Transports \ {a} : v.transport[u] = d.transport[u]
    <3> HIDE DEF d, v
    <3>1. H \cup {a} \in SUBSET Transports /\ a \in H \cup {a} /\ d.session # a
      BY <2>1, <2>9
    <3> QED BY <2>9, <2>10, <2>11, <2>12, <3>1, DestroyGood
  <2>14. (H \cup {a}) \ {a} = H
    BY <2>3
  <2> HIDE DEF v, d, h, m
  <2>15. Untouched(k, v, H, {c.on})
    <3> SUFFICES ASSUME NEW u \in Transports \ {c.on},
                        k.transport[u].attempt = "none" \/ u \in H
                 PROVE  v.transport[u] = k.transport[u]
      BY DEF Untouched
    <3>1. h.transport[u] = k.transport[u]
      BY <2>2, <2>6 DEF Untouched
    <3>2. u # a
      BY <2>3
    <3> QED BY <2>9, <2>13, <3>1, <3>2
  <2>16. NoInstall(k, v)
    BY <2>2, <2>6, <2>9, <2>13 DEF NoInstall
  <2>17. h.active # None => h.active \in Transports \ {a}
    BY <2>6 DEF Good, Client
  <2>18. Listening(v)
    BY <2>6, <2>9, <2>13, <2>17 DEF Listening
  <2> QED BY <2>2, <2>6, <2>9, <2>13, <2>14, <2>15, <2>16, <2>18 DEF v, Idle
<1> QED BY <1>2, <1>3

LEMMA DisconnectAllGood ==
  ASSUME NEW k, NEW H \in SUBSET Transports, Good(k, H), Listening(k),
         NEW c \in HostCalls, MayCall(k, c)
  PROVE  LET v == DisconnectAll(k, c) IN
           /\ Good(v, H) /\ Untouched(k, v, H, {c.on}) /\ NoInstall(k, v) /\ Idle(v)
           /\ Listening(v) /\ v.session = None
<1> DEFINE s == Supersede(k)
           v == DisconnectAll(k, c)
<1>1. /\ Good(s, H) /\ Untouched(k, s, H, {}) /\ NoInstall(k, s) /\ Unmoved(k, s)
  BY SupersedeGood
<1>2. v = Release(s, c)
  BY DEF DisconnectAll
<1> HIDE DEF s, v
<1>3. MayCall(s, c)
  <2>1. c.on # None => c.on \in Transports
    BY DEF HostCalls, Nothing, Disconnecting
  <2> QED BY <1>1, <2>1 DEF MayCall, Untouched
<1>4. Listening(s)
  <2>1. k \in Client
    BY DEF Good
  <2> QED BY <1>1, <2>1, UnmovedKeeps
<1>5. /\ Good(v, H) /\ Untouched(s, v, H, {c.on}) /\ NoInstall(s, v) /\ Idle(v)
      /\ Listening(v) /\ v.session = None
  BY <1>1, <1>2, <1>3, <1>4, ReleaseGood
<1>6. Untouched(k, v, H, {c.on})
  BY <1>1, <1>5 DEF Untouched
<1>7. NoInstall(k, v)
  BY <1>1, <1>5 DEF NoInstall
<1> QED BY <1>5, <1>6, <1>7 DEF v

\* What attachTransport does in the end: what is still there is what a listener attached.
LEMMA AttachLast ==
  ASSUME NEW k, Good(k, {}), Idle(k), Listening(k), k.session = None,
         NEW t \in Transports, k.transport[t].attempt = "none"
  PROVE  LET v == Attach(k, t, FALSE) IN
           /\ Good(v, {}) /\ Listening(v) /\ Complete(v) /\ NoInstall(k, v)
           /\ v.transport[t].attempt = "attached"
<1> DEFINE n == FALSE
           v == Attach(k, t, n)
           H == {}
<1>1. n \in BOOLEAN /\ H \in SUBSET Transports
  OBVIOUS
<1>2. Vacant(k)
  BY DEF Vacant, Listening
<1>3. Good(k, H)
  OBVIOUS
<1> HIDE DEF n, H, v
<1>4. Attached(k, v, H, t, n)
  BY <1>1, <1>2, <1>3, AttachGood DEF v
<1>5. Listening(v) /\ Complete(v)
  BY <1>4, ClientAssumption DEF Attached, Listening, Complete, n
<1> QED BY <1>4, <1>5 DEF Attached, v, n, H

\* Any call of the host, with another one made from the close event it causes.
LEMMA PerformGood ==
  ASSUME NEW k, Good(k, {}), Listening(k), Complete(k),
         NEW c \in HostCalls, NEW d \in HostCalls, MayNest(k, c, d)
  PROVE  LET v == Perform(k, c, d) IN
           /\ Good(v, {}) /\ Listening(v) /\ Complete(v) /\ NoInstall(k, v)
           /\ c.op = "attach" => c.on \in Transports /\ v.transport[c.on].attempt = "attached"
<1> DEFINE v == Perform(k, c, d)
           s == DisconnectAll(k, d)
<1>1. k \in Client /\ {} \in SUBSET Transports /\ MayCall(k, c) /\ MayCall(k, d)
  BY DEF Good, MayNest
<1>2. CASE c.op = "nothing"
  <2>1. v = k
    BY <1>2 DEF Perform
  <2> QED BY <1>2, <2>1 DEF NoInstall
<1>3. /\ Good(s, {}) /\ Untouched(k, s, {}, {d.on}) /\ NoInstall(k, s) /\ Idle(s)
      /\ Listening(s) /\ s.session = None
  BY <1>1, DisconnectAllGood
<1>4. Complete(s)
  BY <1>3 DEF Complete
<1> HIDE DEF s
<1>5. CASE c.op = "disconnect"
  <2>1. v = s
    BY <1>5 DEF Perform, s
  <2> QED BY <1>3, <1>4, <1>5, <2>1
<1>6. ASSUME c.op \in {"connect", "replace", "attach"}
      PROVE  c.on \in Transports /\ k.transport[c.on].attempt = "none" /\ s.transport[c.on].attempt = "none"
  <2>1. c.on \in Transports /\ c.on # None
    BY <1>6, ClientAssumption DEF HostCalls, Nothing, Disconnecting
  <2>2. c.on # d.on
    BY <2>1 DEF MayNest
  <2> QED BY <1>1, <1>3, <2>1, <2>2 DEF MayCall, Untouched
<1>7. CASE c.op = "connect"
  <2>1. v = StartAttempt(s, c.on)
    BY <1>7 DEF Perform, s
  <2>2. Good(v, {}) /\ NoInstall(s, v) /\ Unmoved(s, v)
    BY <1>1, <1>3, <1>6, <1>7, <2>1, StartAttemptGood
  <2> HIDE DEF v
  <2>3. s \in Client
    BY <1>3 DEF Good
  <2>4. Listening(v) /\ Complete(v)
    BY <1>3, <1>4, <2>2, <2>3, UnmovedKeeps
  <2>5. NoInstall(k, v)
    BY <1>3, <2>2 DEF NoInstall
  <2> QED BY <1>7, <2>2, <2>4, <2>5 DEF v
<1>8. CASE c.op = "replace"
  <2>1. v = StartAttempt(k, c.on)
    BY <1>8 DEF Perform
  <2>2. Good(v, {}) /\ NoInstall(k, v) /\ Unmoved(k, v)
    BY <1>1, <1>6, <1>8, <2>1, StartAttemptGood
  <2> HIDE DEF v
  <2>3. Listening(v) /\ Complete(v)
    BY <1>1, <2>2, UnmovedKeeps
  <2> QED BY <1>8, <2>2, <2>3 DEF v
<1>9. CASE c.op = "attach"
  <2>1. v = Attach(s, c.on, FALSE)
    BY <1>9 DEF Perform, s
  <2>2. c.on \in Transports /\ s.transport[c.on].attempt = "none"
    BY <1>6, <1>9
  <2>3. /\ Good(v, {}) /\ Listening(v) /\ Complete(v) /\ NoInstall(s, v)
        /\ v.transport[c.on].attempt = "attached"
    BY <1>3, <2>1, <2>2, AttachLast
  <2> HIDE DEF v
  <2>4. NoInstall(k, v)
    BY <1>3, <2>3 DEF NoInstall
  <2> QED BY <2>2, <2>3, <2>4 DEF v
<1> QED BY <1>2, <1>5, <1>7, <1>8, <1>9 DEF HostCalls, Nothing, Disconnecting

LEMMA ArriveGood ==
  ASSUME NEW k, NEW H \in SUBSET Transports, Good(k, H), Listening(k),
         NEW t \in Transports, k.transport[t].net \in Live, k.transport[t].sent < MaxMessages,
         NEW isInfo \in BOOLEAN
  PROVE  LET v == Arrive(k, t, isInfo) IN
           /\ Good(v, H) /\ Listening(v) /\ (Complete(k) => Complete(v)) /\ NoInstall(k, v)
           /\ v.generation = k.generation
           /\ \A u \in Transports : v.transport[u].attempt = k.transport[u].attempt
           /\ v.transport[t].since = k.transport[t].since
<1> DEFINE v == Arrive(k, t, isInfo)
           o == k.transport[t]
           n == o.sent + 1
           x == [o EXCEPT !.sent = n,
                          !.seen = IF k.session = t THEN Append(@, n) ELSE @,
                          !.buffer = IF o.attempt \in {"handshake", "ready"} THEN Append(@, n) ELSE @,
                          !.mode = IF isInfo THEN "strict" ELSE @,
                          !.infoFirst = @ \/ (isInfo /\ n = 1)]
<1>1. k \in Client /\ o \in Transport
  BY DEF Good, Client
<1>2. n \in 0 .. MaxMessages /\ n \in Nat /\ o.sent \in Nat
  <2>1. o.sent \in 0 .. MaxMessages /\ o.sent < MaxMessages
    BY <1>1 DEF Transport
  <2> HIDE DEF o
  <2> QED BY <2>1, ClientAssumption
<1>3. /\ x \in Transport /\ x.net = o.net /\ x.attempt = o.attempt /\ x.since = o.since
      /\ x.skipped = o.skipped /\ x.foreign = o.foreign /\ x.nested = o.nested
      /\ x.sent = n
      /\ x.seen = (IF k.session = t THEN Append(o.seen, n) ELSE o.seen)
      /\ x.buffer = (IF o.attempt \in Trying THEN Append(o.buffer, n) ELSE o.buffer)
  <2> DEFINE y == IF k.session = t THEN Append(o.seen, n) ELSE o.seen
             b == IF o.attempt \in Trying THEN Append(o.buffer, n) ELSE o.buffer
             e == IF isInfo THEN "strict" ELSE o.mode
             i == o.infoFirst \/ (isInfo /\ n = 1)
  <2>1. y \in Seq(Nat) /\ b \in Seq(Nat) /\ e \in {"unknown", "strict", "legacy"} /\ i \in BOOLEAN
    BY <1>1, <1>2 DEF Transport
  <2>2. x = [o EXCEPT !.sent = n, !.seen = y, !.buffer = b, !.mode = e, !.infoFirst = i]
    BY <1>1 DEF Transport, Trying
  <2> HIDE DEF y, b, e, i, n, x, o
  <2>3. /\ x \in Transport /\ x.net = o.net /\ x.attempt = o.attempt /\ x.since = o.since
        /\ x.skipped = o.skipped /\ x.foreign = o.foreign /\ x.nested = o.nested
        /\ x.sent = n /\ x.seen = y /\ x.buffer = b
    BY <1>1, <1>2, <2>1, <2>2 DEF Transport
  <2> QED BY <2>3 DEF y, b
<1>4. v = [k EXCEPT !.transport = [k.transport EXCEPT ![t] = x]]
  BY <1>1 DEF Arrive, Client
<1> HIDE DEF x
<1>5. /\ v \in Client /\ v.active = k.active /\ v.session = k.session /\ v.pending = k.pending
      /\ v.generation = k.generation /\ v.wait = k.wait
      /\ v.transport = [k.transport EXCEPT ![t] = x]
  BY <1>1, <1>3, <1>4 DEF Client
<1> HIDE DEF v
<1>6. \A u \in Transports : v.transport[u] = IF u = t THEN x ELSE k.transport[u]
  BY <1>1, <1>5 DEF Client
<1>7. Sound(k, t) /\ Placed(k, H, t) /\ o.attempt # "none"
  <2>1. Sound(k, t) /\ Placed(k, H, t)
    BY DEF Good
  <2> QED BY <2>1, UnusedType DEF Sound, Live
<1>8. o.attempt \in Trying => k.session # t
  BY <1>7, ClientAssumption DEF Good, Placed, Listening
<1>9. Sound(v, t)
  <2>1. x.attempt \in Trying => x.buffer = Ordinals(x.sent) /\ x.seen = <<>>
    BY <1>2, <1>3, <1>7, <1>8, OrdinalsAppend DEF Sound
  <2>2. x.skipped <= x.sent
    BY <1>1, <1>2, <1>3, <1>7 DEF Sound, Transport
  <2> QED BY <1>3, <1>5, <1>6, <1>7, <2>1, <2>2 DEF Sound
<1>10. Good(v, H)
  <2>1. \A u \in Transports : Sound(v, u) /\ Placed(v, H, u)
    <3> TAKE u \in Transports
    <3>1. Sound(k, u) /\ Placed(k, H, u)
      BY DEF Good
    <3>2. CASE u = t
      BY <1>3, <1>5, <1>6, <1>9, <3>1, <3>2 DEF Placed
    <3>3. CASE u # t
      BY <1>5, <1>6, <3>1, <3>3 DEF Sound, Placed
    <3> QED BY <3>2, <3>3
  <2>2. ~Idle(k) => v.transport[k.session].net = "open"
    BY <1>1, <1>3, <1>6 DEF Good, Client
  <2> QED BY <1>5, <2>1, <2>2 DEF Good, Idle
<1>11. Listening(v)
  BY <1>1, <1>3, <1>5, <1>6 DEF Listening, Client
<1>12. Complete(k) => Complete(v)
  <2> SUFFICES ASSUME Complete(k), k.session # None
               PROVE  Whole(v.transport[k.session])
    BY <1>5 DEF Complete
  <2>1. k.session \in Transports /\ Whole(k.transport[k.session])
    BY <1>1 DEF Client, Complete
  <2>2. CASE k.session # t
    BY <1>6, <2>1, <2>2
  <2>3. CASE k.session = t
    <3>1. x.buffer = o.buffer
      BY <1>3, <1>8, <2>3
    <3>2. o.skipped \in 0 .. o.sent
      BY <1>1, <1>7 DEF Sound, Transport
    <3>3. x.seen = After(x.skipped, x.sent)
      <4>1. Append(After(o.skipped, o.sent), n) = After(o.skipped, n)
        BY <1>2, <3>2, TailAppend
      <4> QED BY <1>3, <2>1, <2>3, <4>1 DEF Whole
    <3> QED BY <1>3, <1>6, <2>1, <2>3, <3>1, <3>3 DEF Whole
  <2> QED BY <2>2, <2>3
<1>13. NoInstall(k, v)
  BY <1>3, <1>6 DEF NoInstall
<1> QED BY <1>3, <1>5, <1>6, <1>10, <1>11, <1>12, <1>13 DEF v

\* The transport in hand is rejected and destroyed.
LEMMA RejectGood ==
  ASSUME NEW k, NEW t \in Transports, Good(k, {t}), Listening(k)
  PROVE  LET v == Destroy(Reject(k, t), t) IN
           /\ Good(v, {}) /\ Listening(v) /\ NoInstall(k, v) /\ v.session = k.session
           /\ \A u \in Transports \ {t} : v.transport[u] = k.transport[u]
<1> DEFINE v == Destroy(Reject(k, t), t)
<1>1. k \in Client
  BY DEF Good
<1>2. v = [k EXCEPT !.transport = [k.transport EXCEPT ![t] = Gone]]
  BY <1>1, DestroyRejected
<1> HIDE DEF v
<1>3. /\ v \in Client /\ v.active = k.active /\ v.session = k.session /\ v.pending = k.pending
      /\ v.generation = k.generation /\ v.wait = k.wait
      /\ v.transport = [k.transport EXCEPT ![t] = Gone]
  BY <1>1, <1>2, GoneType DEF Client
<1>4. \A u \in Transports : v.transport[u] = IF u = t THEN Gone ELSE k.transport[u]
  BY <1>1, <1>3 DEF Client
<1>5. t # k.active /\ t # k.pending /\ t # None
  BY ClientAssumption DEF Good
<1>6. \A u \in Transports : Sound(v, u) /\ Placed(v, {}, u)
  <2> TAKE u \in Transports
  <2>1. Sound(k, u) /\ Placed(k, {t}, u) /\ k.generation \in Nat
    BY <1>1 DEF Good, Client
  <2>2. CASE u = t
    BY <1>3, <1>4, <1>5, <2>1, <2>2, GoneType DEF Sound, Placed, Live, Trying
  <2>3. CASE u # t
    BY <1>3, <1>4, <2>1, <2>3 DEF Sound, Placed
  <2> QED BY <2>2, <2>3
<1>7. ~Idle(k) => v.transport[k.session].net = "open"
  BY <1>1, <1>4, <1>5 DEF Good, Client
<1>8. Good(v, {})
  BY <1>3, <1>6, <1>7 DEF Good, Idle
<1>9. Listening(v)
  <2>1. k.active # None => k.active \in Transports /\ v.transport[k.active] = k.transport[k.active]
    BY <1>1, <1>4, <1>5 DEF Client
  <2> QED BY <1>3, <2>1 DEF Listening
<1>10. NoInstall(k, v)
  BY <1>4, GoneType DEF NoInstall
<1> QED BY <1>3, <1>4, <1>8, <1>9, <1>10 DEF v

\* The candidate is taken out of the client: it is in hand.
LEMMA TakeGood ==
  ASSUME NEW k, Good(k, {}), Listening(k), k.pending # None
  PROVE  LET v == [k EXCEPT !.pending = None] IN
           /\ Good(v, {k.pending}) /\ Listening(v) /\ k.pending \in Transports
           /\ v.session = k.session /\ v.active = k.active
           /\ v.generation = k.generation /\ v.transport = k.transport
<1> DEFINE v == [k EXCEPT !.pending = None]
           p == k.pending
<1>1. k \in Client /\ p \in Transports /\ p # None /\ p # k.active
  BY DEF Good, Client
<1>2. /\ v \in Client /\ v.active = k.active /\ v.session = k.session /\ v.pending = None
      /\ v.generation = k.generation /\ v.wait = k.wait /\ v.transport = k.transport
  BY <1>1 DEF Client
<1> HIDE DEF v
<1>3. Good(v, {p})
  <2>1. \A u \in Transports : Sound(v, u) /\ Placed(v, {p}, u)
    <3> TAKE u \in Transports
    <3>1. Sound(k, u) /\ Placed(k, {}, u) /\ u # None
      BY ClientAssumption DEF Good
    <3> QED BY <1>2, <3>1 DEF Sound, Placed
  <2> QED BY <1>1, <1>2, <2>1 DEF Good, Idle
<1> QED BY <1>1, <1>2, <1>3 DEF v, Listening

\* The transport in hand is activated; what it gets of its buffer is decided next.
Activates(v, i, t, outcome) ==
  /\ Good(i, {}) /\ Listening(i) /\ i.active = t /\ i.session = t
  /\ i.generation = v.generation
  /\ i.transport[t].attempt = outcome
  /\ i.transport[t].skipped = 0 /\ i.transport[t].foreign = 0
  /\ i.transport[t].seen = <<>>
  /\ i.transport[t].buffer = Ordinals(i.transport[t].sent)
  /\ \A u \in Transports \ {t} : i.transport[u] = v.transport[u]

LEMMA ActivatedGood ==
  ASSUME NEW v, NEW t \in Transports, Good(v, {t}), v.active = None, Idle(v),
         v.transport[t].attempt \in Trying,
         NEW outcome \in {"installed", "rejected"}
  PROVE  Activates(v, Activated(v, t, outcome), t, outcome)
<1> DEFINE i == Activated(v, t, outcome)
           o == v.transport[t]
           x == [o EXCEPT !.attempt = outcome]
<1>1. v \in Client /\ o \in Transport /\ t # None
  BY ClientAssumption DEF Good, Client
<1>2. Sound(v, t) /\ Placed(v, {t}, t) /\ v.pending # t
  BY DEF Good
<1>3. /\ x \in Transport /\ x.attempt = outcome /\ x.net = o.net /\ x.since = o.since
      /\ x.buffer = o.buffer /\ x.sent = o.sent /\ x.seen = o.seen
      /\ x.skipped = o.skipped /\ x.foreign = o.foreign /\ x.nested = o.nested
  BY <1>1 DEF Transport, AttemptStates
<1>4. i = [v EXCEPT !.active = t, !.session = t, !.transport = [v.transport EXCEPT ![t] = x]]
  BY <1>1 DEF Activated, Client
<1> HIDE DEF i, x
<1>5. /\ i \in Client /\ i.active = t /\ i.session = t /\ i.pending = v.pending
      /\ i.generation = v.generation /\ i.wait = v.wait
      /\ i.transport = [v.transport EXCEPT ![t] = x]
  BY <1>1, <1>3, <1>4 DEF Client
<1>6. \A u \in Transports : i.transport[u] = IF u = t THEN x ELSE v.transport[u]
  BY <1>1, <1>5 DEF Client
<1>7. \A u \in Transports : Sound(i, u) /\ Placed(i, {}, u)
  <2> TAKE u \in Transports
  <2>1. Sound(v, u) /\ Placed(v, {t}, u) /\ u # None
    BY ClientAssumption DEF Good
  <2>2. CASE u = t
    BY <1>2, <1>3, <1>5, <1>6, <2>2 DEF Sound, Placed, Trying
  <2>3. CASE u # t
    BY <1>5, <1>6, <2>1, <2>3 DEF Sound, Placed
  <2> QED BY <2>2, <2>3
<1>8. Good(i, {})
  BY <1>2, <1>5, <1>7 DEF Good, Idle
<1>9. Listening(i)
  BY <1>1, <1>2, <1>3, <1>5, <1>6 DEF Listening, Sound
<1>10. i.transport[t] = x
  BY <1>6
<1> QED BY <1>2, <1>3, <1>5, <1>6, <1>8, <1>9, <1>10 DEF i, Sound, Activates

\* A change of what the session has got, or lost, of the active transport.
Replayed(k, v, t, x) ==
  /\ Good(v, {}) /\ Listening(v) /\ NoInstall(k, v)
  /\ v.active = k.active /\ v.session = k.session /\ v.generation = k.generation
  /\ v.transport[t] = x
  /\ \A u \in Transports \ {t} : v.transport[u] = k.transport[u]
  /\ \A u \in Transports : v.transport[u].attempt = k.transport[u].attempt

LEMMA ReplayGood ==
  ASSUME NEW k, NEW t \in Transports, Good(k, {}), Listening(k),
         k.transport[t].attempt \notin Trying \cup {"none"},
         NEW x \in Transport,
         x.net = k.transport[t].net, x.attempt = k.transport[t].attempt,
         x.since = k.transport[t].since, x.nested = k.transport[t].nested, x.skipped <= x.sent
  PROVE  Replayed(k, [k EXCEPT !.transport = [k.transport EXCEPT ![t] = x]], t, x)
<1> DEFINE v == [k EXCEPT !.transport = [k.transport EXCEPT ![t] = x]]
<1>1. k \in Client
  BY DEF Good
<1>2. /\ v \in Client /\ v.active = k.active /\ v.session = k.session /\ v.pending = k.pending
      /\ v.generation = k.generation /\ v.wait = k.wait
      /\ v.transport = [k.transport EXCEPT ![t] = x]
  BY <1>1 DEF Client
<1> HIDE DEF v
<1>3. \A u \in Transports : v.transport[u] = IF u = t THEN x ELSE k.transport[u]
  BY <1>1, <1>2 DEF Client
<1>4. \A u \in Transports : Sound(v, u) /\ Placed(v, {}, u)
  <2> TAKE u \in Transports
  <2>1. Sound(k, u) /\ Placed(k, {}, u)
    BY DEF Good
  <2>2. CASE u = t
    BY <1>2, <1>3, <2>1, <2>2 DEF Sound, Placed
  <2>3. CASE u # t
    BY <1>2, <1>3, <2>1, <2>3 DEF Sound, Placed
  <2> QED BY <2>2, <2>3
<1>5. ~Idle(k) => v.transport[k.session].net = "open"
  BY <1>1, <1>3 DEF Good, Client
<1>6. Good(v, {})
  BY <1>2, <1>4, <1>5 DEF Good, Idle
<1>7. Listening(v)
  BY <1>1, <1>2, <1>3 DEF Listening, Client
<1> QED BY <1>2, <1>3, <1>6, <1>7 DEF v, NoInstall, Replayed

LEMMA InstallGood ==
  ASSUME NEW i, NEW t \in Transports, Good(i, {}), Listening(i), i.active = t, i.session = t,
         i.transport[t].attempt \in {"installed", "rejected"},
         i.transport[t].skipped = 0, i.transport[t].foreign = 0, i.transport[t].seen = <<>>,
         i.transport[t].buffer = Ordinals(i.transport[t].sent)
  PROVE  /\ LET v == TakeBuffer(i, t) IN
              /\ Good(v, {}) /\ Listening(v) /\ Complete(v) /\ NoInstall(i, v)
              /\ v.generation = i.generation
              /\ \A u \in Transports : v.transport[u].attempt = i.transport[u].attempt
         /\ i.transport[t].attempt = "rejected" =>
              LET v == SkipBuffer(i, t) IN
              /\ Good(v, {}) /\ Listening(v) /\ Complete(v) /\ NoInstall(i, v)
              /\ \A u \in Transports : v.transport[u].attempt = i.transport[u].attempt
<1> DEFINE o == i.transport[t]
           x == [o EXCEPT !.seen = o.buffer]
           y == [o EXCEPT !.skipped = Len(o.buffer)]
           v == [i EXCEPT !.transport = [i.transport EXCEPT ![t] = x]]
           w == [i EXCEPT !.transport = [i.transport EXCEPT ![t] = y]]
<1>1. i \in Client /\ o \in Transport /\ o.sent \in Nat
  BY DEF Good, Client, Transport
<1>2. Len(o.buffer) = o.sent
  BY <1>1, OrdinalsAppend
<1>3. /\ x \in Transport /\ x.net = o.net /\ x.attempt = o.attempt /\ x.since = o.since
      /\ x.nested = o.nested /\ x.skipped = o.skipped /\ x.sent = o.sent /\ x.seen = o.buffer
      /\ x.foreign = o.foreign
  BY <1>1 DEF Transport
<1>4. /\ y \in Transport /\ y.net = o.net /\ y.attempt = o.attempt /\ y.since = o.since
      /\ y.nested = o.nested /\ y.skipped = o.sent /\ y.sent = o.sent /\ y.seen = o.seen
      /\ y.foreign = o.foreign /\ y.buffer = o.buffer
  BY <1>1, <1>2 DEF Transport
<1>5. TakeBuffer(i, t) = v /\ SkipBuffer(i, t) = w
  BY <1>1 DEF TakeBuffer, SkipBuffer, Client
<1>6. o.attempt \notin Trying \cup {"none"} /\ t # None
  BY ClientAssumption DEF Trying
<1> HIDE DEF x, y
<1>7. x.skipped <= x.sent /\ y.skipped <= y.sent
  BY <1>1, <1>3, <1>4
<1>8. Replayed(i, v, t, x)
  BY <1>3, <1>6, <1>7, ReplayGood
<1>9. Replayed(i, w, t, y)
  BY <1>4, <1>6, <1>7, ReplayGood
<1>10. Whole(x)
  BY <1>1, <1>3 DEF Whole, Ordinals
<1>11. o.attempt = "rejected" => Whole(y)
  <2>1. After(o.sent, o.sent) = <<>>
    BY <1>1 DEF After
  <2> QED BY <1>1, <1>2, <1>4, <2>1 DEF Whole
<1> HIDE DEF v, w, o
<1>12. Complete(v) /\ (o.attempt = "rejected" => Complete(w))
  BY <1>8, <1>9, <1>10, <1>11 DEF Complete, Replayed
<1> QED BY <1>5, <1>8, <1>9, <1>12 DEF o, Replayed

LEMMA MisdirectGood ==
  ASSUME NEW k, Good(k, {}), Listening(k), Complete(k), NEW c \in HostCalls, NEW n \in Nat,
         c.op = "attach" => c.on \in Transports /\ k.transport[c.on].attempt = "attached"
  PROVE  LET v == Misdirect(k, c, n) IN
           Good(v, {}) /\ Listening(v) /\ Complete(v) /\ NoInstall(k, v)
<1>1. CASE c.op # "attach"
  BY <1>1 DEF Misdirect, NoInstall
<1>2. CASE c.op = "attach"
  <2> DEFINE t == c.on
             o == k.transport[t]
             x == [o EXCEPT !.foreign = n]
             v == [k EXCEPT !.transport = [k.transport EXCEPT ![t] = x]]
  <2>1. k \in Client /\ t \in Transports /\ o \in Transport /\ o.attempt = "attached" /\ Sound(k, t)
    BY <1>2 DEF Good, Client
  <2>2. Misdirect(k, c, n) = v
    BY <1>2, <2>1 DEF Misdirect, Client
  <2>3. /\ x \in Transport /\ x.net = o.net /\ x.attempt = o.attempt /\ x.since = o.since
        /\ x.nested = o.nested /\ x.skipped = o.skipped /\ x.sent = o.sent /\ x.seen = o.seen
        /\ x.buffer = o.buffer /\ x.foreign = n
    BY <2>1 DEF Transport
  <2>4. x.skipped <= x.sent /\ o.attempt \notin Trying \cup {"none"}
    BY <2>1, <2>3 DEF Sound, Trying
  <2> HIDE DEF x, t
  <2>5. Replayed(k, v, t, x)
    BY <2>1, <2>3, <2>4, ReplayGood
  <2> HIDE DEF v
  <2>6. Complete(v)
    <3>1. Whole(o) => Whole(x)
      BY <2>1, <2>3 DEF Whole
    <3>2. k.session # None => k.session \in Transports
      BY <2>1 DEF Client
    <3> QED BY <2>5, <3>1, <3>2 DEF Complete, Replayed
  <2> QED BY <2>2, <2>5, <2>6 DEF Replayed
<1> QED BY <1>1, <1>2

-----------------------------------------------------------------------------
(* The inductive invariant, and what a step may install *)

IInv == Good(client, {}) /\ Listening(client) /\ Complete(client)

Wins ==
  \A t \in Transports :
    transport[t].attempt # "installed" /\ transport'[t].attempt = "installed"
      => transport[t].since = generation'

LEMMA ClientFields ==
  /\ client.active = active /\ client.session = session /\ client.pending = pending
  /\ client.generation = generation /\ client.transport = transport /\ client.wait = wait
BY DEF client

\* A step to the value k.
LEMMA StepTo ==
  ASSUME NEW k, Good(k, {}), Listening(k), Complete(k), Becomes(k)
  PROVE  /\ IInv'
         /\ NoInstall(client, k) => Wins
<1>1. k \in Client
  BY DEF Good
<1>2. client' = k
  <2>1. k = [active |-> k.active, session |-> k.session, pending |-> k.pending,
             generation |-> k.generation, transport |-> k.transport, wait |-> k.wait]
    BY <1>1 DEF Client
  <2> QED BY <2>1 DEF client, Becomes
<1>3. IInv'
  <2>1. Good(client', {}) /\ Listening(client') /\ Complete(client')
    BY <1>2
  <2> QED BY <2>1 DEF IInv
<1>4. NoInstall(client, k) => Wins
  BY ClientFields DEF NoInstall, Wins, Becomes
<1> QED BY <1>3, <1>4

\* What is known of the client between two calls.
LEMMA Known ==
  ASSUME IInv
  PROVE  /\ client \in Client /\ Good(client, {}) /\ Complete(client) /\ Listening(client)
         /\ session = active \/ session = None
         /\ \A t \in Transports :
              /\ transport[t] \in Transport /\ t # None
              /\ t = active \/ t = pending => transport[t].net \in Live
              /\ transport[t].attempt \in Trying <=> t = pending
              /\ transport[t].attempt = "none" => transport[t].net \notin Live
<1>1. /\ client \in Client /\ Good(client, {}) /\ Complete(client) /\ Listening(client)
      /\ session = active \/ session = None
  BY ClientFields DEF IInv, Good, Listening
<1>2. ASSUME NEW t \in Transports
      PROVE  /\ transport[t] \in Transport /\ t # None
             /\ t = active \/ t = pending => transport[t].net \in Live
             /\ transport[t].attempt \in Trying <=> t = pending
             /\ transport[t].attempt = "none" => transport[t].net \notin Live
  <2>1. Sound(client, t) /\ Placed(client, {}, t) /\ t # None
    BY <1>1, ClientAssumption DEF Good
  <2>2. transport[t] \in Transport
    BY <1>1, ClientFields DEF Client
  <2> QED BY <2>1, <2>2, ClientFields, UnusedType DEF Sound, Placed, Live, Trying
<1> QED BY <1>1, <1>2

\* A change of the state of one transport that exists, its traffic aside.
LEMMA ChangeGood ==
  ASSUME IInv, NEW t \in Transports, NEW x \in Transport,
         x.since = transport[t].since, x.buffer = transport[t].buffer,
         x.sent = transport[t].sent, x.seen = transport[t].seen,
         x.skipped = transport[t].skipped, x.foreign = transport[t].foreign,
         x.nested = transport[t].nested,
         x.net \in Live, transport[t].net \in Live,
         x.attempt = transport[t].attempt \/ {x.attempt, transport[t].attempt} \subseteq Trying
  PROVE  LET k == [client EXCEPT !.transport = [client.transport EXCEPT ![t] = x]] IN
           /\ Idle(client) \/ t # session \/ x.net = "open" => Good(k, {})
           /\ Listening(k) /\ Complete(k) /\ NoInstall(client, k)
           /\ k.active = active /\ k.session = session /\ k.pending = pending
           /\ k.generation = generation /\ k.wait = wait
           /\ k.transport = [transport EXCEPT ![t] = x]
           /\ \A u \in Transports :
                /\ k.transport[u].attempt = "none" <=> transport[u].attempt = "none"
                /\ Sound(k, u) /\ Placed(k, {}, u)
<1> DEFINE k == [client EXCEPT !.transport = [client.transport EXCEPT ![t] = x]]
<1>1. client \in Client /\ Good(client, {})
  BY DEF IInv, Good
<1>2. /\ k \in Client /\ k.active = active /\ k.session = session /\ k.pending = pending
      /\ k.generation = generation /\ k.wait = wait
      /\ k.transport = [transport EXCEPT ![t] = x]
  BY <1>1, ClientFields DEF Client
<1> HIDE DEF k
<1>3. \A u \in Transports : k.transport[u] = IF u = t THEN x ELSE transport[u]
  BY <1>1, <1>2, ClientFields DEF Client
<1>4. x.attempt # "none" /\ transport[t].attempt # "none"
  BY Known DEF Trying
<1>5. \A u \in Transports : Sound(k, u) /\ Placed(k, {}, u)
  <2> TAKE u \in Transports
  <2>1. Sound(client, u) /\ Placed(client, {}, u)
    BY <1>1 DEF Good
  <2>2. CASE u = t
    BY <1>2, <1>3, <1>4, <2>1, <2>2, ClientFields DEF Sound, Placed, Trying
  <2>3. CASE u # t
    BY <1>2, <1>3, <2>1, <2>3, ClientFields DEF Sound, Placed
  <2> QED BY <2>2, <2>3
<1>6. Idle(client) \/ t # session \/ x.net = "open" => Good(k, {})
  <2>1. ~Idle(client) => /\ session \in Transports
                         /\ t # session \/ x.net = "open" => k.transport[session].net = "open"
    BY <1>1, <1>3, ClientFields DEF Good, Client
  <2>2. /\ active # None => active # pending
        /\ ~Idle(client) => wait.on = session /\ session # None /\ session = active
    BY <1>1, ClientFields DEF Good
  <2> QED BY <1>2, <1>5, <2>1, <2>2, ClientFields DEF Good, Idle
<1>7. session # None => session \in Transports
  BY <1>1, ClientFields DEF Client
<1>8. active # None => active \in Transports
  BY <1>1, ClientFields DEF Client
<1>9. Listening(k)
  BY <1>2, <1>3, <1>8, ClientFields DEF IInv, Listening
<1>10. Complete(k)
  <2>1. transport[t].attempt \in Trying => session # t
    BY Known, <1>1, <1>7, ClientFields DEF Good
  <2>2. session = t => x.attempt = transport[t].attempt
    BY <2>1
  <2>3. session = t => (Whole(transport[t]) => Whole(x))
    BY <2>2 DEF Whole
  <2> QED BY <1>2, <1>3, <1>7, <2>3, ClientFields DEF IInv, Complete
<1>11. NoInstall(client, k)
  BY <1>3, ClientFields DEF NoInstall, Trying
<1>12. \A u \in Transports : k.transport[u].attempt = "none" <=> transport[u].attempt = "none"
  BY <1>3, <1>4
<1> QED BY <1>2, <1>5, <1>6, <1>9, <1>10, <1>11, <1>12 DEF k

\* A step that makes such a change, and keeps the connection the session listens to.
LEMMA ChangeStep ==
  ASSUME IInv, NEW t \in Transports, NEW x \in Transport,
         x.since = transport[t].since, x.buffer = transport[t].buffer,
         x.sent = transport[t].sent, x.seen = transport[t].seen,
         x.skipped = transport[t].skipped, x.foreign = transport[t].foreign,
         x.nested = transport[t].nested,
         x.net \in Live, transport[t].net \in Live,
         x.attempt = transport[t].attempt \/ {x.attempt, transport[t].attempt} \subseteq Trying,
         t # session \/ x.net = "open",
         transport' = [transport EXCEPT ![t] = x],
         UNCHANGED <<active, session, pending, generation, wait>>
  PROVE  IInv' /\ Wins
<1> DEFINE k == [client EXCEPT !.transport = [client.transport EXCEPT ![t] = x]]
<1>1. /\ Good(k, {}) /\ Listening(k) /\ Complete(k) /\ NoInstall(client, k)
      /\ k.active = active /\ k.session = session /\ k.pending = pending
      /\ k.generation = generation /\ k.wait = wait
      /\ k.transport = [transport EXCEPT ![t] = x]
  BY ChangeGood
<1> HIDE DEF k
<1>2. Becomes(k)
  BY <1>1 DEF Becomes
<1> QED BY <1>1, <1>2, StepTo

\* A step that changes the wait only.
LEMMA WaitGood ==
  ASSUME IInv, wait' \in Waits,
         wait'.for \in {"result", "rendering"} =>
           wait'.on = session /\ session # None /\ transport[session].net = "open",
         UNCHANGED <<active, session, pending, generation, transport>>
  PROVE  IInv' /\ Wins
<1> DEFINE w == wait'
           k == [client EXCEPT !.wait = w]
<1>1. client \in Client /\ Good(client, {})
  BY DEF IInv, Good
<1>2. /\ k \in Client /\ k.active = active /\ k.session = session /\ k.pending = pending
      /\ k.generation = generation /\ k.wait = w /\ k.transport = transport
  <2> HIDE DEF w
  <2>1. w \in Waits
    BY DEF w
  <2> QED BY <1>1, <2>1, ClientFields DEF Client
<1> HIDE DEF k
<1>3. Becomes(k)
  BY <1>2 DEF Becomes
<1>4. \A u \in Transports : Sound(k, u) /\ Placed(k, {}, u)
  <2> TAKE u \in Transports
  <2>1. Sound(client, u) /\ Placed(client, {}, u)
    BY <1>1 DEF Good
  <2> QED BY <1>2, <2>1, ClientFields DEF Sound, Placed
<1>5. active # None => active # pending
  BY <1>1, ClientFields DEF Good
<1>6. session # None => session = active
  BY Known
<1>7. Good(k, {})
  BY <1>2, <1>4, <1>5, <1>6 DEF Good, Idle
<1>8. Complete(k) /\ Listening(k) /\ NoInstall(client, k)
  BY <1>2, ClientFields DEF IInv, Complete, Listening, NoInstall
<1> QED BY <1>3, <1>7, <1>8, StepTo

-----------------------------------------------------------------------------
(* Every step keeps the invariant, and installs what it may *)

LEMMA CalledStep ==
  ASSUME IInv, NEW c \in HostCalls, NEW d \in HostCalls, Called(c, d)
  PROVE  IInv' /\ Wins
<1> DEFINE v == Perform(client, c, d)
<1>1. Good(v, {}) /\ Listening(v) /\ Complete(v) /\ NoInstall(client, v)
  BY Known, PerformGood DEF Called
<1>2. Becomes(v)
  BY DEF Called
<1> HIDE DEF v
<1> QED BY <1>1, <1>2, StepTo

LEMMA CallSteps ==
  ASSUME IInv, NEW t \in Transports, NEW d \in HostCalls,
         Connect(t, d) \/ ReplaceTransport(t) \/ AttachTransport(t, d) \/ Disconnect(d)
  PROVE  IInv' /\ Wins
<1>1. /\ Nothing \in HostCalls /\ Disconnecting \in HostCalls
      /\ \A o \in {"connect", "replace", "attach"} : [op |-> o, on |-> t] \in HostCalls
  BY DEF HostCalls
<1> QED BY <1>1, CalledStep DEF Connect, ReplaceTransport, AttachTransport, Disconnect

LEMMA WaitSteps ==
  ASSUME IInv, BeginAction \/ WaitTimeout \/ ActionResult \/ AwaitRendering \/ Rendered
  PROVE  IInv' /\ Wins
<1>1. session \in Transports \cup {None}
  BY Known, ClientFields DEF Client
<1>2. NoWait \in Waits /\ NoWait.for = "nothing"
  BY DEF NoWait, Waits
<1>3. CASE BeginAction
  <2>1. wait'.on = session /\ wait' \in Waits
    BY <1>1, <1>3 DEF BeginAction, Waits
  <2> QED BY <1>1, <1>3, <2>1, WaitGood DEF BeginAction
<1>4. CASE WaitTimeout \/ Rendered
  BY <1>2, <1>4, WaitGood DEF WaitTimeout, Rendered
<1>5. CASE ActionResult
  <2>1. wait' \in Waits /\ wait'.for = "registering"
    BY <1>5 DEF ActionResult, Waits
  <2> QED BY <1>5, <2>1, WaitGood DEF ActionResult
<1>6. CASE AwaitRendering
  <2>1. CASE wait' = NoWait
    BY <1>2, <1>6, <2>1, WaitGood DEF AwaitRendering
  <2>2. CASE wait' # NoWait
    <3>1. wait' \in Waits /\ wait'.on = session /\ session # None /\ transport[session].net = "open"
      BY <1>1, <1>6, <2>2 DEF AwaitRendering, Waits
    <3> QED BY <1>6, <3>1, WaitGood DEF AwaitRendering
  <2> QED BY <2>1, <2>2
<1> QED BY <1>3, <1>4, <1>5, <1>6

LEMMA OpenedStep ==
  ASSUME IInv, NEW t \in Transports, Opened(t)
  PROVE  IInv' /\ Wins
<1> DEFINE x == [transport[t] EXCEPT !.net = "open"]
<1>1. transport[t] \in Transport /\ transport[t].net \in Live
  BY Known DEF Opened, Live
<1>2. /\ x \in Transport /\ x.net = "open" /\ x.attempt = transport[t].attempt
      /\ x.since = transport[t].since /\ x.buffer = transport[t].buffer
      /\ x.sent = transport[t].sent /\ x.seen = transport[t].seen
      /\ x.skipped = transport[t].skipped /\ x.foreign = transport[t].foreign
      /\ x.nested = transport[t].nested
  BY <1>1 DEF Transport, Nets
<1>3. transport' = [transport EXCEPT ![t] = x] /\ UNCHANGED <<active, session, pending, generation, wait>>
  BY DEF Opened
<1> HIDE DEF x
<1>4. x.net \in Live
  BY <1>2 DEF Live
<1> QED BY <1>1, <1>2, <1>3, <1>4, ChangeStep

LEMMA LegacyStep ==
  ASSUME IInv, NEW t \in Transports, LegacyMode(t)
  PROVE  IInv' /\ Wins
<1> DEFINE x == [transport[t] EXCEPT !.mode = "legacy"]
<1>1. transport[t] \in Transport /\ transport[t].net = "open" /\ transport[t].net \in Live
  BY Known DEF LegacyMode, Live
<1>2. /\ x \in Transport /\ x.net = transport[t].net /\ x.attempt = transport[t].attempt
      /\ x.since = transport[t].since /\ x.buffer = transport[t].buffer
      /\ x.sent = transport[t].sent /\ x.seen = transport[t].seen
      /\ x.skipped = transport[t].skipped /\ x.foreign = transport[t].foreign
      /\ x.nested = transport[t].nested
  BY <1>1 DEF Transport
<1>3. transport' = [transport EXCEPT ![t] = x] /\ UNCHANGED <<active, session, pending, generation, wait>>
  BY DEF LegacyMode
<1> HIDE DEF x
<1> QED BY <1>1, <1>2, <1>3, ChangeStep

LEMMA DeliverStep ==
  ASSUME IInv, NEW t \in Transports, Deliver(t)
  PROVE  IInv' /\ Wins
<1>1. PICK isInfo \in BOOLEAN : Becomes(Arrive(client, t, isInfo))
  BY DEF Deliver
<1> DEFINE v == Arrive(client, t, isInfo)
           k == client
           H == {}
<1>2. transport[t].net \in Live /\ transport[t].sent < MaxMessages
  BY DEF Deliver, Live
<1>3. /\ Good(k, H) /\ H \in SUBSET Transports /\ Listening(k) /\ Complete(k)
      /\ k.transport[t].net \in Live /\ k.transport[t].sent < MaxMessages
  BY <1>2, Known, ClientFields
<1> HIDE DEF k, H, v
<1>4. Good(v, H) /\ Listening(v) /\ (Complete(k) => Complete(v)) /\ NoInstall(k, v)
  BY <1>3, ArriveGood DEF v, k
<1> QED BY <1>1, <1>3, <1>4, StepTo DEF v, k, H

LEMMA GiveUpStep ==
  ASSUME IInv, NEW t \in Transports, t = pending, GiveUp(t)
  PROVE  IInv' /\ Wins
<1> DEFINE k == [client EXCEPT !.pending = None]
           v == Destroy(Reject(k, t), t)
<1>1. client \in Client /\ client.pending = t /\ t # None
  BY Known, ClientFields
<1>2. /\ Good(k, {t}) /\ Listening(k) /\ k.session = session /\ k.transport = transport
  BY <1>1, Known, TakeGood, ClientFields
<1>3. [Destroy(Reject(client, t), t) EXCEPT !.pending = None] = v
  <2>1. k \in Client
    BY <1>2 DEF Good
  <2>2. v = [k EXCEPT !.transport = [k.transport EXCEPT ![t] = Gone]]
    BY <2>1, DestroyRejected
  <2>3. Destroy(Reject(client, t), t) = [client EXCEPT !.transport = [client.transport EXCEPT ![t] = Gone]]
    BY <1>1, DestroyRejected
  <2> QED BY <1>1, <1>2, <2>2, <2>3, ClientFields DEF Client
<1> HIDE DEF k, v
<1>4. /\ Good(v, {}) /\ Listening(v) /\ NoInstall(k, v) /\ v.session = session
      /\ \A u \in Transports \ {t} : v.transport[u] = transport[u]
  BY <1>2, RejectGood DEF v
<1>5. session # None => session \in Transports \ {t}
  BY <1>1, Known, ClientFields DEF Client, Good
<1>6. Complete(v)
  BY <1>4, <1>5, ClientFields DEF IInv, Complete
<1>7. NoInstall(client, v)
  BY <1>2, <1>4, ClientFields DEF NoInstall
<1>8. Becomes(v)
  BY <1>3 DEF GiveUp
<1> QED BY <1>4, <1>6, <1>7, <1>8, StepTo

LEMMA HandshakeSteps ==
  ASSUME IInv, NEW t \in Transports, HandshakeEnds(t) \/ HandshakeFails(t)
  PROVE  IInv' /\ Wins
<1>1. t = pending
  BY Known DEF HandshakeEnds, HandshakeFails, Trying
<1>2. CASE GiveUp(t)
  BY <1>1, <1>2, GiveUpStep
<1>3. CASE ~GiveUp(t)
  <2> DEFINE x == [transport[t] EXCEPT !.attempt = "ready"]
  <2>1. /\ transport[t].net = "open" /\ transport' = [transport EXCEPT ![t] = x]
        /\ transport[t].attempt = "handshake"
        /\ UNCHANGED <<active, session, pending, generation, wait>>
    BY <1>3 DEF HandshakeEnds, HandshakeFails
  <2>2. transport[t] \in Transport /\ transport[t].net \in Live
    BY <2>1, Known DEF Live
  <2>3. /\ x \in Transport /\ x.net = transport[t].net /\ x.attempt = "ready"
        /\ x.since = transport[t].since /\ x.buffer = transport[t].buffer
        /\ x.sent = transport[t].sent /\ x.seen = transport[t].seen
        /\ x.skipped = transport[t].skipped /\ x.foreign = transport[t].foreign
        /\ x.nested = transport[t].nested
    BY <2>2 DEF Transport, AttemptStates
  <2> HIDE DEF x
  <2>4. {x.attempt, transport[t].attempt} \subseteq Trying
    BY <2>1, <2>3 DEF Trying
  <2> QED BY <2>1, <2>2, <2>3, <2>4, ChangeStep
<1> QED BY <1>2, <1>3

LEMMA RemoteCloseStep ==
  ASSUME IInv, NEW t \in Transports, RemoteClose(t)
  PROVE  IInv' /\ Wins
<1> DEFINE x == [transport[t] EXCEPT !.net = "closed"]
           closed(k) == [k EXCEPT !.transport[t].net = "closed"]
           k1 == [client EXCEPT !.transport = [client.transport EXCEPT ![t] = x]]
           k2 == closed(AbortWaits(client))
<1>1. transport[t].net = "open" /\ t # pending /\ transport[t] \in Transport /\ client \in Client
  BY Known DEF RemoteClose
<1>2. /\ x \in Transport /\ x.net = "closed" /\ x.attempt = transport[t].attempt
      /\ x.since = transport[t].since /\ x.buffer = transport[t].buffer
      /\ x.sent = transport[t].sent /\ x.seen = transport[t].seen
      /\ x.skipped = transport[t].skipped /\ x.foreign = transport[t].foreign
      /\ x.nested = transport[t].nested
  BY <1>1 DEF Transport, Nets
<1>3. closed(client) = k1
  BY <1>1, ClientFields DEF Client
<1> HIDE DEF x
<1>4. x.net \in Live /\ transport[t].net \in Live
  BY <1>1, <1>2 DEF Live
<1>5. /\ Idle(client) \/ t # session => Good(k1, {})
      /\ Listening(k1) /\ Complete(k1) /\ NoInstall(client, k1)
      /\ k1.active = active /\ k1.session = session /\ k1.pending = pending
      /\ k1.generation = generation /\ k1.wait = wait
      /\ k1.transport = [transport EXCEPT ![t] = x]
      /\ \A u \in Transports :
           /\ k1.transport[u].attempt = "none" <=> transport[u].attempt = "none"
           /\ Sound(k1, u) /\ Placed(k1, {}, u)
  BY <1>2, <1>4, ChangeGood
<1>6. CASE session # t
  <2>1. Becomes(k1)
    BY <1>3, <1>6 DEF RemoteClose
  <2> HIDE DEF k1
  <2> QED BY <1>5, <1>6, <2>1, StepTo
<1>7. CASE session = t
  <2>1. PICK c \in HostCalls, d \in HostCalls : MayNest(client, c, d) /\ Becomes(Perform(k2, c, d))
    BY <1>7 DEF RemoteClose
  <2>2. k2 = [k1 EXCEPT !.wait = AbortWaits(client).wait]
    BY <1>1, <1>2, ClientFields DEF AbortWaits, Client, x
  <2>3. k1 \in Client
    <3> HIDE DEF k1
    <3>1. [transport EXCEPT ![t] = x] \in [Transports -> Transport]
      BY <1>1, <1>2, ClientFields DEF Client
    <3> QED BY <1>1, <1>2, <3>1, ClientFields DEF Client, k1
  <2>4. AbortWaits(client).wait \in Waits /\ Idle(AbortWaits(client))
    BY <1>1, AbortWaitsIdle DEF Client
  <2>5. AbortWaits(client).wait.for \notin {"result", "rendering"}
    BY <2>4 DEF Idle
  <2> HIDE DEF k1, k2
  <2>6. /\ k2 \in Client /\ k2.active = active /\ k2.session = session /\ k2.pending = pending
        /\ k2.generation = generation /\ k2.transport = k1.transport /\ Idle(k2)
    BY <1>5, <2>2, <2>3, <2>4, <2>5 DEF Client, Idle
  <2>7. Good(k2, {})
    <3>1. \A u \in Transports : Sound(k2, u) /\ Placed(k2, {}, u)
      <4> TAKE u \in Transports
      <4>1. Sound(k1, u) /\ Placed(k1, {}, u)
        BY <1>5
      <4>2. /\ k1.active = active /\ k1.pending = pending /\ k1.generation = generation
            /\ k2.active = active /\ k2.pending = pending /\ k2.generation = generation
            /\ k2.transport = k1.transport
        BY <1>5, <2>6
      <4>3. Sound(k2, u)
        BY <4>1, <4>2 DEF Sound
      <4> QED BY <4>1, <4>2, <4>3 DEF Placed
    <3>2. active # None => active # pending
      BY Known, ClientFields DEF Good
    <3> QED BY <2>6, <3>1, <3>2 DEF Good
  <2>8. Listening(k2) /\ Complete(k2) /\ NoInstall(client, k2)
    BY <1>5, <2>6 DEF Listening, Complete, NoInstall
  <2>9. MayNest(k2, c, d)
    <3>1. /\ c.on # None => c.on \in Transports
          /\ d.on # None => d.on \in Transports
      BY DEF HostCalls, Nothing, Disconnecting
    <3> QED BY <1>5, <2>1, <2>6, <3>1, ClientFields DEF MayNest, MayCall
  <2> DEFINE v == Perform(k2, c, d)
  <2>10. Good(v, {}) /\ Listening(v) /\ Complete(v) /\ NoInstall(k2, v)
    BY <2>7, <2>8, <2>9, PerformGood
  <2>11. Becomes(v)
    BY <2>1
  <2> HIDE DEF v
  <2>12. NoInstall(client, v)
    BY <2>8, <2>10 DEF NoInstall
  <2> QED BY <2>10, <2>11, <2>12, StepTo
<1> QED BY <1>6, <1>7

\* The attempt of t is decided: t is active, in a client that had no transport.
LEMMA FinishStep ==
  ASSUME IInv, NEW t \in Transports, transport[t].since = generation,
         NEW v, Good(v, {t}), v.active = None, Idle(v), v.transport[t].attempt \in Trying,
         v.generation = generation, NoInstall(client, v), Finish(v, t)
  PROVE  IInv' /\ Wins
<1> DEFINE w == TakeBuffer(Activated(v, t, "installed"), t)
           r == Activated(v, t, "rejected")
<1>1. CASE Becomes(w)
  <2> DEFINE i == Activated(v, t, "installed")
  <2>1. Activates(v, i, t, "installed")
    BY ActivatedGood
  <2>2. w = TakeBuffer(i, t)
    OBVIOUS
  <2> HIDE DEF i, w
  <2>3. /\ Good(w, {}) /\ Listening(w) /\ Complete(w) /\ w.generation = i.generation
        /\ \A u \in Transports : w.transport[u].attempt = i.transport[u].attempt
    BY <2>1, <2>2, InstallGood DEF Activates
  <2>4. IInv'
    BY <1>1, <2>3, StepTo
  <2>5. generation' = generation /\ transport' = w.transport
    BY <1>1, <2>1, <2>3 DEF Becomes, Activates
  <2>6. \A u \in Transports : transport'[u].attempt = "installed" /\ u # t =>
                                transport[u].attempt = "installed"
    BY <2>1, <2>3, <2>5, ClientFields DEF NoInstall, Activates
  <2> QED BY <2>4, <2>5, <2>6 DEF Wins
<1>2. CASE ~Becomes(w)
  <2> HIDE DEF w
  <2>1. Activates(v, r, t, "rejected")
    BY ActivatedGood
  <2>2. \/ \E d \in HostCalls : MayCall(r, d) /\ Becomes(Release(r, d))
        \/ \E c \in HostCalls, d \in HostCalls :
             /\ MayNest(r, c, d)
             /\ \/ Becomes(Perform(SkipBuffer(r, t), c, d))
                \/ \E n \in 0 .. Len(r.transport[t].buffer) - 1 :
                     Becomes(Misdirect(Perform(TakeBuffer(r, t), c, d), c, n))
    BY <1>2 DEF Finish, w
  <2> HIDE DEF r
  <2>3. NoInstall(client, r)
    BY <2>1, ClientFields DEF NoInstall, Activates
  <2>4. ASSUME NEW d \in HostCalls, MayCall(r, d), Becomes(Release(r, d))
        PROVE  IInv' /\ Wins
    <3> DEFINE e == Release(r, d)
               H == {}
    <3>1. Good(r, H) /\ H \in SUBSET Transports /\ Listening(r)
      BY <2>1 DEF Activates
    <3> HIDE DEF H
    <3>2. Good(e, H) /\ NoInstall(r, e) /\ Listening(e) /\ e.session = None
      BY <2>4, <3>1, ReleaseGood
    <3>3. Becomes(e)
      BY <2>4
    <3> HIDE DEF e
    <3>4. Complete(e) /\ NoInstall(client, e)
      BY <2>3, <3>2 DEF Complete, NoInstall
    <3> QED BY <3>2, <3>3, <3>4, StepTo DEF H
  <2>5. ASSUME NEW k, Good(k, {}), Listening(k), Complete(k), NoInstall(r, k),
               \A u \in Transports : k.transport[u].attempt = r.transport[u].attempt,
               NEW c \in HostCalls, NEW d \in HostCalls, MayNest(r, c, d)
        PROVE  /\ Becomes(Perform(k, c, d)) => IInv' /\ Wins
               /\ \A n \in Nat : Becomes(Misdirect(Perform(k, c, d), c, n)) => IInv' /\ Wins
    <3> DEFINE e == Perform(k, c, d)
    <3>1. MayNest(k, c, d)
      <4>1. /\ c.on # None => c.on \in Transports
            /\ d.on # None => d.on \in Transports
        BY DEF HostCalls, Nothing, Disconnecting
      <4> QED BY <2>5, <4>1 DEF MayNest, MayCall
    <3>2. /\ Good(e, {}) /\ Listening(e) /\ Complete(e) /\ NoInstall(k, e)
          /\ c.op = "attach" => c.on \in Transports /\ e.transport[c.on].attempt = "attached"
      BY <2>5, <3>1, PerformGood
    <3> HIDE DEF e
    <3>3. NoInstall(client, e)
      BY <2>3, <2>5, <3>2 DEF NoInstall
    <3>4. Becomes(e) => IInv' /\ Wins
      BY <3>2, <3>3, StepTo
    <3>5. ASSUME NEW n \in Nat, Becomes(Misdirect(e, c, n))
          PROVE  IInv' /\ Wins
      <4> DEFINE f == Misdirect(e, c, n)
      <4>1. Good(f, {}) /\ Listening(f) /\ Complete(f) /\ NoInstall(e, f)
        BY <3>2, MisdirectGood
      <4>2. Becomes(f)
        BY <3>5
      <4> HIDE DEF f
      <4>3. NoInstall(client, f)
        BY <3>3, <4>1 DEF NoInstall
      <4> QED BY <4>1, <4>2, <4>3, StepTo
    <3> QED BY <3>4, <3>5 DEF e
  <2> DEFINE y == SkipBuffer(r, t)
             z == TakeBuffer(r, t)
  <2>6. /\ Good(y, {}) /\ Listening(y) /\ Complete(y) /\ NoInstall(r, y)
        /\ \A u \in Transports : y.transport[u].attempt = r.transport[u].attempt
    BY <2>1, InstallGood DEF Activates
  <2>7. /\ Good(z, {}) /\ Listening(z) /\ Complete(z) /\ NoInstall(r, z)
        /\ \A u \in Transports : z.transport[u].attempt = r.transport[u].attempt
    BY <2>1, InstallGood DEF Activates
  <2>8. \A n \in 0 .. Len(r.transport[t].buffer) - 1 : n \in Nat
    OBVIOUS
  <2>9. \/ \E d \in HostCalls : MayCall(r, d) /\ Becomes(Release(r, d))
        \/ \E c \in HostCalls, d \in HostCalls :
             /\ MayNest(r, c, d)
             /\ \/ Becomes(Perform(y, c, d))
                \/ \E n \in Nat : Becomes(Misdirect(Perform(z, c, d), c, n))
    BY <2>2, <2>8
  <2> HIDE DEF y, z
  <2> QED BY <2>4, <2>5, <2>6, <2>7, <2>9
<1> QED BY <1>1, <1>2

LEMMA InstallStep ==
  ASSUME IInv, NEW t \in Transports, Install(t)
  PROVE  IInv' /\ Wins
<1> DEFINE k == [client EXCEPT !.pending = None]
           Late(late) == IF late THEN Arrive(k, t, FALSE) ELSE k
<1>1. PICK c \in HostCalls, late \in BOOLEAN, aborted \in BOOLEAN :
        /\ MayCall(k, c)
        /\ late => transport[t].sent < MaxMessages
        /\ LET v == Release(Late(late), c)
           IN IF Superseded(k, v) \/ aborted
                THEN Becomes(Destroy(Reject(v, t), t))
                ELSE Finish(v, t)
  BY DEF Install
<1>2. transport[t].attempt = "ready"
  BY DEF Install
<1>3. t = pending /\ t # None /\ transport[t].net \in Live /\ transport[t].since = generation
  <2>1. t = pending /\ t # None
    BY <1>2, Known DEF Trying
  <2> QED BY <2>1, Known, ClientFields DEF Good, Placed
<1>4. /\ Good(k, {t}) /\ Listening(k) /\ k.generation = generation /\ k.transport = transport
  BY <1>3, Known, TakeGood, ClientFields
<1> DEFINE l == Late(late)
           v == Release(l, c)
<1> HIDE DEF k
<1>5. /\ Good(l, {t}) /\ Listening(l) /\ NoInstall(k, l) /\ l.generation = generation
      /\ \A u \in Transports : l.transport[u].attempt = transport[u].attempt
  <2>1. CASE ~late
    BY <1>4, <2>1 DEF NoInstall
  <2>2. CASE late
    <3> DEFINE w == Arrive(k, t, FALSE)
               H == {t}
               b == FALSE
    <3>1. /\ H \in SUBSET Transports /\ Good(k, H) /\ b \in BOOLEAN
          /\ k.transport[t].net \in Live /\ k.transport[t].sent < MaxMessages
      BY <1>1, <1>3, <1>4, <2>2
    <3>2. w = Arrive(k, t, b)
      OBVIOUS
    <3> HIDE DEF w, H, b
    <3>3. /\ Good(w, H) /\ Listening(w) /\ NoInstall(k, w) /\ w.generation = k.generation
          /\ \A u \in Transports : w.transport[u].attempt = k.transport[u].attempt
      BY <1>4, <3>1, <3>2, ArriveGood
    <3>4. l = w
      BY <2>2 DEF w
    <3> HIDE DEF l
    <3> QED BY <1>4, <3>3, <3>4 DEF H
  <2> QED BY <2>1, <2>2
<1>6. MayCall(l, c)
  <2>1. c.on # None => c.on \in Transports
    BY DEF HostCalls, Nothing, Disconnecting
  <2> QED BY <1>1, <1>4, <1>5, <2>1 DEF MayCall
<1>7. t # c.on
  BY <1>1, <1>2, <1>3, <1>4 DEF MayCall
<1>8. IF Superseded(k, v) \/ aborted THEN Becomes(Destroy(Reject(v, t), t)) ELSE Finish(v, t)
  BY <1>1 DEF l, v
<1> HIDE DEF l
<1>9. /\ Good(v, {t}) /\ Untouched(l, v, {t}, {c.on}) /\ NoInstall(l, v) /\ Idle(v)
      /\ Listening(v) /\ v.session = None
      /\ v.active # None => v.generation # l.generation
  <2> DEFINE H == {t}
  <2>1. H \in SUBSET Transports /\ Good(l, H)
    BY <1>5
  <2> HIDE DEF H
  <2>2. /\ Good(v, H) /\ Untouched(l, v, H, {c.on}) /\ NoInstall(l, v) /\ Idle(v)
        /\ Listening(v) /\ v.session = None
        /\ v.active # None => v.generation # l.generation
    BY <1>5, <1>6, <2>1, ReleaseGood
  <2> QED BY <2>2 DEF H
<1> HIDE DEF v
<1>10. v.transport[t].attempt = "ready" /\ NoInstall(client, v)
  <2>1. v.transport[t] = l.transport[t]
    BY <1>7, <1>9 DEF Untouched
  <2> QED BY <1>2, <1>4, <1>5, <1>9, <2>1, ClientFields DEF NoInstall
<1>11. CASE Superseded(k, v) \/ aborted
  <2> DEFINE d == Destroy(Reject(v, t), t)
  <2>1. Good(d, {}) /\ Listening(d) /\ NoInstall(v, d) /\ d.session = None
    BY <1>9, RejectGood
  <2>2. Becomes(d)
    BY <1>8, <1>11
  <2> HIDE DEF d
  <2>3. Complete(d) /\ NoInstall(client, d)
    BY <1>10, <2>1 DEF Complete, NoInstall
  <2> QED BY <2>1, <2>2, <2>3, StepTo
<1>12. CASE ~(Superseded(k, v) \/ aborted)
  <2>1. v.generation = generation /\ v.active = None
    BY <1>4, <1>5, <1>9, <1>12 DEF Superseded
  <2>2. Finish(v, t) /\ v.transport[t].attempt \in Trying
    BY <1>8, <1>10, <1>12 DEF Trying
  <2> QED BY <1>3, <1>9, <1>10, <2>1, <2>2, FinishStep
<1> QED BY <1>11, <1>12

-----------------------------------------------------------------------------
(* The invariant, and the theorems *)

LEMMA InitGood == Init => IInv
<1> SUFFICES ASSUME Init PROVE IInv
  OBVIOUS
<1>1. \A t \in Transports : transport[t] = Unused /\ t # None
  BY ClientAssumption DEF Init
<1>2. NoWait \in Waits /\ NoWait.for = "nothing"
  BY DEF NoWait, Waits
<1>3. transport \in [Transports -> Transport]
  BY UnusedType DEF Init
<1>4. client \in Client
  <2>1. /\ active = None /\ session = None /\ pending = None /\ generation = 0 /\ wait = NoWait
    BY DEF Init
  <2> QED BY <1>2, <1>3, <2>1 DEF client, Client
<1>5. \A t \in Transports : Sound(client, t) /\ Placed(client, {}, t)
  <2> TAKE t \in Transports
  <2>1. /\ client.transport[t] = Unused /\ client.generation = 0
        /\ client.active = None /\ client.pending = None /\ t # None
    BY <1>1, ClientFields DEF Init
  <2> QED BY <2>1, UnusedType DEF Sound, Placed, Live, Trying
<1>6. Good(client, {})
  BY <1>2, <1>4, <1>5, ClientFields DEF Good, Idle, Init
<1> QED BY <1>6, ClientFields DEF IInv, Listening, Complete, Init

LEMMA StepGood == IInv /\ [Next]_vars => IInv' /\ [Wins]_vars
<1> SUFFICES ASSUME IInv, [Next]_vars PROVE IInv' /\ [Wins]_vars
  OBVIOUS
<1>1. CASE UNCHANGED vars
  <2>1. client' = client
    BY <1>1 DEF vars, client
  <2> QED BY <1>1, <2>1 DEF IInv
<1>2. CASE Next
  <2>1. ASSUME NEW t \in Transports, NEW d \in HostCalls, Connect(t, d) \/ AttachTransport(t, d)
        PROVE  IInv' /\ Wins
    BY <2>1, CallSteps
  <2>2. ASSUME NEW t \in Transports, ReplaceTransport(t) \/ Network(t) \/ Attempt(t)
        PROVE  IInv' /\ Wins
    <3>1. CASE ReplaceTransport(t)
      <4>1. Nothing \in HostCalls /\ [op |-> "replace", on |-> t] \in HostCalls
        BY DEF HostCalls
      <4> QED BY <3>1, <4>1, CalledStep DEF ReplaceTransport
    <3>2. CASE Network(t)
      BY <3>2, OpenedStep, DeliverStep, LegacyStep, RemoteCloseStep DEF Network
    <3>3. CASE Attempt(t)
      BY <3>3, HandshakeSteps, InstallStep DEF Attempt
    <3> QED BY <2>2, <3>1, <3>2, <3>3
  <2>3. ASSUME NEW d \in HostCalls, Disconnect(d)
        PROVE  IInv' /\ Wins
    <3>1. Disconnecting \in HostCalls /\ Called(Disconnecting, d)
      BY <2>3 DEF HostCalls, Disconnect
    <3> QED BY <3>1, CalledStep
  <2>4. CASE BeginAction \/ WaitTimeout \/ ActionResult \/ AwaitRendering \/ Rendered
    BY <2>4, WaitSteps
  <2> QED BY <1>2, <2>1, <2>2, <2>3, <2>4 DEF Next
<1> QED BY <1>1, <1>2

LEMMA Always == Spec => []IInv
BY InitGood, StepGood, PTL DEF Spec

\* Types, and the candidate is the transport with an attempt under way
\* (RendererClient.ts:76-133).
THEOREM TypeCorrect == Spec => []TypeOK
<1>1. IInv => TypeOK
  <2> SUFFICES ASSUME IInv PROVE TypeOK
    OBVIOUS
  <2>1. \A t \in Transports : /\ transport[t] \in Transport /\ transport[t].since <= generation
                              /\ transport[t].skipped <= transport[t].sent
                              /\ transport[t].attempt \in Trying <=> t = pending
    BY Known, ClientFields DEF Good, Sound
  <2>2. /\ active \in Transports \cup {None} /\ pending \in Transports \cup {None}
        /\ session \in Transports \cup {None} /\ generation \in Nat /\ wait \in Waits
    BY Known, ClientFields DEF Client
  <2>3. \A t \in Transports : transport[t].since \in 0 .. generation
                              /\ transport[t].skipped \in 0 .. transport[t].sent
    <3> TAKE t \in Transports
    <3>1. transport[t].since \in Nat /\ transport[t].since <= generation
          /\ transport[t].skipped \in Nat /\ transport[t].skipped <= transport[t].sent
          /\ transport[t].sent \in Nat
      BY <2>1 DEF Transport
    <3> QED BY <2>2, <3>1
  <2> QED BY <2>1, <2>2, <2>3 DEF TypeOK, Transport, Waits, Nets, AttemptStates, Trying
<1> QED BY <1>1, Always, PTL

\* No transport is lost or kept twice, the session listens to the active one, and a wait
\* ends with its connection, whatever the host calls from its callbacks; all of it but for
\* a transport attached from a close listener, as stated there (connect, replaceTransport,
\* attachTransport and their retirements, RendererClient.ts:61-164).
THEOREM Ownership == Spec => []EveryTransportIsOwned
<1>1. IInv => EveryTransportIsOwned
  <2> SUFFICES ASSUME IInv PROVE EveryTransportIsOwned
    OBVIOUS
  <2>1. session = (IF active # None /\ ~transport[active].nested THEN active ELSE None)
    BY ClientFields DEF IInv, Listening
  <2>2. active # None => active # pending
    BY Known, ClientFields DEF Good
  <2>3. wait.for \in {"result", "rendering"} =>
          wait.on = session /\ session # None /\ transport[session].net = "open"
    BY Known, ClientFields DEF Good, Idle
  <2>4. ASSUME NEW t \in Transports
        PROVE  /\ t \in {active, pending} => transport[t].net \in Live
               /\ transport[t].net \in Live => t \in {active, pending} \/ transport[t].nested
    <3>1. Placed(client, {}, t)
      BY Known DEF Good
    <3> QED BY <3>1, ClientFields DEF Placed
  <2> QED BY <2>1, <2>2, <2>3, <2>4 DEF EveryTransportIsOwned, Live
<1> QED BY <1>1, Always, PTL

\* The session has got every message of the transport it listens to, in wire order, but
\* for the buffer of an attempt that onActivated superseded (the handshake's buffer and
\* its replay, RendererClient.ts:96-133).
THEOREM SwapLosesNothing == Spec => []NothingLostInTheSwap
<1>1. IInv => NothingLostInTheSwap
  BY ClientFields DEF IInv, Complete, Whole, After, NothingLostInTheSwap
<1> QED BY <1>1, Always, PTL

\* An attempt succeeds only if no operation of the host began after it, re-entrant ones
\* included (assertCurrent, RendererClient.ts:91-95).
THEOREM LastOperationWins == Spec => LatestOperationWins
<1>1. [Wins]_vars => [\A t \in Transports :
         transport[t].attempt # "installed" /\ transport'[t].attempt = "installed"
           => transport[t].since = generation']_vars
  BY DEF Wins
<1> QED BY <1>1, Always, StepGood, PTL DEF Spec, LatestOperationWins
=============================================================================
