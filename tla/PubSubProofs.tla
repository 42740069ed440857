---------------------------- MODULE PubSubProofs -----------------------------
(***************************************************************************)
(* Proofs about the group server, for any number of clients and            *)
(* subscriptions, with repeated, lost and late calls or without.  The type *)
(* invariant is inductive: it bounds both lists and says that the timeout  *)
(* thread has somebody to remove when it is about to.  What a step does to *)
(* the number of entries of every client follows from how an entry is      *)
(* removed: the last one moves to the gap.                                 *)
(***************************************************************************)
EXTENDS PubSub, FiniteSetTheorems, WellFoundedInduction, TLAPS

Entry        == [client : Clients, age : 0 .. Timeout + 1]
Subscription == [client : Clients, pattern : Patterns]

-----------------------------------------------------------------------------
(* Lists. *)

\* Without the operator parameter of Positions.
LEMMA PositionsAre ==
  /\ \A c : ClientPositions(c) = {i \in 1 .. Len(client_list) : client_list[i].client = c}
  /\ \A c, p : SubscriptionPositions(c, p) =
       {i \in 1 .. Len(subscription_list) : subscription_list[i].client = c /\ subscription_list[i].pattern = p}
  /\ \A a : Subscribers(a) =
       {subscription_list[i].client :
          i \in {j \in 1 .. Len(subscription_list) : Matches(subscription_list[j].pattern, a)}}
  /\ Positions(client_list, Expired) = {i \in 1 .. Len(client_list) : Expired(client_list[i])}
<1>1. \A c : ClientPositions(c) = {i \in 1 .. Len(client_list) : client_list[i].client = c}
  BY DEF ClientPositions, Positions
<1>2. \A c, p : SubscriptionPositions(c, p) =
       {i \in 1 .. Len(subscription_list) : subscription_list[i].client = c /\ subscription_list[i].pattern = p}
  BY DEF SubscriptionPositions, Positions
<1>3. \A a : Subscribers(a) =
       {subscription_list[i].client :
          i \in {j \in 1 .. Len(subscription_list) : Matches(subscription_list[j].pattern, a)}}
  BY DEF Subscribers, Positions
<1>4. Positions(client_list, Expired) = {i \in 1 .. Len(client_list) : Expired(client_list[i])}
  BY DEF Positions
<1> QED BY <1>1, <1>2, <1>3, <1>4

\* FirstOf finds a position if there is one.
LEMMA FirstOfIn ==
  ASSUME NEW S \in SUBSET Nat, S # {}
  PROVE  FirstOf(S) \in S
<1> DEFINE R == OpToRel(<, Nat)
<1>1. \A x, y \in Nat : x < y => <<x, y>> \in R
  BY DEF OpToRel
<1> HIDE DEF R
<1>2. \E x \in S : \A y \in S : ~ (<<y, x>> \in R)
  BY NatLessThanWellFounded, WFMin DEF R
<1>3. PICK x \in S : \A y \in S : ~ (y < x)
  BY <1>1, <1>2
<1>4. \A y \in S : x <= y
  BY <1>3
<1> QED BY <1>4, Zenon DEF FirstOf

\* What RemoveAt makes of a list (server_routines.c:493-502).
LEMMA RemoveAtIs ==
  ASSUME NEW S, NEW list \in Seq(S), NEW i \in 1 .. Len(list)
  PROVE  /\ RemoveAt(list, i) \in Seq(S)
         /\ Len(RemoveAt(list, i)) = Len(list) - 1
         /\ \A k \in 1 .. Len(list) - 1 : RemoveAt(list, i)[k] = IF k = i THEN list[Len(list)] ELSE list[k]
<1> DEFINE n == Len(list)
           l == [list EXCEPT ![i] = list[n]]
<1>1. n \in Nat /\ n >= 1 /\ list[n] \in S
  OBVIOUS
<1>2. l \in Seq(S) /\ Len(l) = n /\ \A k \in 1 .. n : l[k] = IF k = i THEN list[n] ELSE list[k]
  BY <1>1
<1> HIDE DEF l
<1>3. /\ SubSeq(l, 1, n - 1) \in Seq(S) /\ Len(SubSeq(l, 1, n - 1)) = n - 1
      /\ \A k \in 1 .. n - 1 : SubSeq(l, 1, n - 1)[k] = l[k]
  BY <1>1, <1>2
<1> QED BY <1>1, <1>2, <1>3 DEF RemoveAt, l

\* The positions of a client in any list.
Places(list, c) == {k \in 1 .. Len(list) : list[k].client = c}

LEMMA PlacesFinite ==
  ASSUME NEW S, NEW list \in Seq(S), NEW c
  PROVE  IsFiniteSet(Places(list, c)) /\ Cardinality(Places(list, c)) \in Nat
<1>1. Len(list) \in Nat
  OBVIOUS
<1>2. IsFiniteSet(1 .. Len(list))
  BY <1>1, FS_Interval
<1>3. IsFiniteSet(Places(list, c))
  BY <1>2, FS_Subset DEF Places
<1> QED BY <1>3, FS_CardinalityType

\* Removing an entry takes one away from its client and none from others.
LEMMA RemoveCount ==
  ASSUME NEW S, NEW list \in Seq(S), NEW i \in 1 .. Len(list), NEW c
  PROVE  Cardinality(Places(RemoveAt(list, i), c)) =
           IF list[i].client = c THEN Cardinality(Places(list, c)) - 1 ELSE Cardinality(Places(list, c))
<1> DEFINE n == Len(list)
           P == Places(list, c)
           Q == Places(RemoveAt(list, i), c)
<1>1. n \in Nat /\ i \in 1 .. n /\ n \in 1 .. n
  OBVIOUS
<1>2. Q = {k \in 1 .. n - 1 : (IF k = i THEN list[n] ELSE list[k]).client = c}
  <2> DEFINE l == RemoveAt(list, i)
  <2>1. Len(l) = n - 1 /\ \A k \in 1 .. n - 1 : l[k] = IF k = i THEN list[n] ELSE list[k]
    BY RemoveAtIs
  <2>2. Q = {k \in 1 .. Len(l) : l[k].client = c}
    BY DEF Places
  <2> HIDE DEF l
  <2> QED BY <2>1, <2>2
<1>3. P = {k \in 1 .. n : list[k].client = c}
  BY DEF Places
<1>4. IsFiniteSet(P) /\ Cardinality(P) \in Nat
  BY PlacesFinite
<1> HIDE DEF P, Q, n
<1>5. CASE n \in P /\ i \in P
  <2>1. Q = P \ {n}
    BY <1>1, <1>2, <1>3, <1>5
  <2> QED BY <1>3, <1>4, <1>5, <2>1, FS_RemoveElement DEF P, Q
<1>6. CASE n \notin P /\ i \in P
  <2>1. Q = P \ {i}
    BY <1>1, <1>2, <1>3, <1>6
  <2> QED BY <1>3, <1>4, <1>6, <2>1, FS_RemoveElement DEF P, Q
<1>7. CASE n \in P /\ i \notin P
  <2>1. Q = (P \ {n}) \cup {i} /\ i \notin P \ {n}
    BY <1>1, <1>2, <1>3, <1>7
  <2>2. IsFiniteSet(P \ {n}) /\ Cardinality(P \ {n}) = Cardinality(P) - 1
    BY <1>4, <1>7, FS_RemoveElement
  <2>3. Cardinality((P \ {n}) \cup {i}) = Cardinality(P \ {n}) + 1
    BY <2>1, <2>2, FS_AddElement
  <2>4. Cardinality(Q) = Cardinality(P)
    BY <1>4, <2>1, <2>2, <2>3
  <2> QED BY <1>1, <1>3, <1>7, <2>4 DEF P, Q
<1>8. CASE n \notin P /\ i \notin P
  <2>1. Q = P
    BY <1>1, <1>2, <1>3, <1>8
  <2> QED BY <1>1, <1>3, <1>8, <2>1 DEF P, Q
<1> QED BY <1>5, <1>6, <1>7, <1>8

\* A list with the same clients at the same places has as many of each.
LEMMA SameCount ==
  ASSUME NEW S, NEW list \in Seq(S), NEW new \in Seq(S), Len(new) = Len(list),
         \A k \in 1 .. Len(list) : new[k].client = list[k].client, NEW c
  PROVE  Cardinality(Places(new, c)) = Cardinality(Places(list, c))
<1>1. Places(new, c) = Places(list, c)
  BY DEF Places
<1> QED BY <1>1

\* An entry that is added takes none away.
LEMMA AddCount ==
  ASSUME NEW S, NEW list \in Seq(S), NEW e \in S, NEW c
  PROVE  Cardinality(Places(list, c)) <= Cardinality(Places(Append(list, e), c))
<1>1. Places(list, c) \subseteq Places(Append(list, e), c)
  BY DEF Places
<1>2. Append(list, e) \in Seq(S)
  OBVIOUS
<1>3. IsFiniteSet(Places(Append(list, e), c))
  BY <1>2, PlacesFinite
<1> QED BY <1>1, <1>3, FS_Subset

-----------------------------------------------------------------------------
(* The operations on the lists. *)

\* The two halves of the type invariant.
ServerOK ==
  /\ client_list \in Seq(Entry) /\ Len(client_list) <= MaxClients
  /\ subscription_list \in Seq(Subscription) /\ Len(subscription_list) <= MaxSubscriptions
  /\ client_lock \in BOOLEAN /\ subscription_lock \in BOOLEAN
  /\ rpc \in {"ready", "blocked"} /\ monitor \in {"off", "check", "remove"}
  /\ timed_out_list \in Seq(Clients) /\ Len(timed_out_list) <= MaxClients
  /\ monitor = "remove" <=> timed_out_list # << >>
  /\ sent.article \in Articles \cup {NoArg} /\ sent.to \subseteq Clients

ClientsOK ==
  /\ status \in [Clients -> {"new", "in", "gone", "failed"}]
  /\ call \in [Clients -> Calls \cup {NoCall}]
  /\ net \subseteq Message
  /\ wants \in [Clients -> SUBSET Patterns]

LEMMA TypeSplit == TypeOK <=> ServerOK /\ ClientsOK
BY DEF TypeOK, ServerOK, ClientsOK, Entry, Subscription

\* A step takes no entry away, or one of client c.
Kept == \A d \in Clients : Entries(d)' >= Entries(d)
Took(c) == Entries(c)' = Entries(c) - 1 /\ \A d \in Clients \ {c} : Entries(d)' = Entries(d)

\* Entries counts places.
LEMMA EntriesAre ==
  /\ \A c : Entries(c) = Cardinality(Places(client_list, c))
  /\ \A c : Entries(c)' = Cardinality(Places(client_list', c))
BY DEF Entries, ClientPositions, Positions, Places

LEMMA EntriesTyped ==
  ASSUME ServerOK, NEW c
  PROVE  Entries(c) \in Nat
BY EntriesAre, PlacesFinite DEF ServerOK

\* A list whose clients stay where they are keeps its entries.
LEMMA KeptPlaces ==
  ASSUME ServerOK, client_list' \in Seq(Entry), Len(client_list') = Len(client_list),
         \A k \in 1 .. Len(client_list) : client_list'[k].client = client_list[k].client
  PROVE  Kept
<1> SUFFICES ASSUME NEW d \in Clients PROVE Entries(d)' >= Entries(d)
  BY DEF Kept
<1>1. Entries(d)' = Entries(d)
  BY EntriesAre, SameCount DEF ServerOK
<1> QED BY <1>1, EntriesTyped

LEMMA AddTyped ==
  ASSUME ServerOK, NEW c \in Clients, NEW ok, activeClientAdd(c, ok)
  PROVE  client_list' \in Seq(Entry) /\ Len(client_list') <= MaxClients /\ Kept
<1> DEFINE e == [client |-> c, age |-> 0]
<1>1. e \in Entry /\ client_list \in Seq(Entry) /\ Len(client_list) \in Nat
  BY LimitAssumption DEF Entry, ServerOK
<1> HIDE DEF e
<1>2. CASE Len(client_list) < MaxClients
  <2>1. client_list' = Append(client_list, e)
    BY <1>2 DEF activeClientAdd, e
  <2>2. client_list' \in Seq(Entry) /\ Len(client_list') = Len(client_list) + 1
    BY <1>1, <2>1
  <2>3. \A d \in Clients : Entries(d)' >= Entries(d)
    <3> SUFFICES ASSUME NEW d \in Clients PROVE Entries(d)' >= Entries(d)
      OBVIOUS
    <3>1. Cardinality(Places(client_list, d)) <= Cardinality(Places(client_list', d))
      BY <1>1, <2>1, AddCount
    <3>2. Cardinality(Places(client_list, d)) \in Nat /\ Cardinality(Places(client_list', d)) \in Nat
      BY <1>1, <2>2, PlacesFinite
    <3> QED BY <3>1, <3>2, EntriesAre
  <2> QED BY <1>1, <1>2, <2>2, <2>3, LimitAssumption DEF Kept
<1>3. CASE ~(Len(client_list) < MaxClients)
  <2>1. client_list' = client_list
    BY <1>3 DEF activeClientAdd
  <2> QED BY <1>1, <2>1, KeptPlaces DEF ServerOK
<1> QED BY <1>2, <1>3

LEMMA RemoveTyped ==
  ASSUME ServerOK, NEW c \in Clients, NEW ok, activeClientRemove(c, ok)
  PROVE  /\ client_list' \in Seq(Entry) /\ Len(client_list') <= MaxClients /\ client_lock' \in BOOLEAN
         /\ Kept \/ Took(c)
<1> DEFINE P == ClientPositions(c)
<1>1. client_list \in Seq(Entry) /\ Len(client_list) \in Nat /\ Len(client_list) <= MaxClients
  BY DEF ServerOK
<1>2. client_lock' \in BOOLEAN
  BY DEF activeClientRemove, ServerOK
<1>3. P = {i \in 1 .. Len(client_list) : client_list[i].client = c}
  BY PositionsAre
<1> HIDE DEF P
<1>4. CASE P = {}
  <2>1. client_list' = client_list
    BY <1>4 DEF activeClientRemove, P
  <2> QED BY <1>1, <1>2, <2>1, KeptPlaces
<1>5. CASE P # {}
  <2> DEFINE i == FirstOf(P)
  <2>1. i \in P
    BY <1>1, <1>3, <1>5, FirstOfIn
  <2>2. client_list' = RemoveAt(client_list, i)
    BY <1>5 DEF activeClientRemove, P
  <2> HIDE DEF i
  <2>3. i \in 1 .. Len(client_list) /\ client_list[i].client = c
    BY <1>3, <2>1
  <2>4. client_list' \in Seq(Entry) /\ Len(client_list') = Len(client_list) - 1
    BY <1>1, <2>2, <2>3, RemoveAtIs
  <2>5. Took(c)
    <3>1. \A d \in Clients : Cardinality(Places(client_list', d)) =
            IF d = c THEN Cardinality(Places(client_list, d)) - 1 ELSE Cardinality(Places(client_list, d))
      BY <1>1, <2>2, <2>3, RemoveCount
    <3> QED BY <3>1, EntriesAre DEF Took
  <2> QED BY <1>1, <1>2, <2>4, <2>5, LimitAssumption
<1> QED BY <1>4, <1>5

LEMMA SubscriptionsTyped ==
  ASSUME ServerOK, NEW c \in Clients, NEW p \in Patterns, NEW ok,
         subscriptionAddEntry(c, p, ok) \/ subscriptionRemoveEntry(c, p, ok)
  PROVE  subscription_list' \in Seq(Subscription) /\ Len(subscription_list') <= MaxSubscriptions
<1> DEFINE e == [client |-> c, pattern |-> p]
           P == SubscriptionPositions(c, p)
<1>1. /\ e \in Subscription /\ subscription_list \in Seq(Subscription)
      /\ Len(subscription_list) \in Nat /\ Len(subscription_list) <= MaxSubscriptions /\ MaxSubscriptions \in Nat
  BY LimitAssumption DEF Subscription, ServerOK
<1>2. P \subseteq 1 .. Len(subscription_list)
  BY PositionsAre
<1> HIDE DEF e, P
<1>3. CASE subscription_list' = subscription_list
  BY <1>1, <1>3
<1>4. CASE subscription_list' = Append(subscription_list, e) /\ Len(subscription_list) < MaxSubscriptions
  BY <1>1, <1>4
<1>5. CASE P # {} /\ subscription_list' = RemoveAt(subscription_list, FirstOf(P))
  <2>0. P \in SUBSET Nat
    BY <1>1, <1>2
  <2>1. FirstOf(P) \in P
    BY <1>5, <2>0, FirstOfIn
  <2>2. subscription_list' \in Seq(Subscription) /\ Len(subscription_list') = Len(subscription_list) - 1
    BY <1>1, <1>2, <1>5, <2>1, RemoveAtIs
  <2> QED BY <1>1, <2>2
<1> QED BY <1>3, <1>4, <1>5 DEF subscriptionAddEntry, subscriptionRemoveEntry, e, P

-----------------------------------------------------------------------------
(* The steps of the server. *)

\* What a call carries.
LEMMA CallArgs ==
  ASSUME NEW cl \in Calls
  PROVE  /\ cl.op \in {"subscribe", "unsubscribe"} => cl.arg \in Patterns
         /\ cl.op = "publish" => cl.arg \in Articles
<1>1. CASE cl \in {Call(op, NoArg) : op \in {"join", "leave", "ping"}}
  BY <1>1 DEF Call
<1>2. CASE cl \in {Call(op, p) : op \in {"subscribe", "unsubscribe"}, p \in Patterns}
  BY <1>2 DEF Call
<1>3. CASE cl \in {Call("publish", a) : a \in Articles}
  BY <1>3 DEF Call
<1> QED BY <1>1, <1>2, <1>3 DEF Calls

LEMMA SubscribersTyped ==
  ASSUME ServerOK, NEW a
  PROVE  Subscribers(a) \subseteq Clients
<1>1. \A i \in 1 .. Len(subscription_list) : subscription_list[i] \in Subscription
  BY DEF ServerOK
<1>2. \A i \in 1 .. Len(subscription_list) : subscription_list[i].client \in Clients
  BY <1>1 DEF Subscription
<1> QED BY <1>2, PositionsAre

\* A list whose entries only change their age, as ping and the clock do.
LEMMA AgesTyped ==
  ASSUME ServerOK, client_list' \in [1 .. Len(client_list) -> Entry],
         \A i \in 1 .. Len(client_list) : client_list'[i].client = client_list[i].client
  PROVE  client_list' \in Seq(Entry) /\ Len(client_list') <= MaxClients /\ Kept
<1>1. Len(client_list) \in Nat /\ Len(client_list) <= MaxClients
  BY DEF ServerOK
<1>2. client_list' \in Seq(Entry) /\ Len(client_list') = Len(client_list)
  BY <1>1
<1> QED BY <1>1, <1>2, KeptPlaces

LEMMA PingTyped ==
  ASSUME ServerOK, NEW c, NEW ok, ping(c, ok)
  PROVE  client_list' \in Seq(Entry) /\ Len(client_list') <= MaxClients /\ Kept
<1> DEFINE f(i) == IF client_list[i].client = c THEN [client_list[i] EXCEPT !.age = 0] ELSE client_list[i]
<1>1. client_list' = [i \in 1 .. Len(client_list) |-> f(i)]
  BY DEF ping
<1>2. \A i \in 1 .. Len(client_list) : client_list[i] \in Entry
  BY DEF ServerOK
<1>3. \A e \in Entry : [e EXCEPT !.age = 0] \in Entry /\ [e EXCEPT !.age = 0].client = e.client
  BY LimitAssumption DEF Entry
<1>4. \A i \in 1 .. Len(client_list) : f(i) \in Entry /\ f(i).client = client_list[i].client
  BY <1>2, <1>3
<1> HIDE DEF f
<1>5. client_list' \in [1 .. Len(client_list) -> Entry]
  BY <1>1, <1>4
<1>6. \A i \in 1 .. Len(client_list) : client_list'[i].client = client_list[i].client
  BY <1>1, <1>4
<1> QED BY <1>5, <1>6, AgesTyped

LEMMA TickTyped ==
  ASSUME ServerOK, Tick
  PROVE  client_list' \in Seq(Entry) /\ Len(client_list') <= MaxClients /\ Kept
<1> DEFINE f(i) == [client_list[i] EXCEPT !.age = IF @ > Timeout THEN @ ELSE @ + 1]
<1>1. client_list' = [i \in 1 .. Len(client_list) |-> f(i)]
  BY DEF Tick
<1>2. \A i \in 1 .. Len(client_list) : client_list[i] \in Entry
  BY DEF ServerOK
<1>3. \A e \in Entry : LET g == [e EXCEPT !.age = IF @ > Timeout THEN @ ELSE @ + 1]
                       IN  g \in Entry /\ g.client = e.client
  BY LimitAssumption DEF Entry
<1>4. \A i \in 1 .. Len(client_list) : f(i) \in Entry /\ f(i).client = client_list[i].client
  BY <1>2, <1>3
<1> HIDE DEF f
<1>5. client_list' \in [1 .. Len(client_list) -> Entry]
  BY <1>1, <1>4
<1>6. \A i \in 1 .. Len(client_list) : client_list'[i].client = client_list[i].client
  BY <1>1, <1>4
<1> QED BY <1>5, <1>6, AgesTyped

\* An unchanged list keeps its entries.
LEMMA SameKept ==
  ASSUME ServerOK, UNCHANGED client_list
  PROVE  client_list' \in Seq(Entry) /\ Len(client_list') <= MaxClients /\ Kept
BY KeptPlaces DEF ServerOK

\* Every routine keeps the server well formed; only leave takes an entry, and
\* only one of its caller.
LEMMA DispatchTyped ==
  ASSUME ServerOK, NEW m \in Message, NEW ok \in BOOLEAN, Dispatch(m, ok)
  PROVE  /\ ServerOK'
         /\ Kept \/ (m.call.op = "leave" /\ Took(m.client))
<1>1. m.client \in Clients /\ m.call \in Calls
  BY DEF Message
<1>2. CASE m.call.op = "join" /\ join(m.client, ok)
  <2>1. client_list' \in Seq(Entry) /\ Len(client_list') <= MaxClients /\ Kept
    BY <1>1, <1>2, AddTyped DEF join
  <2>2. monitor' \in {"off", "check", "remove"} /\ (monitor' = "remove" <=> monitor = "remove")
    BY <1>2 DEF join, ServerOK
  <2>3. UNCHANGED <<subscription_list, client_lock, subscription_lock, rpc, timed_out_list, sent>>
    BY <1>2 DEF join
  <2> QED BY <2>1, <2>2, <2>3 DEF ServerOK
<1>3. CASE m.call.op = "leave" /\ leave(m.client, ok)
  <2>1. /\ client_list' \in Seq(Entry) /\ Len(client_list') <= MaxClients /\ client_lock' \in BOOLEAN
        /\ Kept \/ Took(m.client)
    BY <1>1, <1>3, RemoveTyped DEF leave
  <2>2. UNCHANGED <<subscription_list, subscription_lock, rpc, timed_out_list, monitor, sent>>
    BY <1>3 DEF leave
  <2>3. ServerOK'
    BY <2>1, <2>2 DEF ServerOK
  <2> QED BY <1>3, <2>1, <2>3
<1>4. CASE m.call.op = "ping" /\ ping(m.client, ok)
  <2>1. client_list' \in Seq(Entry) /\ Len(client_list') <= MaxClients /\ Kept
    BY <1>4, PingTyped
  <2>2. UNCHANGED <<subscription_list, client_lock, subscription_lock, rpc, timed_out_list, monitor, sent>>
    BY <1>4 DEF ping
  <2> QED BY <2>1, <2>2 DEF ServerOK
<1>5. CASE m.call.op = "subscribe" /\ subscribe(m.client, m.call.arg, ok)
  <2>1. m.call.arg \in Patterns
    BY <1>1, <1>5, CallArgs
  <2>2. subscription_list' \in Seq(Subscription) /\ Len(subscription_list') <= MaxSubscriptions
    BY <1>1, <1>5, <2>1, SubscriptionsTyped DEF subscribe
  <2>3. UNCHANGED <<client_list, client_lock, subscription_lock, rpc, timed_out_list, monitor, sent>>
    BY <1>5 DEF subscribe
  <2>4. Kept
    BY <2>3, SameKept
  <2> QED BY <2>2, <2>3, <2>4 DEF ServerOK
<1>6. CASE m.call.op = "unsubscribe" /\ unsubscribe(m.client, m.call.arg, ok)
  <2>1. m.call.arg \in Patterns
    BY <1>1, <1>6, CallArgs
  <2>2. subscription_list' \in Seq(Subscription) /\ Len(subscription_list') <= MaxSubscriptions
    BY <1>1, <1>6, <2>1, SubscriptionsTyped DEF unsubscribe
  <2>3. UNCHANGED <<client_list, client_lock, rpc, timed_out_list, monitor, sent>>
    BY <1>6 DEF unsubscribe
  <2>4. subscription_lock' \in BOOLEAN
    BY <1>6 DEF unsubscribe, subscriptionRemoveEntry, ServerOK
  <2>5. Kept
    BY <2>3, SameKept
  <2> QED BY <2>2, <2>3, <2>4, <2>5 DEF ServerOK
<1>7. CASE m.call.op = "publish" /\ publish(m.client, m.call.arg, ok)
  <2>1. m.call.arg \in Articles
    BY <1>1, <1>7, CallArgs
  <2>2. UNCHANGED <<client_list, subscription_list, client_lock, subscription_lock, rpc, timed_out_list, monitor>>
    BY <1>7 DEF publish
  <2>3. sent'.article \in Articles \cup {NoArg} /\ sent'.to \subseteq Clients
    <3>1. CASE sent' = sent
      BY <3>1 DEF ServerOK
    <3>2. CASE sent' = [article |-> m.call.arg, to |-> Subscribers(m.call.arg)]
      BY <2>1, <3>2, SubscribersTyped
    <3> QED BY <1>7, <3>1, <3>2 DEF publish, sendArticle
  <2>4. Kept
    BY <2>2, SameKept
  <2> QED BY <2>2, <2>3, <2>4 DEF ServerOK
<1> QED BY <1>2, <1>3, <1>4, <1>5, <1>6, <1>7 DEF Dispatch

\* The reply changes what the client process c keeps.
LEMMA ReturnedTyped ==
  ASSUME ClientsOK, NEW c \in Clients, NEW cl \in Calls, NEW ok \in BOOLEAN, Returned(c, cl, ok)
  PROVE  /\ status' \in [Clients -> {"new", "in", "gone", "failed"}]
         /\ call' \in [Clients -> Calls \cup {NoCall}]
         /\ wants' \in [Clients -> SUBSET Patterns]
<1>1. status' \in [Clients -> {"new", "in", "gone", "failed"}]
  BY DEF Returned, ClientsOK
<1>2. call' \in [Clients -> Calls \cup {NoCall}]
  BY DEF Returned, ClientsOK
<1>3. wants' \in [Clients -> SUBSET Patterns]
  <2> DEFINE w == CASE cl.op = "subscribe" /\ ok -> wants[c] \cup {cl.arg}
                    [] cl.op = "unsubscribe" /\ ok -> wants[c] \ {cl.arg}
                    [] OTHER -> wants[c]
  <2>1. wants' = [wants EXCEPT ![c] = w]
    BY DEF Returned
  <2>2. w \in SUBSET Patterns
    BY CallArgs DEF ClientsOK
  <2> QED BY <2>1, <2>2 DEF ClientsOK
<1> QED BY <1>1, <1>2, <1>3

LEMMA ServeTyped ==
  ASSUME ServerOK, ClientsOK, NEW m \in net, Serve(m)
  PROVE  /\ ServerOK' /\ ClientsOK'
         /\ Kept \/ (m.call.op = "leave" /\ Took(m.client))
<1>1. m \in Message /\ m.client \in Clients /\ m.call \in Calls
  BY DEF ClientsOK, Message
<1>2. PICK ok \in BOOLEAN, copy \in BOOLEAN, reply \in BOOLEAN :
        /\ Dispatch(m, ok)
        /\ IF reply /\ ~m.late /\ status[m.client] \in {"new", "in"}
             THEN /\ Returned(m.client, m.call, ok)
                  /\ net' = (net \ {m}) \cup IF copy THEN {[m EXCEPT !.late = TRUE]} ELSE {}
             ELSE /\ net' = IF copy THEN net ELSE net \ {m}
                  /\ UNCHANGED <<call, status, wants>>
  BY DEF Serve
<1>3. ServerOK' /\ (Kept \/ (m.call.op = "leave" /\ Took(m.client)))
  BY <1>1, <1>2, DispatchTyped
<1>4. [m EXCEPT !.late = TRUE] \in Message
  BY <1>1 DEF Message
<1>5. net' \subseteq Message
  BY <1>2, <1>4 DEF ClientsOK
<1>6. /\ status' \in [Clients -> {"new", "in", "gone", "failed"}]
      /\ call' \in [Clients -> Calls \cup {NoCall}]
      /\ wants' \in [Clients -> SUBSET Patterns]
  <2>1. CASE Returned(m.client, m.call, ok)
    BY <1>1, <2>1, ReturnedTyped
  <2>2. CASE UNCHANGED <<call, status, wants>>
    BY <2>2 DEF ClientsOK
  <2> QED BY <1>2, <2>1, <2>2
<1> QED BY <1>3, <1>5, <1>6 DEF ClientsOK

LEMMA BlockTyped ==
  ASSUME ServerOK, ClientsOK, NEW m \in net, Block(m)
  PROVE  ServerOK' /\ ClientsOK' /\ Kept
<1>1. ServerOK' /\ ClientsOK'
  BY DEF Block, ServerOK, ClientsOK
<1>2. Kept
  BY SameKept DEF Block
<1> QED BY <1>1, <1>2

\* The timeout thread collects no more clients than the list holds.
LEMMA CheckTyped ==
  ASSUME ServerOK, ClientsOK, timeoutCheck
  PROVE  ServerOK' /\ ClientsOK' /\ Kept
<1> DEFINE n == Len(client_list)
           expired == {i \in 1 .. n : Expired(client_list[i])}
<1>1. n \in Nat /\ n <= MaxClients /\ MaxClients \in Nat
  BY LimitAssumption DEF ServerOK
<1>2. \A k \in Nat : IsFiniteSet(1 .. k) /\ Cardinality(1 .. k) = k
  BY FS_Interval
<1>3. expired \subseteq 1 .. n
  OBVIOUS
<1>4. PICK at \in [1 .. Cardinality(expired) -> expired] :
        timed_out_list' = [k \in DOMAIN at |-> client_list[at[k]].client]
  BY PositionsAre DEF timeoutCheck
<1>5. expired # {}
  BY PositionsAre DEF timeoutCheck
<1>6. \A i \in 1 .. n : client_list[i] \in Entry
  BY DEF ServerOK
<1>7. \A i \in 1 .. n : client_list[i].client \in Clients
  BY <1>6 DEF Entry
<1> HIDE DEF expired
<1>8. IsFiniteSet(expired) /\ Cardinality(expired) <= n
  <2>1. IsFiniteSet(1 .. n) /\ Cardinality(1 .. n) = n
    BY <1>1, <1>2
  <2>2. Cardinality(expired) <= Cardinality(1 .. n) /\ IsFiniteSet(expired)
    BY <1>3, <2>1, FS_Subset
  <2> QED BY <2>1, <2>2
<1>9. Cardinality(expired) \in Nat /\ Cardinality(expired) # 0
  BY <1>5, <1>8, FS_CardinalityType, FS_EmptySet
<1>10. timed_out_list' \in [1 .. Cardinality(expired) -> Clients]
  BY <1>3, <1>4, <1>7
<1>11. timed_out_list' \in Seq(Clients) /\ Len(timed_out_list') = Cardinality(expired)
  BY <1>9, <1>10
<1>12. timed_out_list' # << >> /\ Len(timed_out_list') <= MaxClients
  BY <1>1, <1>8, <1>9, <1>11
<1>13. monitor' = "remove" /\ UNCHANGED <<client_list, subscription_list, client_lock, subscription_lock, rpc, sent>>
  BY DEF timeoutCheck
<1>14. ServerOK'
  BY <1>11, <1>12, <1>13 DEF ServerOK
<1>15. ClientsOK'
  BY DEF timeoutCheck, ClientsOK
<1> QED BY <1>13, <1>14, <1>15, SameKept

LEMMA TimeoutRemoveTyped ==
  ASSUME ServerOK, ClientsOK, timeoutRemove
  PROVE  /\ ServerOK' /\ ClientsOK'
         /\ Kept \/ Took(Head(timed_out_list))
<1>1. timed_out_list \in Seq(Clients) /\ timed_out_list # << >> /\ Len(timed_out_list) <= MaxClients
  BY DEF timeoutRemove, ServerOK
<1>2. Head(timed_out_list) \in Clients
  BY <1>1
<1>3. /\ client_list' \in Seq(Entry) /\ Len(client_list') <= MaxClients /\ client_lock' \in BOOLEAN
      /\ Kept \/ Took(Head(timed_out_list))
  BY <1>2, RemoveTyped DEF timeoutRemove
<1>4. timed_out_list' = Tail(timed_out_list) /\ monitor' = IF Len(timed_out_list) = 1 THEN "check" ELSE "remove"
  BY DEF timeoutRemove
<1>5. timed_out_list' \in Seq(Clients) /\ Len(timed_out_list') = Len(timed_out_list) - 1 /\ Len(timed_out_list) \in Nat \ {0}
  BY <1>1, <1>4
<1>6. Len(timed_out_list') <= MaxClients /\ (monitor' = "remove" <=> timed_out_list' # << >>)
  BY <1>1, <1>4, <1>5, LimitAssumption
<1>7. UNCHANGED <<subscription_list, subscription_lock, rpc, sent>>
  BY DEF timeoutRemove
<1>8. ServerOK'
  BY <1>3, <1>4, <1>5, <1>6, <1>7 DEF ServerOK
<1>9. ClientsOK'
  BY DEF timeoutRemove, ClientsOK
<1> QED BY <1>3, <1>8, <1>9

-----------------------------------------------------------------------------
(* The steps of the clients. *)

LEMMA ServerSame ==
  ASSUME ServerOK, UNCHANGED server
  PROVE  ServerOK' /\ Kept
<1>1. ServerOK' /\ UNCHANGED client_list
  BY DEF server, ServerOK
<1> QED BY <1>1, SameKept

LEMMA RequestTyped ==
  ASSUME ServerOK, ClientsOK, NEW c \in Clients, NEW cl \in Calls, Request(c, cl)
  PROVE  ServerOK' /\ ClientsOK' /\ Kept
<1>1. [client |-> c, call |-> cl, late |-> FALSE] \in Message
  BY DEF Message
<1>2. ClientsOK'
  BY <1>1 DEF Request, ClientsOK
<1> QED BY <1>2, ServerSame DEF Request

LEMMA ResendTyped ==
  ASSUME ServerOK, ClientsOK, NEW c \in Clients, Resend(c)
  PROVE  ServerOK' /\ ClientsOK' /\ Kept
<1>1. call[c] \in Calls
  BY DEF Resend, ClientsOK
<1>2. [client |-> c, call |-> call[c], late |-> FALSE] \in Message
  BY <1>1 DEF Message
<1>3. ClientsOK'
  BY <1>2 DEF Resend, ClientsOK
<1> QED BY <1>3, ServerSame DEF Resend

LEMMA EndTyped ==
  ASSUME ServerOK, ClientsOK, NEW c \in Clients, GiveUp(c) \/ Kill(c)
  PROVE  ServerOK' /\ ClientsOK' /\ Kept
<1>1. ClientsOK'
  BY DEF GiveUp, Kill, ClientsOK
<1> QED BY <1>1, ServerSame DEF GiveUp, Kill

\* Every step, and a stuttering one, keeps the types, and says whose entry it
\* took if it took one.
LEMMA StepTyped ==
  ASSUME ServerOK, ClientsOK, [Next]_vars
  PROVE  /\ ServerOK' /\ ClientsOK'
         /\ \/ Kept
            \/ \E m \in net : m.call.op = "leave" /\ Took(m.client)
            \/ monitor = "remove" /\ Took(Head(timed_out_list))
<1>1. CASE \E m \in net : Serve(m)
  BY <1>1, ServeTyped
<1>2. CASE \E m \in net : Block(m)
  BY <1>2, BlockTyped
<1>3. CASE timeoutCheck
  BY <1>3, CheckTyped
<1>4. CASE timeoutRemove
  BY <1>4, TimeoutRemoveTyped DEF timeoutRemove
<1>5. CASE \E c \in Clients, cl \in Calls : Request(c, cl)
  BY <1>5, RequestTyped
<1>6. CASE \E c \in Clients : Resend(c)
  BY <1>6, ResendTyped
<1>7. CASE \E c \in Clients : GiveUp(c) \/ Kill(c)
  BY <1>7, EndTyped
<1>8. CASE Tick
  <2>1. client_list' \in Seq(Entry) /\ Len(client_list') <= MaxClients /\ Kept
    BY <1>8, TickTyped
  <2>2. ServerOK'
    BY <1>8, <2>1 DEF Tick, ServerOK
  <2>3. ClientsOK'
    BY <1>8 DEF Tick, ClientsOK
  <2> QED BY <2>1, <2>2, <2>3
<1>9. CASE UNCHANGED vars
  <2>1. ClientsOK' /\ UNCHANGED server
    BY <1>9 DEF vars, ClientsOK
  <2> QED BY <2>1, ServerSame
<1> QED BY <1>1, <1>2, <1>3, <1>4, <1>5, <1>6, <1>7, <1>8, <1>9 DEF Next

-----------------------------------------------------------------------------
(* The theorems. *)

\* The group server stays within its types: neither list outgrows its array
\* (server_routines.c:292-334, 430-468), and the timeout thread removes somebody
\* whenever it is about to (server_routines.c:588-637).
THEOREM TypeCorrect == Spec => []TypeOK
<1>1. Init => TypeOK
  <2> SUFFICES ASSUME Init PROVE ServerOK /\ ClientsOK
    BY TypeSplit
  <2>1. ServerOK
    <3>1. \A S : << >> \in Seq(S) /\ Len(<< >>) = 0
      OBVIOUS
    <3>2. Len(client_list) <= MaxClients /\ Len(subscription_list) <= MaxSubscriptions /\ Len(timed_out_list) <= MaxClients
      BY LimitAssumption DEF Init
    <3>3. client_list \in Seq(Entry) /\ subscription_list \in Seq(Subscription) /\ timed_out_list \in Seq(Clients)
      BY <3>1 DEF Init
    <3>4. sent.article \in Articles \cup {NoArg} /\ sent.to \subseteq Clients
      BY DEF Init
    <3>5. /\ client_lock \in BOOLEAN /\ subscription_lock \in BOOLEAN
          /\ rpc \in {"ready", "blocked"} /\ monitor \in {"off", "check", "remove"}
          /\ monitor = "remove" <=> timed_out_list # << >>
      BY DEF Init
    <3> QED BY <3>2, <3>3, <3>4, <3>5 DEF ServerOK
  <2>2. ClientsOK
    BY DEF Init, ClientsOK
  <2> QED BY <2>1, <2>2
<1>2. TypeOK /\ [Next]_vars => TypeOK'
  <2>1. TypeOK' <=> ServerOK' /\ ClientsOK'
    BY DEF TypeOK, ServerOK, ClientsOK, Entry, Subscription
  <2> QED BY <2>1, TypeSplit, StepTyped
<1> QED BY <1>1, <1>2, PTL DEF Spec

\* Only a leave call of a client, or the timeout thread that found it silent,
\* takes its entry away, and no other entry goes with it
\* (server_routines.c:470-502, 628-632).
THEOREM RemovalsCorrect == Spec => RemovalsAreOwn
<1> DEFINE Own == \A c \in Clients : Entries(c)' < Entries(c) =>
                    /\ Entries(c)' = Entries(c) - 1
                    /\ \A d \in Clients \ {c} : Entries(d)' = Entries(d)
                    /\ \/ monitor = "remove" /\ Head(timed_out_list) = c
                       \/ \E m \in net : m.client = c /\ m.call.op = "leave"
<1>1. TypeOK /\ TypeOK' /\ [Next]_vars => [Own]_vars
  <2> SUFFICES ASSUME TypeOK, TypeOK', [Next]_vars, NEW c \in Clients, Entries(c)' < Entries(c)
               PROVE  /\ Entries(c)' = Entries(c) - 1
                      /\ \A d \in Clients \ {c} : Entries(d)' = Entries(d)
                      /\ \/ monitor = "remove" /\ Head(timed_out_list) = c
                         \/ \E m \in net : m.client = c /\ m.call.op = "leave"
    OBVIOUS
  <2>1. ServerOK /\ ClientsOK /\ ServerOK'
    BY TypeSplit, StepTyped
  <2>2. Entries(c) \in Nat /\ Entries(c)' \in Nat
    <3>1. Cardinality(Places(client_list', c)) \in Nat
      BY <2>1, PlacesFinite DEF ServerOK
    <3> QED BY <2>1, <3>1, EntriesTyped, EntriesAre
  <2>3. ~Kept
    BY <2>2 DEF Kept
  <2>4. \A b : Took(b) => b = c
    <3> SUFFICES ASSUME NEW b, Took(b), b # c PROVE FALSE
      OBVIOUS
    <3>1. Entries(c)' = Entries(c)
      BY DEF Took
    <3> QED BY <2>2, <3>1
  <2>5. /\ Took(c)
        /\ \/ monitor = "remove" /\ Head(timed_out_list) = c
           \/ \E m \in net : m.client = c /\ m.call.op = "leave"
    BY <2>1, <2>3, <2>4, StepTyped
  <2> QED BY <2>5 DEF Took
<1>2. RemovalsAreOwn <=> [][Own]_vars
  BY DEF RemovalsAreOwn
<1> QED BY <1>1, <1>2, TypeCorrect, PTL DEF Spec

=============================================================================
