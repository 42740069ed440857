------------------------------- MODULE PubSub --------------------------------
(***************************************************************************)
(* The publish/subscribe group server (project_1/server_routines.c) and    *)
(* its clients (project_1/client.c).                                       *)
(*                                                                         *)
(* The server has two threads.  The RPC thread serves one call after the   *)
(* other; the timeout thread looks once a second for clients that stopped  *)
(* pinging and removes them.  Both lists of the server have a mutex.  A    *)
(* routine holds it from its first to its last line, so it is one atomic   *)
(* step, except that two error paths return without releasing it:          *)
(* client_lock and subscription_lock say that this has happened.  A thread *)
(* that then wants the mutex waits forever.                                *)
(*                                                                         *)
(* Calls travel over UDP.  The RPC library sends a call again until the    *)
(* reply comes, and the server runs it again each time; a copy may also    *)
(* arrive long after the reply.                                            *)
(***************************************************************************)
EXTENDS Integers, Sequences, FiniteSets

CONSTANTS
  Clients,           \* the client processes; each binds a port of its own
  Patterns,          \* what clients subscribe to
  Articles,          \* what clients publish, without the contents
  MaxClients,        \* MAXCLIENTS
  MaxSubscriptions,  \* MAXSUBSCRIPTIONS
  MaxNet,            \* bound of the model: calls under way at once
  Timeout,           \* TIMEOUT_DURATION_SEC
  Retries,           \* TRUE if calls are sent again and replies get lost
  Careful,           \* TRUE if users subscribe once and unsubscribe only from that
  Punctual           \* TRUE if pings and calls arrive in time

\* The header fields of an article; "" is a field left out.
Header == [type : STRING, originator : STRING, org : STRING]
NoArg  == [type |-> "", originator |-> "", org |-> ""]

Types == {"Sports", "Lifestyle", "Entertainment", "Business", "Technology", "Science",
          "Politics", "Health"}

\* What articleDecode accepts: some field, and a known type if there is one.
articleDecode(h) == h # NoArg /\ h.type \in Types \cup {""}

\* Clients decode what the user typed before they send it.
ASSUME HeaderAssumption == \A h \in Patterns \cup Articles : h \in Header /\ articleDecode(h)
ASSUME LimitAssumption == MaxClients \in Nat /\ MaxSubscriptions \in Nat /\ MaxNet \in Nat /\ Timeout \in Nat
ASSUME ModeAssumption == {Retries, Careful, Punctual} \subseteq BOOLEAN

VARIABLES
  client_list,        \* sequence of [client, age]: seconds since last_checkin_sec
  subscription_list,  \* sequence of [client, pattern]
  client_lock,        \* lock_client_list was left locked
  subscription_lock,  \* lock_subscription_list was left locked
  rpc,                \* the RPC thread: "ready", or "blocked" on a mutex
  timed_out_list,     \* clients the timeout thread has still to remove
  monitor,            \* the timeout thread: "off" until the first join, "check", "remove"
  sent,               \* the article published last and the clients it went to
  status,             \* status[c] : the life of client process c
  call,               \* call[c] : the call c waits for
  net,                \* calls under way to the server; late ones are copies of
                      \* calls that returned
  wants               \* wants[c] : what c has successfully subscribed to

server  == <<client_list, subscription_list, client_lock, subscription_lock, rpc,
             timed_out_list, monitor, sent>>
vars == <<server, status, call, net, wants>>

Call(op, arg) == [op |-> op, arg |-> arg]
NoCall == Call("none", NoArg)
Calls ==
  {Call(op, NoArg) : op \in {"join", "leave", "ping"}} \cup
  {Call(op, p) : op \in {"subscribe", "unsubscribe"}, p \in Patterns} \cup
  {Call("publish", a) : a \in Articles}

Message == [client : Clients, call : Calls, late : BOOLEAN]

-----------------------------------------------------------------------------
Init ==
  /\ client_list = << >> /\ subscription_list = << >>
  /\ client_lock = FALSE /\ subscription_lock = FALSE
  /\ rpc = "ready" /\ monitor = "off" /\ timed_out_list = << >>
  /\ sent = [article |-> NoArg, to |-> {}]
  /\ status = [c \in Clients |-> "new"]
  /\ call = [c \in Clients |-> NoCall]
  /\ net = {}
  /\ wants = [c \in Clients |-> {}]

(* The lists of the server. *)

Positions(list, Is(_)) == {i \in 1 .. Len(list) : Is(list[i])}
FirstOf(S) == CHOOSE i \in S : \A j \in S : i <= j

\* The last element moves to the opened slot, without the count taken down.
RemoveAtBug(list, i) == SubSeq([list EXCEPT ![i] = list[Len(list)]], 1, Len(list))

\* The last element is dropped instead.
RemoveAtLastBug(list, i) == SubSeq(list, 1, Len(list) - 1)

\* The last element moves to the opened slot.
RemoveAt(list, i) == SubSeq([list EXCEPT ![i] = list[Len(list)]], 1, Len(list) - 1)

ClientPositions(c) == Positions(client_list, LAMBDA e : e.client = c)
SubscriptionPositions(c, p) == Positions(subscription_list, LAMBDA e : e.client = c /\ e.pattern = p)

activeClientAdd(c, ok) ==
  /\ ok = (Len(client_list) < MaxClients)
  /\ client_list' = IF ok THEN Append(client_list, [client |-> c, age |-> 0]) ELSE client_list

\* The mutex stays locked on the other path as well.
activeClientRemoveBug(c, ok) ==
  /\ ok = (ClientPositions(c) # {})
  /\ client_list' = IF ok THEN RemoveAt(client_list, FirstOf(ClientPositions(c))) ELSE client_list
  /\ client_lock' = TRUE

\* A client that is not found leaves the mutex locked.
activeClientRemove(c, ok) ==
  /\ ok = (ClientPositions(c) # {})
  /\ client_list' = IF ok THEN RemoveAt(client_list, FirstOf(ClientPositions(c))) ELSE client_list
  /\ client_lock' = (client_lock \/ ~ok)

subscriptionAddEntryBug(c, p, ok) ==
  /\ ok = (Len(subscription_list) <= MaxSubscriptions)
  /\ subscription_list' = IF ok THEN Append(subscription_list, [client |-> c, pattern |-> p])
                                ELSE subscription_list

subscriptionAddEntry(c, p, ok) ==
  /\ ok = (Len(subscription_list) < MaxSubscriptions)
  /\ subscription_list' = IF ok THEN Append(subscription_list, [client |-> c, pattern |-> p])
                                ELSE subscription_list

\* A subscription that is not found leaves the mutex locked.
subscriptionRemoveEntry(c, p, ok) ==
  /\ ok = (SubscriptionPositions(c, p) # {})
  /\ subscription_list' = IF ok THEN RemoveAt(subscription_list, FirstOf(SubscriptionPositions(c, p)))
                                ELSE subscription_list
  /\ subscription_lock' = (subscription_lock \/ ~ok)

\* One field is enough; no field is a wild card.
MatchesAnyBug(p, a) == \E f \in DOMAIN p : p[f] = a[f]
MatchesExactBug(p, a) == \A f \in DOMAIN p : p[f] = a[f]

\* An empty field of a subscription matches everything.
Matches(p, a) == \A f \in DOMAIN p : p[f] = a[f] \/ p[f] = ""

Subscribers(a) ==
  {subscription_list[i].client : i \in Positions(subscription_list, LAMBDA e : Matches(e.pattern, a))}

\* A published article must have all three fields.
Complete(a) == \A f \in DOMAIN a : a[f] # ""

\* A datagram to every client with a matching subscription.
sendArticle(a) == sent' = [article |-> a, to |-> Subscribers(a)]

(* The routines of the RPC thread.  Each says what it makes of the server and
   whether it returns success. *)

\* The first join starts the timeout thread.
join(c, ok) ==
  /\ monitor' = IF monitor = "off" THEN "check" ELSE monitor
  /\ activeClientAdd(c, ok)
  /\ UNCHANGED <<subscription_list, client_lock, subscription_lock, rpc, timed_out_list, sent>>

leave(c, ok) ==
  /\ activeClientRemove(c, ok)
  /\ UNCHANGED <<subscription_list, subscription_lock, rpc, timed_out_list, monitor, sent>>

ping(c, ok) ==
  /\ ok = TRUE
  /\ client_list' = [i \in 1 .. Len(client_list) |->
       IF client_list[i].client = c THEN [client_list[i] EXCEPT !.age = 0] ELSE client_list[i]]
  /\ UNCHANGED <<subscription_list, client_lock, subscription_lock, rpc, timed_out_list, monitor, sent>>

subscribe(c, p, ok) ==
  /\ subscriptionAddEntry(c, p, ok)
  /\ UNCHANGED <<client_list, client_lock, subscription_lock, rpc, timed_out_list, monitor, sent>>

unsubscribe(c, p, ok) ==
  /\ subscriptionRemoveEntry(c, p, ok)
  /\ UNCHANGED <<client_list, client_lock, rpc, timed_out_list, monitor, sent>>

publish(c, a, ok) ==
  /\ ok = Complete(a)
  /\ IF ok THEN sendArticle(a) ELSE UNCHANGED sent
  /\ UNCHANGED <<client_list, subscription_list, client_lock, subscription_lock, rpc, timed_out_list, monitor>>

Dispatch(m, ok) ==
  \/ m.call.op = "join" /\ join(m.client, ok)
  \/ m.call.op = "leave" /\ leave(m.client, ok)
  \/ m.call.op = "ping" /\ ping(m.client, ok)
  \/ m.call.op = "subscribe" /\ subscribe(m.client, m.call.arg, ok)
  \/ m.call.op = "unsubscribe" /\ unsubscribe(m.client, m.call.arg, ok)
  \/ m.call.op = "publish" /\ publish(m.client, m.call.arg, ok)

\* The mutex a call needs, if it needs one.
Locked(m) ==
  \/ client_lock /\ m.call.op \in {"join", "leave", "ping"}
  \/ subscription_lock /\ m.call.op \in {"subscribe", "unsubscribe"}
  \/ subscription_lock /\ m.call.op = "publish" /\ Complete(m.call.arg)

\* The client gets the reply: the program exits after leave and after a join
\* that was refused.
Returned(c, cl, ok) ==
  /\ call' = [call EXCEPT ![c] = NoCall]
  /\ status' = [status EXCEPT ![c] = CASE cl.op = "join" /\ ok -> "in"
                                       [] cl.op = "join" /\ ~ok -> "gone"
                                       [] cl.op = "leave" -> "gone"
                                       [] OTHER -> @]
  /\ wants' = [wants EXCEPT ![c] = CASE cl.op = "subscribe" /\ ok -> @ \cup {cl.arg}
                                     [] cl.op = "unsubscribe" /\ ok -> @ \ {cl.arg}
                                     [] OTHER -> @]

\* The RPC thread serves a call.  With retries a copy of it may still be under
\* way, and the reply may be lost; the copies that a client no longer waits for
\* are late.
Serve(m) ==
  /\ rpc = "ready" /\ m \in net /\ ~Locked(m)
  /\ \E ok, copy, reply \in BOOLEAN :
       /\ copy => Retries
       /\ Retries \/ reply
       /\ Dispatch(m, ok)
       /\ IF reply /\ ~m.late /\ status[m.client] \in {"new", "in"}
            THEN /\ Returned(m.client, m.call, ok)
                 /\ net' = (net \ {m}) \cup IF copy THEN {[m EXCEPT !.late = TRUE]} ELSE {}
            ELSE /\ net' = IF copy THEN net ELSE net \ {m}
                 /\ UNCHANGED <<call, status, wants>>

\* The routine waits for a mutex that is never released.
Block(m) ==
  /\ rpc = "ready" /\ m \in net /\ Locked(m)
  /\ rpc' = "blocked"
  /\ UNCHANGED <<client_list, subscription_list, client_lock, subscription_lock, timed_out_list,
                 monitor, sent, status, call, net, wants>>

(* The timeout thread. *)

ExpiredBug(e) == e.age >= Timeout
Expired(e) == e.age > Timeout

\* The expired clients in the order of the list.
timeoutCheck ==
  /\ monitor = "check" /\ ~client_lock
  /\ LET expired == Positions(client_list, Expired)
     IN  /\ expired # {}
         /\ \E at \in [1 .. Cardinality(expired) -> expired] :
              /\ \A j, k \in DOMAIN at : j < k => at[j] < at[k]
              /\ timed_out_list' = [k \in DOMAIN at |-> client_list[at[k]].client]
  /\ monitor' = "remove"
  /\ UNCHANGED <<client_list, subscription_list, client_lock, subscription_lock, rpc, sent,
                 status, call, net, wants>>

timeoutRemove ==
  /\ monitor = "remove" /\ ~client_lock
  /\ \E ok \in BOOLEAN : activeClientRemove(Head(timed_out_list), ok)
  /\ timed_out_list' = Tail(timed_out_list)
  /\ monitor' = IF Len(timed_out_list) = 1 THEN "check" ELSE "remove"
  /\ UNCHANGED <<subscription_list, subscription_lock, rpc, sent, status, call, net, wants>>

(* The clients. *)

MayCall(c, cl) ==
  IF cl.op = "join" THEN status[c] = "new"
  ELSE /\ status[c] = "in"
       /\ Careful /\ cl.op = "subscribe" => cl.arg \notin wants[c]
       /\ Careful /\ cl.op = "unsubscribe" => cl.arg \in wants[c]

\* One call at a time: lock_rpc.
Request(c, cl) ==
  /\ call[c] = NoCall
  /\ MayCall(c, cl) /\ Cardinality(net) < MaxNet
  /\ call' = [call EXCEPT ![c] = cl]
  /\ net' = net \cup {[client |-> c, call |-> cl, late |-> FALSE]}
  /\ UNCHANGED <<server, status, wants>>

\* The call is sent again after a lost datagram.
Resend(c) ==
  /\ Retries
  /\ call[c] # NoCall /\ status[c] \in {"new", "in"}
  /\ [client |-> c, call |-> call[c], late |-> FALSE] \notin net /\ Cardinality(net) < MaxNet
  /\ net' = net \cup {[client |-> c, call |-> call[c], late |-> FALSE]}
  /\ UNCHANGED <<server, status, call, wants>>

\* No reply within 25 seconds: the program exits with an error.
GiveUp(c) ==
  /\ call[c] # NoCall /\ status[c] \in {"new", "in"}
  /\ Retries \/ rpc = "blocked"
  /\ status' = [status EXCEPT ![c] = "failed"]
  /\ UNCHANGED <<server, call, net, wants>>

\* The process is killed.
Kill(c) ==
  /\ status[c] = "in" \/ (status[c] = "new" /\ call[c] # NoCall)
  /\ status' = [status EXCEPT ![c] = "gone"]
  /\ UNCHANGED <<server, call, net, wants>>

Alive(c) == status[c] = "in"

\* A second passes.  If everybody is punctual then a client pings before its
\* time is over, and what a process sent before it ended arrives within a second.
Tick ==
  /\ client_list # << >>
  /\ Punctual =>
       /\ \A i \in 1 .. Len(client_list) : Alive(client_list[i].client) => client_list[i].age < Timeout
       /\ \A m \in net : status[m.client] \in {"new", "in"}
  /\ client_list' = [i \in 1 .. Len(client_list) |->
       [client_list[i] EXCEPT !.age = IF @ > Timeout THEN @ ELSE @ + 1]]
  /\ UNCHANGED <<subscription_list, client_lock, subscription_lock, rpc, timed_out_list, monitor,
                 sent, status, call, net, wants>>

-----------------------------------------------------------------------------
Next ==
  \/ \E m \in net : Serve(m) \/ Block(m)
  \/ timeoutCheck \/ timeoutRemove
  \/ \E c \in Clients, cl \in Calls : Request(c, cl)
  \/ \E c \in Clients : Resend(c) \/ GiveUp(c) \/ Kill(c)
  \/ Tick

Spec == Init /\ [][Next]_vars

\* Both threads of the server run and calls are served in the order they come,
\* time passes, and a client's ping thread gets its turn at lock_rpc.
Fairness ==
  /\ \A c \in Clients : WF_vars(\E m \in net : m.client = c /\ (Serve(m) \/ Block(m)))
  /\ WF_vars(timeoutCheck \/ timeoutRemove)
  /\ WF_vars(Tick)
  /\ \A c \in Clients : SF_vars(Request(c, Call("ping", NoArg)))

FairSpec == Spec /\ Fairness

-----------------------------------------------------------------------------
(* Properties *)

TypeOK ==
  /\ client_list \in Seq([client : Clients, age : 0 .. Timeout + 1]) /\ Len(client_list) <= MaxClients
  /\ subscription_list \in Seq([client : Clients, pattern : Patterns])
  /\ Len(subscription_list) <= MaxSubscriptions
  /\ client_lock \in BOOLEAN /\ subscription_lock \in BOOLEAN
  /\ rpc \in {"ready", "blocked"} /\ monitor \in {"off", "check", "remove"}
  /\ timed_out_list \in Seq(Clients) /\ Len(timed_out_list) <= MaxClients
  /\ monitor = "remove" <=> timed_out_list # << >>
  /\ sent.article \in Articles \cup {NoArg} /\ sent.to \subseteq Clients
  /\ status \in [Clients -> {"new", "in", "gone", "failed"}]
  /\ call \in [Clients -> Calls \cup {NoCall}]
  /\ net \subseteq Message
  /\ wants \in [Clients -> SUBSET Patterns]

Entries(c) == Cardinality(ClientPositions(c))

\* A step takes away at most one entry of the client list, that of a client
\* that sent a leave call or that the timeout thread found silent, and moving
\* the last entry to the gap (server_routines.c:496-499) loses no other.
RemovalsAreOwn ==
  [][\A c \in Clients : Entries(c)' < Entries(c) =>
       /\ Entries(c)' = Entries(c) - 1
       /\ \A d \in Clients \ {c} : Entries(d)' = Entries(d)
       /\ \/ monitor = "remove" /\ Head(timed_out_list) = c
          \/ \E m \in net : m.client = c /\ m.call.op = "leave"]_vars

\* A client that has joined and is alive is in the client list, once
\* (server_routines.c:430-468, 609-618): pinging in time keeps it there.
LiveClientsListed == \A c \in Clients : Alive(c) => Entries(c) = 1

\* "montitors clients who have not interacted with server for a certain timeout
\* interval" (server_routines.c:587): what the timeout thread removes
\* (server_routines.c:628-632) is a client that is silent by then.  Not so if a
\* ping is served between the check and the removal.
TimedOutAreSilent ==
  [][monitor = "remove" /\ timed_out_list' # timed_out_list =>
       \A i \in ClientPositions(Head(timed_out_list)) : client_list[i].age > Timeout]_vars

\* What a client that subscribed to p wants to be sent.
Asks(p, a) == \A f \in DOMAIN p : p[f] \in {"", a[f]}

\* A client that waits for no call and has no matching subscription is sent
\* nothing, in particular not after it unsubscribed (tests.sh:12;
\* server_routines.c:225-253, 348-374).
UnsubscribedGetsNothing ==
  [][sent' # sent => \A c \in sent'.to :
       Alive(c) /\ call[c] = NoCall => \E p \in wants[c] : Asks(p, sent'.article)]_vars

\* Every client with a matching subscription is sent the article (tests.sh:10-11;
\* server_routines.c:225-253).
SubscribersGetArticles ==
  [][sent' # sent => \A c \in Clients :
       Alive(c) /\ (\E p \in wants[c] : Asks(p, sent'.article))
         => c \in sent'.to]_vars

\* The server answers: a call that failed can be tried again, as the client says
\* (client.c:308, "Client unsubscribe request failed. Try again...").
NobodyGivesUp == \A c \in Clients : status[c] # "failed"

\* "confirm that server detects client timeout" (tests.sh:8): a client that is
\* gone is taken off the client list (server_routines.c:588-637), also if its
\* join is served only after its end, and stays off.
DeadClientsRemoved == <>[](\A c \in Clients : status[c] = "gone" => Entries(c) = 0)
=============================================================================
