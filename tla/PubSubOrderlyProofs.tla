------------------------ MODULE PubSubOrderlyProofs --------------------------
(***************************************************************************)
(* Proofs of what the group server promises its clients, in the            *)
(* environments in which it keeps the promise.  Without retries every call *)
(* is served once and answered; then whoever subscribed is sent what it    *)
(* wants.  If users also subscribe once and unsubscribe only from what     *)
(* they subscribed to, nobody is sent anything else.  If pings and last    *)
(* calls come in time as well, live clients stay listed, and the server    *)
(* never stops answering.                                                  *)
(*                                                                         *)
(* The invariants tie the three places together that know of a client: its *)
(* process, the server's lists and the call under way.                     *)
(***************************************************************************)
EXTENDS PubSubProofs

Orderly == ~Retries /\ Careful /\ Punctual

\* What a client list says of client c: that it is there, that it has pinged
\* lately, that it has not.
InList(list, c) == \E i \in 1 .. Len(list) : list[i].client = c
Fresh(list, c)  == \A i \in 1 .. Len(list) : list[i].client = c => list[i].age <= Timeout
Silent(list, c) == \E i \in 1 .. Len(list) : list[i].client = c /\ list[i].age > Timeout

\* No client is listed twice, and no subscription is.
OneEntryEach(list) == \A i, j \in 1 .. Len(list) : list[i].client = list[j].client => i = j
Subscribed(list, c, p) == \E i \in 1 .. Len(list) : list[i] = [client |-> c, pattern |-> p]
OneSubscriptionEach(list) == \A i, j \in 1 .. Len(list) : list[i] = list[j] => i = j

\* A call under way is the one its sender made last, also when the sender has
\* ended since.
Current(m) ==
  /\ ~m.late /\ call[m.client] = m.call
  /\ status[m.client] = "new" => m.call.op = "join"
  /\ status[m.client] = "in" => m.call.op # "join"

CallsCurrent == \A m \in net : Current(m)

\* What a client has subscribed to is in the subscription list.
WantsListed ==
  \A c \in Clients : status[c] \in {"new", "in"} => \A p \in wants[c] : Subscribed(subscription_list, c, p)

\* Nothing else is, and a call finds the list as it was when it was made.
SubscriptionsAgree ==
  /\ OneSubscriptionEach(subscription_list)
  /\ \A c \in Clients, p \in Patterns :
       status[c] \in {"new", "in"} => (Subscribed(subscription_list, c, p) <=> p \in wants[c])
  /\ \A m \in net : /\ m.call.op = "subscribe" => ~Subscribed(subscription_list, m.client, m.call.arg)
                    /\ m.call.op = "unsubscribe" => Subscribed(subscription_list, m.client, m.call.arg)

\* The client list agrees with what the process of client c knows, and the call
\* it waits for is under way.
ProcessAgrees(c) ==
  /\ status[c] # "failed"
  /\ status[c] = "new" => ~InList(client_list, c)
  /\ status[c] = "in" => InList(client_list, c) /\ Fresh(client_list, c)
  /\ status[c] \in {"new", "in"} /\ call[c] # NoCall =>
       [client |-> c, call |-> call[c], late |-> FALSE] \in net

\* A call finds the client list as it was when it was made.
CallAgrees(m) ==
  /\ Fresh(client_list, m.client)
  /\ InList(client_list, m.client) <=> m.call.op # "join"

\* Whoever the timeout thread is about to remove is listed, silent, and comes
\* up once.
RemovalsDue ==
  /\ \A k \in 1 .. Len(timed_out_list) : Silent(client_list, timed_out_list[k])
  /\ \A j, k \in 1 .. Len(timed_out_list) : timed_out_list[j] = timed_out_list[k] => j = k

\* No mutex was left locked, so that the RPC thread never waits for one.
Unlocked == ~client_lock /\ ~subscription_lock /\ rpc = "ready"

ClientsAgree ==
  /\ OneEntryEach(client_list)
  /\ \A c \in Clients : ProcessAgrees(c)
  /\ \A m \in net : CallAgrees(m)
  /\ RemovalsDue /\ Unlocked

\* The inductive invariants: with calls answered, with careful users as well,
\* and in an orderly environment.
AnsweredInv == TypeOK /\ CallsCurrent /\ WantsListed
CarefulInv  == TypeOK /\ CallsCurrent /\ SubscriptionsAgree
OrderlyInv  == TypeOK /\ CallsCurrent /\ SubscriptionsAgree /\ ClientsAgree

-----------------------------------------------------------------------------
(* What the operations do to a list. *)

\* A client that pinged lately is not silent.
LEMMA FreshNotSilent ==
  ASSUME NEW list \in Seq(Entry), NEW c, Fresh(list, c)
  PROVE  ~Silent(list, c)
<1>1. \A i \in 1 .. Len(list) : list[i].age \in Int
  <2>1. \A i \in 1 .. Len(list) : list[i] \in Entry
    OBVIOUS
  <2> QED BY <2>1, LimitAssumption DEF Entry
<1> QED BY <1>1, LimitAssumption DEF Fresh, Silent

\* new says of every client but c what list says.
SameButFor(list, new, c) ==
  \A d : d # c => /\ InList(new, d) <=> InList(list, d)
                  /\ Fresh(new, d) <=> Fresh(list, d)
                  /\ Silent(new, d) <=> Silent(list, d)

\* A client that joins is added (server_routines.c:443-450).
LEMMA AppendEffect ==
  ASSUME NEW list \in Seq(Entry), OneEntryEach(list), NEW c \in Clients, ~InList(list, c)
  PROVE  LET new == Append(list, [client |-> c, age |-> 0])
         IN  /\ OneEntryEach(new) /\ SameButFor(list, new, c)
             /\ InList(new, c) /\ Fresh(new, c)
<1> DEFINE n == Len(list)
           e == [client |-> c, age |-> 0]
           new == Append(list, e)
<1>1. e \in Entry /\ n \in Nat /\ e.client = c /\ e.age <= Timeout
  BY LimitAssumption DEF Entry
<1> HIDE DEF e
<1>2. Len(new) = n + 1 /\ new[n + 1] = e /\ \A i \in 1 .. n : new[i] = list[i]
  BY <1>1
<1> HIDE DEF new
<1>3. \A i \in 1 .. n : list[i].client # c
  BY DEF InList
<1>4. OneEntryEach(new)
  BY <1>1, <1>2, <1>3 DEF OneEntryEach
<1>5. InList(new, c)
  BY <1>1, <1>2 DEF InList
<1>6. Fresh(new, c)
  BY <1>1, <1>2, <1>3 DEF Fresh
<1>7. ASSUME NEW d, d # c
      PROVE  /\ InList(new, d) <=> InList(list, d)
             /\ Fresh(new, d) <=> Fresh(list, d)
             /\ Silent(new, d) <=> Silent(list, d)
  <2>1. InList(new, d) <=> InList(list, d)
    BY <1>1, <1>2, <1>7 DEF InList
  <2>2. Fresh(new, d) <=> Fresh(list, d)
    BY <1>1, <1>2, <1>7 DEF Fresh
  <2>3. Silent(new, d) <=> Silent(list, d)
    BY <1>1, <1>2, <1>7 DEF Silent
  <2> QED BY <2>1, <2>2, <2>3
<1>8. SameButFor(list, new, c)
  BY <1>7 DEF SameButFor
<1> QED BY <1>4, <1>5, <1>6, <1>8 DEF new, e

\* Removing an entry keeps all others, each once.
LEMMA RemoveMoves ==
  ASSUME NEW S, NEW list \in Seq(S), NEW i \in 1 .. Len(list)
  PROVE  LET n == Len(list)
             new == RemoveAt(list, i)
         IN  /\ Len(new) = n - 1
             /\ \A k \in 1 .. n - 1 : \E j \in 1 .. n : j # i /\ new[k] = list[j]
             /\ \A j \in 1 .. n : j # i => \E k \in 1 .. n - 1 : new[k] = list[j]
             /\ \A j, k \in 1 .. n - 1 : j # k => \E a, b \in 1 .. n : a # b /\ new[j] = list[a] /\ new[k] = list[b]
<1> DEFINE n == Len(list)
           new == RemoveAt(list, i)
           from(k) == IF k = i THEN n ELSE k
<1>1. n \in Nat /\ n \in 1 .. n
  OBVIOUS
<1>2. Len(new) = n - 1 /\ \A k \in 1 .. n - 1 : new[k] = IF k = i THEN list[n] ELSE list[k]
  BY RemoveAtIs
<1> HIDE DEF new
<1>3. \A k \in 1 .. n - 1 : from(k) \in 1 .. n /\ from(k) # i /\ new[k] = list[from(k)]
  BY <1>1, <1>2
<1>4. \A j, k \in 1 .. n - 1 : j # k => from(j) # from(k)
  BY <1>1
<1>5. \A j \in 1 .. n : j # i => \E k \in 1 .. n - 1 : new[k] = list[j]
  <2> SUFFICES ASSUME NEW j \in 1 .. n, j # i PROVE \E k \in 1 .. n - 1 : new[k] = list[j]
    OBVIOUS
  <2>1. CASE j = n
    <3>1. i \in 1 .. n - 1 /\ new[i] = list[j]
      BY <1>1, <1>2, <2>1
    <3> QED BY <3>1
  <2>2. CASE j # n
    <3>1. j \in 1 .. n - 1 /\ new[j] = list[j]
      BY <1>1, <1>2, <2>2
    <3> QED BY <3>1
  <2> QED BY <2>1, <2>2
<1> HIDE DEF from
<1>6. \A k \in 1 .. n - 1 : \E j \in 1 .. n : j # i /\ new[k] = list[j]
  BY <1>3
<1>7. \A j, k \in 1 .. n - 1 : j # k => \E a, b \in 1 .. n : a # b /\ new[j] = list[a] /\ new[k] = list[b]
  BY <1>3, <1>4
<1> QED BY <1>2, <1>5, <1>6, <1>7 DEF new

\* A removed client is gone from the list, and nobody else is
\* (server_routines.c:493-502).
LEMMA RemoveEffect ==
  ASSUME NEW list \in Seq(Entry), OneEntryEach(list), NEW i \in 1 .. Len(list)
  PROVE  LET new == RemoveAt(list, i)
             c   == list[i].client
         IN  /\ OneEntryEach(new) /\ SameButFor(list, new, c)
             /\ ~InList(new, c) /\ Fresh(new, c)
<1> DEFINE n == Len(list)
           c == list[i].client
           new == RemoveAt(list, i)
<1>1. n \in Nat /\ n \in 1 .. n
  OBVIOUS
<1>2. Len(new) = n - 1 /\ \A k \in 1 .. n - 1 : new[k] = IF k = i THEN list[n] ELSE list[k]
  BY RemoveAtIs
<1> HIDE DEF new
<1>3. \A k \in 1 .. n - 1 : \E j \in 1 .. n : j # i /\ new[k] = list[j]
  BY RemoveMoves DEF new
<1>4. \A j \in 1 .. n : j # i => \E k \in 1 .. n - 1 : new[k] = list[j]
  BY RemoveMoves DEF new
<1>5. \A j \in 1 .. n : list[j].client = c <=> j = i
  BY DEF OneEntryEach
<1>6. OneEntryEach(new)
  <2>1. \A j, k \in 1 .. n - 1 : j # k => \E a, b \in 1 .. n : a # b /\ new[j] = list[a] /\ new[k] = list[b]
    BY RemoveMoves DEF new
  <2> SUFFICES ASSUME NEW j \in 1 .. n - 1, NEW k \in 1 .. n - 1, j # k, new[j].client = new[k].client
               PROVE  FALSE
    BY <1>2 DEF OneEntryEach
  <2>2. PICK a \in 1 .. n, b \in 1 .. n : a # b /\ new[j] = list[a] /\ new[k] = list[b]
    BY <2>1
  <2> QED BY <2>2 DEF OneEntryEach
<1> HIDE DEF c
<1>7. ~InList(new, c)
  BY <1>2, <1>3, <1>5 DEF InList
<1>8. Fresh(new, c)
  BY <1>2, <1>3, <1>5 DEF Fresh
<1>9. ASSUME NEW d, d # c
      PROVE  /\ InList(new, d) <=> InList(list, d)
             /\ Fresh(new, d) <=> Fresh(list, d)
             /\ Silent(new, d) <=> Silent(list, d)
  <2>0. list[i].client # d
    BY <1>9 DEF c
  <2>1. InList(new, d) <=> InList(list, d)
    <3>1. InList(new, d) => InList(list, d)
      BY <1>2, <1>3 DEF InList
    <3>2. InList(list, d) => InList(new, d)
      BY <1>2, <1>4, <2>0 DEF InList
    <3> QED BY <3>1, <3>2
  <2>2. Fresh(new, d) <=> Fresh(list, d)
    <3>1. Fresh(list, d) => Fresh(new, d)
      BY <1>2, <1>3 DEF Fresh
    <3>2. Fresh(new, d) => Fresh(list, d)
      BY <1>2, <1>4, <2>0 DEF Fresh
    <3> QED BY <3>1, <3>2
  <2>3. Silent(new, d) <=> Silent(list, d)
    <3>1. Silent(new, d) => Silent(list, d)
      BY <1>2, <1>3 DEF Silent
    <3>2. Silent(list, d) => Silent(new, d)
      BY <1>2, <1>4, <2>0 DEF Silent
    <3> QED BY <3>1, <3>2
  <2> QED BY <2>1, <2>2, <2>3
<1>10. SameButFor(list, new, c)
  BY <1>9 DEF SameButFor
<1> QED BY <1>6, <1>7, <1>8, <1>10 DEF new, c

\* A ping makes its sender's entry fresh (server_routines.c:274-281).
LEMMA PingEffect ==
  ASSUME NEW list \in Seq(Entry), OneEntryEach(list), NEW c
  PROVE  LET new == [i \in 1 .. Len(list) |->
                       IF list[i].client = c THEN [list[i] EXCEPT !.age = 0] ELSE list[i]]
         IN  /\ OneEntryEach(new) /\ SameButFor(list, new, c)
             /\ InList(new, c) <=> InList(list, c)
             /\ Fresh(new, c)
<1> DEFINE n == Len(list)
           new == [i \in 1 .. n |-> IF list[i].client = c THEN [list[i] EXCEPT !.age = 0] ELSE list[i]]
<1>1. n \in Nat /\ \A i \in 1 .. n : list[i] \in Entry
  OBVIOUS
<1>2. \A e \in Entry : [e EXCEPT !.age = 0].client = e.client /\ [e EXCEPT !.age = 0].age = 0
  BY DEF Entry
<1>3. \A i \in 1 .. n : /\ new[i].client = list[i].client
                        /\ list[i].client # c => new[i] = list[i]
                        /\ list[i].client = c => new[i].age = 0
  BY <1>1, <1>2
<1>4. new \in [1 .. n -> Entry]
  <2>1. \A e \in Entry : [e EXCEPT !.age = 0] \in Entry
    BY LimitAssumption DEF Entry
  <2> QED BY <1>1, <2>1
<1> HIDE DEF new
<1>5. Len(new) = n
  BY <1>1, <1>4
<1>6. OneEntryEach(new)
  BY <1>3, <1>5 DEF OneEntryEach
<1>7. \A d : InList(new, d) <=> InList(list, d)
  BY <1>3, <1>5 DEF InList
<1>8. Fresh(new, c)
  BY <1>3, <1>5, LimitAssumption DEF Fresh
<1>9. \A d : d # c => (Fresh(new, d) <=> Fresh(list, d))
  BY <1>3, <1>5 DEF Fresh
<1>10. \A d : d # c => (Silent(new, d) <=> Silent(list, d))
  BY <1>3, <1>5 DEF Silent
<1>11. SameButFor(list, new, c)
  BY <1>7, <1>9, <1>10 DEF SameButFor
<1> QED BY <1>6, <1>7, <1>8, <1>11 DEF new

\* A second later everybody is still listed, who was silent still is, and who
\* has pinged in time is still fresh.
LEMMA TickEffect ==
  ASSUME NEW list \in Seq(Entry), OneEntryEach(list)
  PROVE  LET new == [i \in 1 .. Len(list) |-> [list[i] EXCEPT !.age = IF @ > Timeout THEN @ ELSE @ + 1]]
         IN  /\ OneEntryEach(new)
             /\ \A d : InList(new, d) <=> InList(list, d)
             /\ \A d : Silent(list, d) => Silent(new, d)
             /\ \A d : (\A i \in 1 .. Len(list) : list[i].client = d => list[i].age < Timeout) => Fresh(new, d)
<1> DEFINE n == Len(list)
           next(e) == [e EXCEPT !.age = IF @ > Timeout THEN @ ELSE @ + 1]
           new == [i \in 1 .. n |-> next(list[i])]
<1>1. n \in Nat /\ \A i \in 1 .. n : list[i] \in Entry
  OBVIOUS
<1>2. ASSUME NEW e \in Entry
      PROVE  /\ next(e) \in Entry /\ next(e).client = e.client
             /\ e.age > Timeout => next(e).age > Timeout
             /\ e.age < Timeout => next(e).age <= Timeout
  <2>1. e.age \in 0 .. Timeout + 1 /\ Timeout \in Nat
    BY LimitAssumption DEF Entry
  <2>2. next(e) = [e EXCEPT !.age = IF e.age > Timeout THEN e.age ELSE e.age + 1]
    OBVIOUS
  <2> HIDE DEF next
  <2>3. CASE e.age > Timeout
    <3>1. next(e) = [e EXCEPT !.age = e.age]
      BY <2>2, <2>3
    <3>2. next(e) \in Entry /\ next(e).client = e.client /\ next(e).age = e.age
      BY <3>1 DEF Entry
    <3> QED BY <2>1, <2>3, <3>2
  <2>4. CASE ~ (e.age > Timeout)
    <3>1. next(e) = [e EXCEPT !.age = e.age + 1] /\ e.age + 1 \in 0 .. Timeout + 1
      BY <2>1, <2>2, <2>4
    <3>2. next(e) \in Entry /\ next(e).client = e.client /\ next(e).age = e.age + 1
      BY <3>1 DEF Entry
    <3> QED BY <2>1, <2>4, <3>2
  <2> QED BY <2>3, <2>4
<1> HIDE DEF next
<1>3. \A i \in 1 .. n : /\ new[i].client = list[i].client
                        /\ list[i].age > Timeout => new[i].age > Timeout
                        /\ list[i].age < Timeout => new[i].age <= Timeout
  BY <1>1, <1>2
<1>4. new \in [1 .. n -> Entry]
  BY <1>1, <1>2
<1>5. new = [i \in 1 .. n |-> [list[i] EXCEPT !.age = IF @ > Timeout THEN @ ELSE @ + 1]]
  BY DEF next
<1> HIDE DEF new
<1>6. Len(new) = n
  BY <1>1, <1>4
<1>7. OneEntryEach(new)
  BY <1>3, <1>6 DEF OneEntryEach
<1>8. \A d : InList(new, d) <=> InList(list, d)
  BY <1>3, <1>6 DEF InList
<1>9. \A d : Silent(list, d) => Silent(new, d)
  BY <1>3, <1>6 DEF Silent
<1>10. \A d : (\A i \in 1 .. n : list[i].client = d => list[i].age < Timeout) => Fresh(new, d)
  BY <1>3, <1>6 DEF Fresh
<1> QED BY <1>5, <1>7, <1>8, <1>9, <1>10

\* A subscription that is added (server_routines.c:304-318).
LEMMA SubscribeEffect ==
  ASSUME NEW list \in Seq(Subscription), OneSubscriptionEach(list),
         NEW c \in Clients, NEW p \in Patterns, ~Subscribed(list, c, p)
  PROVE  LET new == Append(list, [client |-> c, pattern |-> p])
         IN  /\ OneSubscriptionEach(new)
             /\ \A d, q : Subscribed(new, d, q) <=> Subscribed(list, d, q) \/ (d = c /\ q = p)
<1> DEFINE n == Len(list)
           e == [client |-> c, pattern |-> p]
           new == Append(list, e)
<1>1. e \in Subscription /\ n \in Nat
  BY DEF Subscription
<1>2. \A d, q : e = [client |-> d, pattern |-> q] <=> d = c /\ q = p
  OBVIOUS
<1>3. \A i \in 1 .. n : list[i] # e
  BY DEF Subscribed
<1> HIDE DEF e
<1>4. Len(new) = n + 1 /\ new[n + 1] = e /\ \A i \in 1 .. n : new[i] = list[i]
  BY <1>1
<1> HIDE DEF new
<1>5. OneSubscriptionEach(new)
  BY <1>1, <1>3, <1>4 DEF OneSubscriptionEach
<1>6. \A d, q : Subscribed(new, d, q) <=> Subscribed(list, d, q) \/ (d = c /\ q = p)
  <2> SUFFICES ASSUME NEW d, NEW q
               PROVE  Subscribed(new, d, q) <=> Subscribed(list, d, q) \/ (d = c /\ q = p)
    OBVIOUS
  <2> DEFINE x == [client |-> d, pattern |-> q]
  <2>1. Subscribed(new, d, q) <=> \E i \in 1 .. n + 1 : new[i] = x
    BY <1>4 DEF Subscribed
  <2>2. Subscribed(list, d, q) <=> \E i \in 1 .. n : list[i] = x
    BY DEF Subscribed
  <2>3. e = x <=> d = c /\ q = p
    BY <1>2
  <2> HIDE DEF x
  <2> QED BY <1>1, <1>4, <2>1, <2>2, <2>3
<1> QED BY <1>5, <1>6 DEF new, e

\* A subscription that is removed (server_routines.c:365-374).
LEMMA UnsubscribeEffect ==
  ASSUME NEW list \in Seq(Subscription), OneSubscriptionEach(list),
         NEW i \in 1 .. Len(list), NEW c, NEW p, list[i] = [client |-> c, pattern |-> p]
  PROVE  LET new == RemoveAt(list, i)
         IN  /\ OneSubscriptionEach(new)
             /\ \A d, q : Subscribed(new, d, q) <=> Subscribed(list, d, q) /\ ~ (d = c /\ q = p)
<1> DEFINE n == Len(list)
           new == RemoveAt(list, i)
<1>1. Len(new) = n - 1 /\ \A k \in 1 .. n - 1 : \E j \in 1 .. n : j # i /\ new[k] = list[j]
  BY RemoveMoves
<1>2. \A j \in 1 .. n : j # i => \E k \in 1 .. n - 1 : new[k] = list[j]
  BY RemoveMoves
<1>3. \A j \in 1 .. n : list[j] = list[i] <=> j = i
  BY DEF OneSubscriptionEach
<1>4. OneSubscriptionEach(new)
  <2>1. \A j, k \in 1 .. n - 1 : j # k => \E a, b \in 1 .. n : a # b /\ new[j] = list[a] /\ new[k] = list[b]
    BY RemoveMoves
  <2> HIDE DEF new
  <2> SUFFICES ASSUME NEW j \in 1 .. n - 1, NEW k \in 1 .. n - 1, j # k, new[j] = new[k]
               PROVE  FALSE
    BY <1>1 DEF OneSubscriptionEach
  <2>2. PICK a \in 1 .. n, b \in 1 .. n : a # b /\ new[j] = list[a] /\ new[k] = list[b]
    BY <2>1
  <2> QED BY <2>2 DEF OneSubscriptionEach
<1> HIDE DEF new
<1>5. \A d, q : Subscribed(new, d, q) <=> Subscribed(list, d, q) /\ ~ (d = c /\ q = p)
  <2> SUFFICES ASSUME NEW d, NEW q
               PROVE  Subscribed(new, d, q) <=> Subscribed(list, d, q) /\ ~ (d = c /\ q = p)
    OBVIOUS
  <2> DEFINE x == [client |-> d, pattern |-> q]
  <2>1. Subscribed(new, d, q) <=> \E k \in 1 .. n - 1 : new[k] = x
    BY <1>1 DEF Subscribed
  <2>2. Subscribed(list, d, q) <=> \E k \in 1 .. n : list[k] = x
    BY DEF Subscribed
  <2>3. list[i] = x <=> d = c /\ q = p
    OBVIOUS
  <2> HIDE DEF x
  <2>4. (\E k \in 1 .. n - 1 : new[k] = x) => (\E k \in 1 .. n : list[k] = x) /\ list[i] # x
    BY <1>1, <1>3
  <2>5. (\E k \in 1 .. n : list[k] = x) /\ list[i] # x => \E k \in 1 .. n - 1 : new[k] = x
    BY <1>2
  <2> QED BY <2>1, <2>2, <2>3, <2>4, <2>5
<1> QED BY <1>4, <1>5 DEF new

-----------------------------------------------------------------------------
(* Calls. *)

\* A client has one call under way.
LEMMA OneMessageEach ==
  ASSUME TypeOK, CallsCurrent, NEW m \in net, NEW x \in net, x.client = m.client
  PROVE  x = m
<1>1. m \in Message /\ x \in Message
  BY DEF TypeOK
<1>2. x.call = m.call /\ x.late = m.late
  BY <1>1 DEF CallsCurrent, Current, Message
<1> QED BY <1>1, <1>2 DEF Message

\* Without retries a call is served once and its caller, unless it has ended, is
\* told of the outcome.
LEMMA ServedOnce ==
  ASSUME CallsCurrent, ~Retries, NEW m \in net, Serve(m)
  PROVE  \E ok \in BOOLEAN :
           /\ Dispatch(m, ok) /\ net' = net \ {m}
           /\ IF status[m.client] \in {"new", "in"} THEN Returned(m.client, m.call, ok)
                                                    ELSE UNCHANGED <<call, status, wants>>
BY DEF CallsCurrent, Current, Serve

\* What the caller c makes of the outcome.
LEMMA ReturnedIs ==
  ASSUME TypeOK, NEW c \in Clients, NEW cl, NEW ok \in BOOLEAN, Returned(c, cl, ok)
  PROVE  /\ call'[c] = NoCall
         /\ status'[c] = CASE cl.op = "join" /\ ok -> "in" [] cl.op = "join" /\ ~ok -> "gone"
                           [] cl.op = "leave" -> "gone" [] OTHER -> status[c]
         /\ wants'[c] = CASE cl.op = "subscribe" /\ ok -> wants[c] \cup {cl.arg}
                          [] cl.op = "unsubscribe" /\ ok -> wants[c] \ {cl.arg} [] OTHER -> wants[c]
         /\ \A d \in Clients \ {c} : status'[d] = status[d] /\ call'[d] = call[d] /\ wants'[d] = wants[d]
BY DEF Returned, TypeOK

\* Nobody else learns anything from it.
LEMMA ServedOthers ==
  ASSUME TypeOK, CallsCurrent, ~Retries, NEW m \in net, Serve(m), NEW d \in Clients, d # m.client
  PROVE  status'[d] = status[d] /\ call'[d] = call[d] /\ wants'[d] = wants[d]
<1>1. m.client \in Clients
  BY DEF TypeOK, Message
<1>2. CASE \E ok \in BOOLEAN : Returned(m.client, m.call, ok)
  BY <1>1, <1>2 DEF Returned, TypeOK
<1>3. CASE UNCHANGED <<call, status, wants>>
  BY <1>3
<1> QED BY <1>2, <1>3, ServedOnce

\* What the steps leave alone that serve no call.
LEMMA QuietStep ==
  ASSUME TypeOK, [Next]_vars, ~ \E m \in net : Serve(m)
  PROVE  /\ UNCHANGED <<subscription_list, wants, sent>>
         /\ \A d \in Clients : status'[d] \in {status[d], "gone", "failed"}
         /\ \/ \E c \in Clients, cl \in Calls : Request(c, cl)
            \/ \E c \in Clients : Resend(c)
            \/ UNCHANGED <<call, net>>
<1>1. CASE \E m \in net : Block(m)
  BY <1>1 DEF Block
<1>2. CASE timeoutCheck \/ timeoutRemove
  BY <1>2 DEF timeoutCheck, timeoutRemove
<1>3. CASE \E c \in Clients, cl \in Calls : Request(c, cl)
  BY <1>3 DEF Request, server
<1>4. CASE \E c \in Clients : Resend(c)
  BY <1>4 DEF Resend, server
<1>5. CASE \E c \in Clients : GiveUp(c) \/ Kill(c)
  BY <1>5 DEF GiveUp, Kill, server, TypeOK
<1>6. CASE Tick
  BY <1>6 DEF Tick
<1>7. CASE UNCHANGED vars
  BY <1>7 DEF vars, server
<1> QED BY <1>1, <1>2, <1>3, <1>4, <1>5, <1>6, <1>7 DEF Next

\* No call of a client is the mark for none.
LEMMA NoCallIsNone == NoCall \notin Calls
<1>1. \A cl \in Calls : cl.op # "none"
  BY DEF Calls, Call
<1> QED BY <1>1 DEF NoCall, Call

\* What a request adds to the calls under way: the first of its sender.
LEMMA RequestIs ==
  ASSUME TypeOK, CallsCurrent, NEW c \in Clients, NEW cl \in Calls, Request(c, cl)
  PROVE  /\ net' = net \cup {[client |-> c, call |-> cl, late |-> FALSE]}
         /\ MayCall(c, cl) /\ call'[c] = cl /\ \A d \in Clients \ {c} : call'[d] = call[d]
         /\ \A x \in net : x.client \in Clients \ {c}
         /\ UNCHANGED <<client_list, subscription_list, client_lock, subscription_lock, rpc, timed_out_list>>
         /\ UNCHANGED <<status, wants>>
<1>1. call'[c] = cl /\ \A d \in Clients \ {c} : call'[d] = call[d]
  BY DEF Request, TypeOK
<1>2. \A x \in net : x.client \in Clients \ {c}
  <2> SUFFICES ASSUME NEW x \in net PROVE x.client \in Clients /\ x.client # c
    OBVIOUS
  <2>1. x.client \in Clients /\ x.call \in Calls /\ call[x.client] = x.call
    BY DEF TypeOK, Message, CallsCurrent, Current
  <2> QED BY <2>1, NoCallIsNone DEF Request
<1>3. UNCHANGED <<client_list, subscription_list, client_lock, subscription_lock, rpc, timed_out_list, status, wants>>
  BY DEF Request, server
<1> QED BY <1>1, <1>2, <1>3 DEF Request

\* Without retries every call under way stays its sender's last one.
LEMMA CallsStep ==
  ASSUME TypeOK, CallsCurrent, ~Retries, [Next]_vars
  PROVE  CallsCurrent'
<1>0. \A x \in net : x \in Message /\ x.client \in Clients /\ Current(x)
  BY DEF TypeOK, Message, CallsCurrent
<1>1. CASE \E m \in net : Serve(m)
  <2>1. PICK m \in net : Serve(m)
    BY <1>1
  <2>2. net' = net \ {m}
    BY <2>1, ServedOnce
  <2> SUFFICES ASSUME NEW x \in net' PROVE Current(x)'
    BY DEF CallsCurrent
  <2>3. x \in net /\ x.client # m.client
    BY <2>2, OneMessageEach
  <2>4. status'[x.client] = status[x.client] /\ call'[x.client] = call[x.client]
    BY <1>0, <2>1, <2>3, ServedOthers
  <2> QED BY <1>0, <2>3, <2>4 DEF Current
<1>2. CASE \E c \in Clients, cl \in Calls : Request(c, cl)
  <2>1. PICK c \in Clients, cl \in Calls : Request(c, cl)
    BY <1>2
  <2> DEFINE m == [client |-> c, call |-> cl, late |-> FALSE]
  <2>2. Current(m)'
    <3>1. m.client = c /\ m.call = cl /\ ~m.late
      OBVIOUS
    <3> HIDE DEF m
    <3>2. /\ status[c] = "new" => cl.op = "join"
          /\ status[c] = "in" => cl.op # "join"
      BY <2>1, RequestIs DEF MayCall
    <3> QED BY <2>1, <3>1, <3>2, RequestIs DEF Current
  <2>3. \A x \in net : Current(x)'
    BY <1>0, <2>1, RequestIs DEF Current
  <2>4. net' = net \cup {m}
    BY <2>1, RequestIs
  <2> HIDE DEF m
  <2> QED BY <2>2, <2>3, <2>4 DEF CallsCurrent
<1>3. CASE \E c \in Clients : Resend(c)
  BY <1>3 DEF Resend
<1>4. CASE UNCHANGED <<call, net>> /\ \A d \in Clients : status'[d] \in {status[d], "gone", "failed"}
  BY <1>0, <1>4 DEF CallsCurrent, Current
<1> QED BY <1>1, <1>2, <1>3, <1>4, QuietStep


-----------------------------------------------------------------------------
(* Subscriptions. *)

\* What unsubscribe looks for it finds, if it is there (server_routines.c:355-363).
LEMMA SubscriptionFound ==
  ASSUME TypeOK, NEW c, NEW p
  PROVE  LET S == subscription_list
             P == SubscriptionPositions(c, p)
         IN  /\ P # {} <=> Subscribed(S, c, p)
             /\ P # {} => FirstOf(P) \in 1 .. Len(S) /\ S[FirstOf(P)] = [client |-> c, pattern |-> p]
<1> DEFINE S == subscription_list
           P == SubscriptionPositions(c, p)
<1>1. P = {i \in 1 .. Len(S) : S[i].client = c /\ S[i].pattern = p}
  BY PositionsAre
<1>2. S \in Seq(Subscription)
  BY TypeSplit DEF ServerOK
<1> HIDE DEF P
<1>3. \A i \in 1 .. Len(S) : i \in P <=> S[i] = [client |-> c, pattern |-> p]
  <2> SUFFICES ASSUME NEW i \in 1 .. Len(S) PROVE i \in P <=> S[i] = [client |-> c, pattern |-> p]
    OBVIOUS
  <2>1. S[i] \in Subscription
    BY <1>2
  <2> QED BY <1>1, <2>1 DEF Subscription
<1>4. P \in SUBSET Nat /\ P \in SUBSET (1 .. Len(S))
  BY <1>1, <1>2
<1>5. P # {} <=> Subscribed(S, c, p)
  BY <1>3, <1>4 DEF Subscribed
<1>6. P # {} => FirstOf(P) \in P
  BY <1>4, FirstOfIn
<1>7. P # {} => FirstOf(P) \in 1 .. Len(S) /\ S[FirstOf(P)] = [client |-> c, pattern |-> p]
  BY <1>3, <1>4, <1>6
<1> QED BY <1>5, <1>7 DEF P

\* Only unsubscribe changes more of the subscriptions than an addition, and it
\* takes away nothing but what it is asked to.
LEMMA DispatchKeeps ==
  ASSUME TypeOK, NEW m \in Message, NEW ok \in BOOLEAN, Dispatch(m, ok)
  PROVE  LET old == subscription_list
             new == subscription_list'
         IN  /\ \A d, q : Subscribed(old, d, q) /\ ~ (m.call.op = "unsubscribe" /\ ok /\ d = m.client /\ q = m.call.arg)
                            => Subscribed(new, d, q)
             /\ m.call.op = "subscribe" /\ ok => Subscribed(new, m.client, m.call.arg)
<1> DEFINE S == subscription_list
           c == m.client
           p == m.call.arg
           e == [client |-> c, pattern |-> p]
<1>1. S \in Seq(Subscription) /\ c \in Clients /\ m.call \in Calls
  BY TypeSplit DEF ServerOK, Message
<1>2. CASE m.call.op = "subscribe" /\ ok
  <2>1. S' = Append(S, e)
    BY <1>2 DEF Dispatch, subscribe, subscriptionAddEntry
  <2>2. e \in Subscription
    BY <1>1, <1>2, CallArgs DEF Subscription
  <2>3. Len(S') = Len(S) + 1 /\ S'[Len(S) + 1] = e /\ \A i \in 1 .. Len(S) : S'[i] = S[i]
    <3> HIDE DEF e
    <3> QED BY <1>1, <2>1, <2>2
  <2>4. Len(S) \in Nat
    BY <1>1
  <2>5. \A d, q : Subscribed(S, d, q) => Subscribed(S', d, q)
    BY <2>3, <2>4 DEF Subscribed
  <2>6. Subscribed(S', c, p)
    BY <2>3, <2>4 DEF Subscribed
  <2> QED BY <1>2, <2>5, <2>6
<1>3. CASE m.call.op = "unsubscribe" /\ ok
  <2> DEFINE at == FirstOf(SubscriptionPositions(c, p))
             n == Len(S)
  <2>1. S' = RemoveAt(S, at) /\ SubscriptionPositions(c, p) # {}
    BY <1>3 DEF Dispatch, unsubscribe, subscriptionRemoveEntry
  <2>2. at \in 1 .. n /\ S[at] = e
    BY <2>1, SubscriptionFound
  <2> HIDE DEF at
  <2>3. Len(S') = n - 1 /\ \A j \in 1 .. n : j # at => \E k \in 1 .. n - 1 : S'[k] = S[j]
    <3>1. LET new == RemoveAt(S, at)
          IN  Len(new) = n - 1 /\ \A j \in 1 .. n : j # at => \E k \in 1 .. n - 1 : new[k] = S[j]
      BY <1>1, <2>2, RemoveMoves
    <3> QED BY <2>1, <3>1
  <2> SUFFICES ASSUME NEW d, NEW q, Subscribed(S, d, q), ~ (d = c /\ q = p) PROVE Subscribed(S', d, q)
    BY <1>3
  <2>4. PICK j \in 1 .. n : S[j] = [client |-> d, pattern |-> q]
    BY DEF Subscribed
  <2>5. S[j] # S[at]
    BY <2>2, <2>4
  <2>6. PICK k \in 1 .. n - 1 : S'[k] = S[j]
    BY <2>3, <2>5
  <2> QED BY <2>3, <2>4, <2>6 DEF Subscribed
<1>4. CASE m.call.op \notin {"subscribe", "unsubscribe"} \/ ~ok
  <2>1. S' = S
    BY <1>4 DEF Dispatch, join, leave, ping, publish, subscribe, subscriptionAddEntry,
                unsubscribe, subscriptionRemoveEntry
  <2> QED BY <1>4, <2>1
<1> QED BY <1>2, <1>3, <1>4

\* Without retries what a client wants stays listed.
LEMMA WantsStep ==
  ASSUME TypeOK, CallsCurrent, WantsListed, ~Retries, [Next]_vars
  PROVE  WantsListed'
<1>1. CASE \E m \in net : Serve(m)
  <2> SUFFICES ASSUME NEW c \in Clients, status'[c] \in {"new", "in"}, NEW p \in wants'[c]
               PROVE  Subscribed(subscription_list', c, p)
    BY DEF WantsListed
  <2>1. PICK m \in net : Serve(m)
    BY <1>1
  <2>2. PICK ok \in BOOLEAN :
          /\ Dispatch(m, ok)
          /\ IF status[m.client] \in {"new", "in"} THEN Returned(m.client, m.call, ok)
                                                   ELSE UNCHANGED <<call, status, wants>>
    BY <2>1, ServedOnce
  <2>3. m \in Message /\ m.client \in Clients
    BY DEF TypeOK, Message
  <2>4. /\ \A d, q : /\ Subscribed(subscription_list, d, q)
                     /\ ~ (m.call.op = "unsubscribe" /\ ok /\ d = m.client /\ q = m.call.arg)
                     => Subscribed(subscription_list', d, q)
        /\ m.call.op = "subscribe" /\ ok => Subscribed(subscription_list', m.client, m.call.arg)
    BY <2>2, <2>3, DispatchKeeps
  <2>5. CASE c # m.client
    <3>1. status'[c] = status[c] /\ wants'[c] = wants[c]
      BY <2>1, <2>5, ServedOthers
    <3> QED BY <2>4, <2>5, <3>1 DEF WantsListed
  <2>6. CASE c = m.client
    <3>1. status[c] \in {"new", "in"}
      BY <2>2, <2>6
    <3>2. wants'[c] = CASE m.call.op = "subscribe" /\ ok -> wants[c] \cup {m.call.arg}
                        [] m.call.op = "unsubscribe" /\ ok -> wants[c] \ {m.call.arg} [] OTHER -> wants[c]
      <4>1. Returned(c, m.call, ok)
        BY <2>2, <2>6, <3>1
      <4> QED BY <4>1, ReturnedIs
    <3>3. \A q \in wants[c] : Subscribed(subscription_list, c, q)
      BY <3>1 DEF WantsListed
    <3> QED BY <2>4, <2>6, <3>2, <3>3
  <2> QED BY <2>5, <2>6
<1>2. CASE ~ \E m \in net : Serve(m)
  BY <1>2, QuietStep DEF WantsListed
<1> QED BY <1>1, <1>2

\* What serving call m does to the subscriptions, if there are no doubles.
SubscriptionEffect(m, ok) ==
  /\ OneSubscriptionEach(subscription_list')
  /\ UNCHANGED subscription_lock
  /\ m.call.op = "unsubscribe" => ok
  /\ \A d, q : Subscribed(subscription_list', d, q) <=>
       IF d = m.client /\ q = m.call.arg /\ ok /\ m.call.op \in {"subscribe", "unsubscribe"}
       THEN m.call.op = "subscribe"
       ELSE Subscribed(subscription_list, d, q)

\* Nobody unsubscribes in vain, so the routine does not return with its mutex
\* locked (server_routines.c:376-379).
LEMMA DispatchSubscriptions ==
  ASSUME TypeOK, SubscriptionsAgree, NEW m \in net, NEW ok \in BOOLEAN, Dispatch(m, ok)
  PROVE  SubscriptionEffect(m, ok)
<1> DEFINE S == subscription_list
           c == m.client
           p == m.call.arg
<1>1. S \in Seq(Subscription) /\ OneSubscriptionEach(S) /\ c \in Clients /\ m.call \in Calls
  BY TypeSplit DEF ServerOK, ClientsOK, Message, SubscriptionsAgree
<1>2. CASE m.call.op = "subscribe" /\ ok
  <2>1. S' = Append(S, [client |-> c, pattern |-> p]) /\ UNCHANGED subscription_lock
    BY <1>2 DEF Dispatch, subscribe, subscriptionAddEntry
  <2>2. p \in Patterns /\ ~Subscribed(S, c, p)
    BY <1>1, <1>2, CallArgs DEF SubscriptionsAgree
  <2>3. /\ OneSubscriptionEach(S')
        /\ \A d, q : Subscribed(S', d, q) <=> Subscribed(S, d, q) \/ (d = c /\ q = p)
    BY <1>1, <2>1, <2>2, SubscribeEffect
  <2> QED BY <1>2, <2>1, <2>3 DEF SubscriptionEffect
<1>3. CASE m.call.op = "unsubscribe"
  <2> DEFINE at == FirstOf(SubscriptionPositions(c, p))
  <2>1. SubscriptionPositions(c, p) # {} /\ at \in 1 .. Len(S) /\ S[at] = [client |-> c, pattern |-> p]
    <3>1. Subscribed(S, c, p)
      BY <1>3 DEF SubscriptionsAgree
    <3> QED BY <3>1, SubscriptionFound
  <2>2. unsubscribe(c, p, ok)
    BY <1>3 DEF Dispatch
  <2>3. ok /\ S' = RemoveAt(S, at)
    BY <2>1, <2>2 DEF unsubscribe, subscriptionRemoveEntry
  <2>4. subscription_lock' = subscription_lock
    BY <2>2, <2>3 DEF unsubscribe, subscriptionRemoveEntry, TypeOK
  <2> HIDE DEF at
  <2>5. /\ OneSubscriptionEach(S')
        /\ \A d, q : Subscribed(S', d, q) <=> Subscribed(S, d, q) /\ ~ (d = c /\ q = p)
    BY <1>1, <2>1, <2>3, UnsubscribeEffect
  <2> QED BY <1>3, <2>3, <2>4, <2>5 DEF SubscriptionEffect
<1>4. CASE m.call.op # "unsubscribe" /\ (m.call.op # "subscribe" \/ ~ok)
  <2>1. S' = S /\ UNCHANGED subscription_lock
    BY <1>4 DEF Dispatch, join, leave, ping, subscribe, subscriptionAddEntry, publish
  <2> QED BY <1>1, <1>4, <2>1 DEF SubscriptionEffect
<1> QED BY <1>2, <1>3, <1>4

\* A careful user asks for what the server can do.
LEMMA SubscriptionsStep ==
  ASSUME TypeOK, CallsCurrent, SubscriptionsAgree, ~Retries, Careful, [Next]_vars
  PROVE  SubscriptionsAgree'
<1> DEFINE Finds(list, x) == /\ x.call.op = "subscribe" => ~Subscribed(list, x.client, x.call.arg)
                             /\ x.call.op = "unsubscribe" => Subscribed(list, x.client, x.call.arg)
           Knows(list, st, w, c) == \A p \in Patterns : st \in {"new", "in"} => (Subscribed(list, c, p) <=> p \in w)
           S == subscription_list
<1>1. /\ OneSubscriptionEach(S)
      /\ \A c \in Clients : Knows(S, status[c], wants[c], c)
      /\ \A x \in net : Finds(S, x) /\ x.client \in Clients /\ x.call \in Calls
  BY DEF SubscriptionsAgree, TypeOK, Message
<1>2. SUFFICES /\ OneSubscriptionEach(S')
               /\ \A c \in Clients : Knows(S', status'[c], wants'[c], c)
               /\ \A x \in net' : Finds(S', x)
  BY DEF SubscriptionsAgree
<1>3. CASE \E m \in net : Serve(m)
  <2>1. PICK m \in net : Serve(m)
    BY <1>3
  <2> DEFINE c == m.client
  <2>2. PICK ok \in BOOLEAN :
          /\ Dispatch(m, ok) /\ net' = net \ {m}
          /\ IF status[c] \in {"new", "in"} THEN Returned(c, m.call, ok) ELSE UNCHANGED <<call, status, wants>>
    BY <2>1, ServedOnce
  <2>3. SubscriptionEffect(m, ok)
    BY <2>2, DispatchSubscriptions
  <2>4. ASSUME NEW d \in Clients, d # c PROVE Knows(S', status'[d], wants'[d], d)
    <3>1. status'[d] = status[d] /\ wants'[d] = wants[d]
      BY <2>1, <2>4, ServedOthers
    <3> QED BY <1>1, <2>3, <2>4, <3>1 DEF SubscriptionEffect
  <2>5. Knows(S', status'[c], wants'[c], c)
    <3>1. CASE status[c] \in {"new", "in"}
      <4>1. wants'[c] = CASE m.call.op = "subscribe" /\ ok -> wants[c] \cup {m.call.arg}
                          [] m.call.op = "unsubscribe" /\ ok -> wants[c] \ {m.call.arg} [] OTHER -> wants[c]
        <5>1. c \in Clients /\ Returned(c, m.call, ok)
          BY <1>1, <2>2, <3>1
        <5> QED BY <5>1, ReturnedIs
      <4>2. \A p \in Patterns : Subscribed(S, c, p) <=> p \in wants[c]
        BY <1>1, <3>1
      <4>3. \A p \in Patterns : Subscribed(S', c, p) <=> p \in wants'[c]
        BY <2>3, <4>1, <4>2 DEF SubscriptionEffect
      <4> QED BY <4>3
    <3>2. CASE status[c] \notin {"new", "in"}
      BY <2>2, <3>2
    <3> QED BY <3>1, <3>2
  <2>6. ASSUME NEW x \in net' PROVE Finds(S', x)
    <3>1. x \in net /\ x.client # c
      BY <2>2, <2>6, OneMessageEach
    <3> QED BY <1>1, <2>3, <3>1 DEF SubscriptionEffect
  <2>7. OneSubscriptionEach(S')
    BY <2>3 DEF SubscriptionEffect
  <2> QED BY <2>4, <2>5, <2>6, <2>7
<1>4. CASE ~ \E m \in net : Serve(m)
  <2>1. S' = S /\ wants' = wants /\ \A d \in Clients : status'[d] \in {status[d], "gone", "failed"}
    BY <1>4, QuietStep
  <2>2. \A d \in Clients : Knows(S', status'[d], wants'[d], d)
    BY <1>1, <2>1
  <2>3. CASE \E c \in Clients, cl \in Calls : Request(c, cl)
    <3>1. PICK c \in Clients, cl \in Calls : Request(c, cl)
      BY <2>3
    <3> DEFINE m == [client |-> c, call |-> cl, late |-> FALSE]
    <3>2. Finds(S, m)
      <4>1. /\ cl.op = "subscribe" => cl.arg \in Patterns /\ cl.arg \notin wants[c] /\ status[c] = "in"
            /\ cl.op = "unsubscribe" => cl.arg \in Patterns /\ cl.arg \in wants[c] /\ status[c] = "in"
        BY <3>1, RequestIs, CallArgs DEF MayCall
      <4> QED BY <1>1, <4>1
    <3>3. net' = net \cup {m}
      BY <3>1, RequestIs
    <3> HIDE DEF m
    <3>4. \A x \in net' : Finds(S', x)
      BY <1>1, <2>1, <3>2, <3>3
    <3> QED BY <1>1, <2>1, <2>2, <3>4
  <2>4. CASE UNCHANGED net
    BY <1>1, <2>1, <2>2, <2>4
  <2> QED BY <1>4, <2>3, <2>4, QuietStep DEF Resend
<1> QED BY <1>3, <1>4

-----------------------------------------------------------------------------
(* The client list: the steps of the server. *)

\* A list says of everybody what it says.
LEMMA SameList == \A list, c : SameButFor(list, list, c)
BY DEF SameButFor

\* A client that is listed once is the one that is removed, and the mutex is
\* released (server_routines.c:470-509).
LEMMA RemovedFound ==
  ASSUME TypeOK, OneEntryEach(client_list), NEW c, InList(client_list, c), ~client_lock,
         NEW ok, activeClientRemove(c, ok)
  PROVE  /\ OneEntryEach(client_list') /\ SameButFor(client_list, client_list', c)
         /\ ~InList(client_list', c) /\ Fresh(client_list', c)
         /\ ~client_lock'
<1> DEFINE n == Len(client_list)
           P == ClientPositions(c)
           at == FirstOf(P)
<1>1. client_list \in Seq(Entry)
  BY TypeSplit DEF ServerOK
<1>2. P = {i \in 1 .. n : client_list[i].client = c}
  BY PositionsAre
<1>3. P # {} /\ P \in SUBSET Nat
  <2> HIDE DEF P
  <2> QED BY <1>2 DEF InList
<1>4. client_list' = RemoveAt(client_list, at) /\ ~client_lock'
  BY <1>3 DEF activeClientRemove
<1>5. at \in 1 .. n /\ client_list[at].client = c
  <2>1. at \in P
    BY <1>3, FirstOfIn
  <2> QED BY <1>2, <2>1
<1> HIDE DEF at
<1> QED BY <1>1, <1>4, <1>5, RemoveEffect

\* What serving call m does to the client list.
ListEffect(m, ok) ==
  /\ OneEntryEach(client_list') /\ SameButFor(client_list, client_list', m.client)
  /\ Fresh(client_list', m.client)
  /\ InList(client_list', m.client) <=> IF m.call.op = "join" THEN ok ELSE m.call.op # "leave"

\* Every routine leaves the client list's mutex free: whoever leaves is listed.
LEMMA DispatchLists ==
  ASSUME OrderlyInv, NEW m \in net, NEW ok \in BOOLEAN, Dispatch(m, ok)
  PROVE  ListEffect(m, ok) /\ ~client_lock' /\ UNCHANGED <<rpc, timed_out_list>>
<1> DEFINE c == m.client
<1>1. TypeOK /\ c \in Clients /\ CallAgrees(m) /\ OneEntryEach(client_list) /\ ~client_lock
  BY DEF OrderlyInv, TypeOK, Message, ClientsAgree, Unlocked
<1>2. client_list \in Seq(Entry)
  BY <1>1, TypeSplit DEF ServerOK
<1>3. Fresh(client_list, c) /\ (InList(client_list, c) <=> m.call.op # "join")
  BY <1>1 DEF CallAgrees
<1>4. CASE m.call.op = "join" /\ join(m.client, ok)
  <2>1. ListEffect(m, ok)
    <3>1. CASE ok
      <4>1. client_list' = Append(client_list, [client |-> c, age |-> 0])
        BY <1>4, <3>1 DEF join, activeClientAdd
      <4> QED BY <1>1, <1>2, <1>3, <1>4, <3>1, <4>1, AppendEffect DEF ListEffect
    <3>2. CASE ~ok
      <4>1. client_list' = client_list
        BY <1>4, <3>2 DEF join, activeClientAdd
      <4> QED BY <1>1, <1>3, <1>4, <3>2, <4>1, SameList DEF ListEffect
    <3> QED BY <3>1, <3>2
  <2> QED BY <1>1, <1>4, <2>1 DEF join
<1>5. CASE m.call.op = "leave" /\ leave(m.client, ok)
  <2>1. activeClientRemove(c, ok)
    BY <1>5 DEF leave
  <2>2. InList(client_list, c)
    BY <1>3, <1>5
  <2>3. ListEffect(m, ok) /\ ~client_lock'
    BY <1>1, <1>5, <2>1, <2>2, RemovedFound DEF ListEffect
  <2> QED BY <1>5, <2>3 DEF leave
<1>6. CASE m.call.op = "ping" /\ ping(m.client, ok)
  <2>1. client_list' = [i \in 1 .. Len(client_list) |->
          IF client_list[i].client = c THEN [client_list[i] EXCEPT !.age = 0] ELSE client_list[i]]
    BY <1>6 DEF ping
  <2>2. ListEffect(m, ok)
    BY <1>1, <1>2, <1>3, <1>6, <2>1, PingEffect DEF ListEffect
  <2> QED BY <1>1, <1>6, <2>2 DEF ping
<1>7. CASE m.call.op \in {"subscribe", "unsubscribe", "publish"}
  <2>1. UNCHANGED <<client_list, client_lock, rpc, timed_out_list>>
    BY <1>7 DEF Dispatch, subscribe, unsubscribe, publish
  <2>2. ListEffect(m, ok)
    BY <1>1, <1>3, <1>7, <2>1, SameList DEF ListEffect
  <2> QED BY <1>1, <2>1, <2>2
<1> QED BY <1>4, <1>5, <1>6, <1>7 DEF Dispatch

\* What a step that is not about client d, or only ends it, does to it.
Spared(d) ==
  /\ status'[d] \in {status[d], "gone"} /\ call'[d] = call[d]
  /\ status[d] # "gone" \/ (\E m \in net' : m.client = d) => (InList(client_list', d) <=> InList(client_list, d))
  /\ (status[d] = "in" \/ \E m \in net' : m.client = d) /\ Fresh(client_list, d) => Fresh(client_list', d)

\* A spared process still agrees with the client list.
LEMMA SparedProcess ==
  ASSUME NEW d \in Clients, ProcessAgrees(d), Spared(d),
         LET m == [client |-> d, call |-> call[d], late |-> FALSE] IN m \in net => m \in net'
  PROVE  ProcessAgrees(d)'
<1>1. CASE status'[d] = "gone"
  BY <1>1 DEF ProcessAgrees
<1>2. CASE status'[d] # "gone"
  <2>1. status'[d] = status[d] /\ call'[d] = call[d] /\ status[d] # "gone"
    BY <1>2 DEF Spared
  <2>2. status[d] = "new" => ~InList(client_list', d)
    BY <2>1 DEF ProcessAgrees, Spared
  <2>3. status[d] = "in" => InList(client_list', d) /\ Fresh(client_list', d)
    BY <2>1 DEF ProcessAgrees, Spared
  <2>4. status[d] \in {"new", "in"} /\ call[d] # NoCall => [client |-> d, call |-> call[d], late |-> FALSE] \in net'
    BY DEF ProcessAgrees
  <2> QED BY <2>1, <2>2, <2>3, <2>4 DEF ProcessAgrees
<1> QED BY <1>1, <1>2

\* A call of a spared client still finds the list it was made for.
LEMMA SparedCall ==
  ASSUME NEW x \in net', CallAgrees(x), Spared(x.client)
  PROVE  CallAgrees(x)'
<1>1. /\ InList(client_list', x.client) <=> InList(client_list, x.client)
      /\ Fresh(client_list, x.client) => Fresh(client_list', x.client)
  BY DEF Spared
<1> QED BY <1>1 DEF CallAgrees

\* A step that spares every client and leaves the calls under way alone.
LEMMA AllSpared ==
  ASSUME OrderlyInv, \A d \in Clients : Spared(d), UNCHANGED net
  PROVE  (\A d \in Clients : ProcessAgrees(d)') /\ (\A x \in net' : CallAgrees(x)')
<1>1. \A d \in Clients : ProcessAgrees(d)'
  BY SparedProcess DEF OrderlyInv, ClientsAgree
<1>2. \A x \in net' : x.client \in Clients /\ CallAgrees(x)
  BY DEF OrderlyInv, TypeOK, Message, ClientsAgree
<1>3. \A x \in net' : CallAgrees(x)'
  BY <1>2, SparedCall
<1> QED BY <1>1, <1>3

\* A served call leaves the client list as its caller, told of the outcome,
\* knows it, and the others as they were (server_routines.c:54-256).
LEMMA ServeAgrees ==
  ASSUME OrderlyInv, Orderly, NEW m \in net, Serve(m)
  PROVE  ClientsAgree'
<1> DEFINE c == m.client
           op == m.call.op
<1>1. /\ TypeOK /\ CallsCurrent /\ SubscriptionsAgree /\ ~Retries
      /\ c \in Clients /\ CallAgrees(m) /\ ProcessAgrees(c) /\ Current(m)
  BY DEF OrderlyInv, TypeOK, Message, ClientsAgree, CallsCurrent, Orderly
<1>2. PICK ok \in BOOLEAN :
        /\ Dispatch(m, ok) /\ net' = net \ {m}
        /\ IF status[c] \in {"new", "in"} THEN Returned(c, m.call, ok) ELSE UNCHANGED <<call, status, wants>>
  BY <1>1, ServedOnce
<1>3. ListEffect(m, ok) /\ ~client_lock' /\ UNCHANGED <<rpc, timed_out_list, subscription_lock>>
  BY <1>1, <1>2, DispatchLists, DispatchSubscriptions DEF SubscriptionEffect
<1>4. \A d \in Clients \ {c} : Spared(d)
  <2> SUFFICES ASSUME NEW d \in Clients, d # c PROVE Spared(d)
    OBVIOUS
  <2>1. status'[d] = status[d] /\ call'[d] = call[d]
    BY <1>1, ServedOthers
  <2> QED BY <1>3, <2>1 DEF Spared, ListEffect, SameButFor
<1>5. \A d \in Clients \ {c} : ProcessAgrees(d)'
  <2> SUFFICES ASSUME NEW d \in Clients, d # c PROVE ProcessAgrees(d)'
    OBVIOUS
  <2>1. [client |-> d, call |-> call[d], late |-> FALSE] # m
    OBVIOUS
  <2>2. ProcessAgrees(d)
    BY DEF OrderlyInv, ClientsAgree
  <2> QED BY <1>2, <1>4, <2>1, <2>2, SparedProcess
<1>6. ProcessAgrees(c)'
  <2>1. CASE status[c] \notin {"new", "in"}
    BY <1>1, <1>2, <2>1 DEF ProcessAgrees
  <2>2. CASE status[c] \in {"new", "in"}
    <3>1. Returned(c, m.call, ok)
      BY <1>2, <2>2
    <3>2. /\ call'[c] = NoCall
          /\ status'[c] = CASE op = "join" /\ ok -> "in" [] op = "join" /\ ~ok -> "gone"
                            [] op = "leave" -> "gone" [] OTHER -> status[c]
      BY <1>1, <3>1, ReturnedIs
    <3>3. op # "join" => status[c] = "in"
      BY <1>1, <2>2 DEF Current
    <3>4. Fresh(client_list', c) /\ (InList(client_list', c) <=> IF op = "join" THEN ok ELSE op # "leave")
      BY <1>3 DEF ListEffect
    <3>5. status'[c] \in {"in", "gone"} /\ (status'[c] = "in" => InList(client_list', c))
      BY <3>2, <3>3, <3>4
    <3> QED BY <3>2, <3>4, <3>5 DEF ProcessAgrees
  <2> QED BY <2>1, <2>2
<1>7. \A x \in net' : CallAgrees(x)'
  <2> SUFFICES ASSUME NEW x \in net' PROVE CallAgrees(x)'
    OBVIOUS
  <2>1. x \in net /\ x # m /\ CallAgrees(x)
    BY <1>2 DEF OrderlyInv, ClientsAgree
  <2>2. x.client \in Clients \ {c}
    BY <1>1, <2>1, OneMessageEach DEF TypeOK, Message
  <2> QED BY <1>4, <2>1, <2>2, SparedCall
<1>8. RemovalsDue'
  <2>1. RemovalsDue /\ UNCHANGED timed_out_list
    BY <1>3 DEF OrderlyInv, ClientsAgree
  <2>2. ~Silent(client_list, c)
    BY <1>1, FreshNotSilent, TypeSplit DEF CallAgrees, ServerOK
  <2>3. \A k \in 1 .. Len(timed_out_list) : Silent(client_list', timed_out_list[k])
    BY <1>3, <2>1, <2>2 DEF RemovalsDue, ListEffect, SameButFor
  <2> QED BY <2>1, <2>3 DEF RemovalsDue
<1>9. Unlocked' /\ OneEntryEach(client_list')
  BY <1>3 DEF Unlocked, OrderlyInv, ClientsAgree, ListEffect
<1> QED BY <1>5, <1>6, <1>7, <1>8, <1>9 DEF ClientsAgree

\* The timeout thread collects clients that are silent, each once: the list
\* has them once (server_routines.c:609-618).
LEMMA CheckAgrees ==
  ASSUME OrderlyInv, timeoutCheck
  PROVE  ClientsAgree'
<1> DEFINE n == Len(client_list)
           expired == {i \in 1 .. n : Expired(client_list[i])}
           size == Cardinality(expired)
<1>1. n \in Nat
  BY TypeSplit DEF OrderlyInv, ServerOK
<1>2. PICK at \in [1 .. size -> expired] :
        /\ \A j, k \in DOMAIN at : j < k => at[j] < at[k]
        /\ timed_out_list' = [k \in DOMAIN at |-> client_list[at[k]].client]
  BY PositionsAre DEF timeoutCheck
<1>3. size \in Nat
  <2>1. IsFiniteSet(1 .. n) /\ expired \subseteq 1 .. n
    BY <1>1, FS_Interval
  <2> HIDE DEF expired
  <2>2. IsFiniteSet(expired)
    BY <2>1, FS_Subset
  <2> QED BY <2>2, FS_CardinalityType
<1>4. \A k \in 1 .. size : at[k] \in 1 .. n /\ client_list[at[k]].age > Timeout
  BY <1>2 DEF Expired
<1> HIDE DEF size, expired
<1>5. timed_out_list' = [k \in 1 .. size |-> client_list[at[k]].client]
  BY <1>2
<1>6. Len(timed_out_list') = size /\ \A k \in 1 .. size : timed_out_list'[k] = client_list[at[k]].client
  BY <1>3, <1>5
<1>7. \A k \in 1 .. size : Silent(client_list, timed_out_list'[k])
  BY <1>4, <1>6 DEF Silent
<1>8. \A j, k \in 1 .. size : timed_out_list'[j] = timed_out_list'[k] => j = k
  <2> SUFFICES ASSUME NEW j \in 1 .. size, NEW k \in 1 .. size, timed_out_list'[j] = timed_out_list'[k]
               PROVE  j = k
    OBVIOUS
  <2>1. at[j] = at[k]
    BY <1>4, <1>6 DEF OrderlyInv, ClientsAgree, OneEntryEach
  <2>2. ~(j < k) /\ ~(k < j)
    BY <1>1, <1>2, <1>4, <2>1
  <2> QED BY <1>3, <2>2
<1>9. UNCHANGED <<client_list, client_lock, subscription_lock, rpc, status, call, net>>
  BY DEF timeoutCheck
<1>10. RemovalsDue'
  BY <1>6, <1>7, <1>8, <1>9 DEF RemovalsDue
<1> QED BY <1>9, <1>10 DEF OrderlyInv, ClientsAgree, ProcessAgrees, CallAgrees, Unlocked

\* Whom the timeout thread removes is gone and has no call under way, so that
\* nobody misses the entry (server_routines.c:628-632).
LEMMA TimeoutRemoveAgrees ==
  ASSUME OrderlyInv, timeoutRemove
  PROVE  ClientsAgree'
<1> DEFINE c == Head(timed_out_list)
           last == Len(timed_out_list)
<1>1. /\ TypeOK /\ timed_out_list \in Seq(Clients) /\ timed_out_list # << >> /\ client_list \in Seq(Entry)
      /\ ~client_lock /\ OneEntryEach(client_list) /\ RemovalsDue
  BY TypeSplit DEF timeoutRemove, OrderlyInv, ServerOK, ClientsAgree, Unlocked
<1>2. c = timed_out_list[1] /\ c \in Clients /\ last \in Nat /\ 1 \in 1 .. last
  BY <1>1
<1>3. Silent(client_list, c)
  BY <1>1, <1>2 DEF RemovalsDue
<1>4. InList(client_list, c)
  BY <1>3 DEF Silent, InList
<1>5. ~Fresh(client_list, c)
  BY <1>1, <1>3, FreshNotSilent
<1>6. OneEntryEach(client_list') /\ SameButFor(client_list, client_list', c) /\ ~client_lock'
  BY <1>1, <1>4, RemovedFound DEF timeoutRemove
<1>7. UNCHANGED <<subscription_lock, rpc, status, call, net>>
  BY DEF timeoutRemove
<1>8. status[c] = "gone" /\ \A m \in net : m.client # c
  <2>1. ProcessAgrees(c) /\ \A m \in net : CallAgrees(m)
    BY <1>2 DEF OrderlyInv, ClientsAgree
  <2>2. status[c] \in {"new", "in", "gone", "failed"}
    BY <1>1, <1>2 DEF TypeOK
  <2> QED BY <1>4, <1>5, <2>1, <2>2 DEF ProcessAgrees, CallAgrees
<1>9. \A d \in Clients : Spared(d)
  <2>1. ASSUME NEW d \in Clients, d # c PROVE Spared(d)
    BY <1>6, <1>7, <2>1 DEF Spared, SameButFor
  <2>2. Spared(c)
    BY <1>7, <1>8 DEF Spared
  <2> QED BY <2>1, <2>2
<1>10. (\A d \in Clients : ProcessAgrees(d)') /\ (\A x \in net' : CallAgrees(x)')
  BY <1>7, <1>9, AllSpared
<1>11. RemovalsDue'
  <2>1. timed_out_list' = Tail(timed_out_list)
    BY DEF timeoutRemove
  <2>2. Len(timed_out_list') = last - 1 /\ \A k \in 1 .. last - 1 : timed_out_list'[k] = timed_out_list[k + 1]
    BY <1>1, <2>1
  <2>3. \A k \in 1 .. last - 1 : k + 1 \in 1 .. last /\ k + 1 # 1
    BY <1>2
  <2>4. \A k \in 1 .. last - 1 : Silent(client_list', timed_out_list[k + 1])
    BY <1>1, <1>2, <1>6, <2>3 DEF RemovalsDue, SameButFor
  <2>5. \A j, k \in 1 .. last - 1 : timed_out_list[j + 1] = timed_out_list[k + 1] => j = k
    <3> SUFFICES ASSUME NEW j \in 1 .. last - 1, NEW k \in 1 .. last - 1, timed_out_list[j + 1] = timed_out_list[k + 1]
                 PROVE  j = k
      OBVIOUS
    <3>1. j + 1 = k + 1
      BY <1>1, <2>3 DEF RemovalsDue
    <3> QED BY <1>2, <3>1
  <2> QED BY <2>2, <2>4, <2>5 DEF RemovalsDue
<1>12. Unlocked'
  BY <1>6, <1>7 DEF Unlocked, OrderlyInv, ClientsAgree
<1> QED BY <1>6, <1>10, <1>11, <1>12 DEF ClientsAgree

-----------------------------------------------------------------------------
(* The client list: the steps of the clients, and time. *)

\* A client asks for what suits the list: to join if it is not in it.
LEMMA RequestAgrees ==
  ASSUME OrderlyInv, NEW c \in Clients, NEW cl \in Calls, Request(c, cl)
  PROVE  ClientsAgree'
<1> DEFINE m == [client |-> c, call |-> cl, late |-> FALSE]
<1>1. /\ net' = net \cup {m} /\ MayCall(c, cl)
      /\ call'[c] = cl /\ \A d \in Clients \ {c} : call'[d] = call[d]
      /\ \A x \in net : x.client \in Clients \ {c}
      /\ UNCHANGED <<client_list, client_lock, subscription_lock, rpc, timed_out_list, status>>
  BY RequestIs DEF OrderlyInv
<1>2. ProcessAgrees(c)
  BY DEF OrderlyInv, ClientsAgree
<1>3. \A d \in Clients \ {c} : Spared(d)
  BY <1>1 DEF Spared
<1>4. \A d \in Clients \ {c} : ProcessAgrees(d)'
  <2> SUFFICES ASSUME NEW d \in Clients \ {c} PROVE ProcessAgrees(d)'
    OBVIOUS
  <2> QED BY <1>1, <1>3, SparedProcess DEF OrderlyInv, ClientsAgree
<1>5. ProcessAgrees(c)'
  <2>1. [client |-> c, call |-> call'[c], late |-> FALSE] \in net'
    <3>1. [client |-> c, call |-> call'[c], late |-> FALSE] = m
      BY <1>1
    <3> HIDE DEF m
    <3> QED BY <1>1, <3>1
  <2> QED BY <1>1, <1>2, <2>1 DEF ProcessAgrees
<1>6. CallAgrees(m)'
  <2>1. m.client = c /\ m.call = cl
    OBVIOUS
  <2> HIDE DEF m
  <2>2. CASE cl.op = "join"
    <3>1. ~InList(client_list, c)
      BY <1>1, <1>2, <2>2 DEF MayCall, ProcessAgrees
    <3>2. Fresh(client_list, c)
      BY <3>1 DEF Fresh, InList
    <3> QED BY <1>1, <2>1, <2>2, <3>1, <3>2 DEF CallAgrees
  <2>3. CASE cl.op # "join"
    <3>1. InList(client_list, c) /\ Fresh(client_list, c)
      BY <1>1, <1>2, <2>3 DEF MayCall, ProcessAgrees
    <3> QED BY <1>1, <2>1, <2>3, <3>1 DEF CallAgrees
  <2> QED BY <2>2, <2>3
<1>7. \A x \in net : CallAgrees(x)'
  <2>1. \A x \in net : x \in net' /\ CallAgrees(x)
    BY <1>1 DEF OrderlyInv, ClientsAgree
  <2> QED BY <1>1, <1>3, <2>1, SparedCall
<1> HIDE DEF m
<1>8. \A x \in net' : CallAgrees(x)'
  BY <1>1, <1>6, <1>7
<1>9. RemovalsDue' /\ Unlocked' /\ OneEntryEach(client_list')
  BY <1>1 DEF RemovalsDue, Unlocked, OrderlyInv, ClientsAgree
<1> QED BY <1>4, <1>5, <1>8, <1>9 DEF ClientsAgree

\* A killed client leaves its entry, and perhaps its last call, behind.
LEMMA KillAgrees ==
  ASSUME OrderlyInv, NEW c \in Clients, Kill(c)
  PROVE  ClientsAgree'
<1>1. UNCHANGED <<client_list, client_lock, subscription_lock, rpc, timed_out_list, call, net>>
  BY DEF Kill, server
<1>2. \A d \in Clients : status'[d] \in {status[d], "gone"}
  BY DEF Kill, OrderlyInv, TypeOK
<1>3. \A d \in Clients : Spared(d)
  BY <1>1, <1>2 DEF Spared
<1>4. RemovalsDue' /\ Unlocked' /\ OneEntryEach(client_list')
  BY <1>1 DEF RemovalsDue, Unlocked, OrderlyInv, ClientsAgree
<1> QED BY <1>1, <1>3, <1>4, AllSpared DEF ClientsAgree

\* Whoever lives or has a call under way has pinged early enough to be fresh a
\* second later.
LEMMA TickAgrees ==
  ASSUME OrderlyInv, Punctual, Tick
  PROVE  ClientsAgree'
<1> DEFINE InTime(d) == \A i \in 1 .. Len(client_list) : client_list[i].client = d => client_list[i].age < Timeout
<1>1. client_list' = [i \in 1 .. Len(client_list) |->
        [client_list[i] EXCEPT !.age = IF @ > Timeout THEN @ ELSE @ + 1]]
  BY DEF Tick
<1>2. UNCHANGED <<client_lock, subscription_lock, rpc, timed_out_list, status, call, net>>
  BY DEF Tick
<1>3. /\ OneEntryEach(client_list')
      /\ \A d : InList(client_list', d) <=> InList(client_list, d)
      /\ \A d : Silent(client_list, d) => Silent(client_list', d)
      /\ \A d : InTime(d) => Fresh(client_list', d)
  BY <1>1, TickEffect, TypeSplit DEF OrderlyInv, ClientsAgree, ServerOK
<1>4. \A d \in Clients : status[d] \in {"new", "in"} => InTime(d)
  <2> SUFFICES ASSUME NEW d \in Clients, status[d] \in {"new", "in"} PROVE InTime(d)
    OBVIOUS
  <2>1. CASE status[d] = "in"
    BY <2>1 DEF Tick, Alive
  <2>2. CASE status[d] = "new"
    <3>1. ~InList(client_list, d)
      BY <2>2 DEF OrderlyInv, ClientsAgree, ProcessAgrees
    <3> QED BY <3>1 DEF InList
  <2> QED BY <2>1, <2>2
<1>5. \A m \in net : status[m.client] \in {"new", "in"}
  BY DEF Tick
<1> HIDE DEF InTime
<1>6. \A d \in Clients : Spared(d)
  BY <1>2, <1>3, <1>4, <1>5 DEF Spared
<1>7. RemovalsDue' /\ Unlocked'
  BY <1>2, <1>3 DEF RemovalsDue, Unlocked, OrderlyInv, ClientsAgree
<1> QED BY <1>2, <1>3, <1>6, <1>7, AllSpared DEF ClientsAgree

\* Nobody waits for a mutex, sends again or gives up.
LEMMA ClientsStep ==
  ASSUME OrderlyInv, Orderly, [Next]_vars
  PROVE  ClientsAgree'
<1>1. CASE \E m \in net : Serve(m)
  BY <1>1, ServeAgrees
<1>2. CASE \E m \in net : Block(m)
  BY <1>2 DEF Block, Locked, OrderlyInv, ClientsAgree, Unlocked
<1>3. CASE timeoutCheck
  BY <1>3, CheckAgrees
<1>4. CASE timeoutRemove
  BY <1>4, TimeoutRemoveAgrees
<1>5. CASE \E c \in Clients, cl \in Calls : Request(c, cl)
  BY <1>5, RequestAgrees
<1>6. CASE \E c \in Clients : Resend(c) \/ GiveUp(c)
  BY <1>6 DEF Resend, GiveUp, Orderly, OrderlyInv, ClientsAgree, Unlocked
<1>7. CASE \E c \in Clients : Kill(c)
  BY <1>7, KillAgrees
<1>8. CASE Tick
  BY <1>8, TickAgrees DEF Orderly
<1>9. CASE UNCHANGED vars
  BY <1>9 DEF vars, server, OrderlyInv, ClientsAgree, ProcessAgrees, CallAgrees, RemovalsDue, Unlocked
<1> QED BY <1>1, <1>2, <1>3, <1>4, <1>5, <1>6, <1>7, <1>8, <1>9 DEF Next

-----------------------------------------------------------------------------
(* The invariants hold. *)

\* At first nobody is known anywhere.
LEMMA InitAgrees ==
  ASSUME Init
  PROVE  CallsCurrent /\ WantsListed /\ SubscriptionsAgree /\ ClientsAgree
<1>1. Len(client_list) = 0 /\ Len(subscription_list) = 0 /\ Len(timed_out_list) = 0
  BY DEF Init
<1>2. \A i \in 1 .. 0 : FALSE
  OBVIOUS
<1>3. OneEntryEach(client_list) /\ OneSubscriptionEach(subscription_list) /\ RemovalsDue
  BY <1>1, <1>2 DEF OneEntryEach, OneSubscriptionEach, RemovalsDue
<1>4. \A c : ~InList(client_list, c) /\ \A p : ~Subscribed(subscription_list, c, p)
  BY <1>1, <1>2 DEF InList, Subscribed
<1>5. \A c \in Clients : status[c] = "new" /\ call[c] = NoCall /\ wants[c] = {}
  BY DEF Init
<1>6. \A c \in Clients : ProcessAgrees(c)
  BY <1>4, <1>5 DEF ProcessAgrees
<1>7. net = {} /\ Unlocked
  BY DEF Init, Unlocked
<1>8. CallsCurrent /\ WantsListed /\ ClientsAgree
  BY <1>3, <1>5, <1>6, <1>7 DEF CallsCurrent, WantsListed, ClientsAgree
<1>9. SubscriptionsAgree
  BY <1>3, <1>4, <1>5, <1>7 DEF SubscriptionsAgree
<1> QED BY <1>8, <1>9

\* The three invariants, each under what it takes.
LEMMA AnsweredGood ==
  ASSUME ~Retries
  PROVE  Spec => []AnsweredInv
<1>1. Init => CallsCurrent /\ WantsListed
  BY InitAgrees
<1>2. AnsweredInv /\ TypeOK' /\ [Next]_vars => AnsweredInv'
  <2>1. AnsweredInv /\ [Next]_vars => CallsCurrent' /\ WantsListed'
    BY CallsStep, WantsStep DEF AnsweredInv
  <2> QED BY <2>1 DEF AnsweredInv
<1>3. AnsweredInv <=> TypeOK /\ CallsCurrent /\ WantsListed
  BY DEF AnsweredInv
<1> QED BY <1>1, <1>2, <1>3, TypeCorrect, PTL DEF Spec

\* Careful users are needed: a double subscription survives its removal.
LEMMA CarefulGood ==
  ASSUME ~Retries, Careful
  PROVE  Spec => []CarefulInv
<1>1. Init => CallsCurrent /\ SubscriptionsAgree
  BY InitAgrees
<1>2. CarefulInv /\ TypeOK' /\ [Next]_vars => CarefulInv'
  <2>1. CarefulInv /\ [Next]_vars => CallsCurrent' /\ SubscriptionsAgree'
    BY CallsStep, SubscriptionsStep DEF CarefulInv
  <2> QED BY <2>1 DEF CarefulInv
<1>3. CarefulInv <=> TypeOK /\ CallsCurrent /\ SubscriptionsAgree
  BY DEF CarefulInv
<1> QED BY <1>1, <1>2, <1>3, TypeCorrect, PTL DEF Spec

\* Punctual clients are needed: a late ping costs a live client its entry.
LEMMA OrderlyGood ==
  ASSUME Orderly
  PROVE  Spec => []OrderlyInv
<1>1. Init => CallsCurrent /\ SubscriptionsAgree /\ ClientsAgree
  BY InitAgrees
<1>2. OrderlyInv /\ TypeOK' /\ [Next]_vars => OrderlyInv'
  <2>1. OrderlyInv /\ [Next]_vars => ClientsAgree'
    BY ClientsStep
  <2>2. OrderlyInv /\ [Next]_vars => CallsCurrent' /\ SubscriptionsAgree'
    BY CallsStep, SubscriptionsStep DEF OrderlyInv, Orderly
  <2> QED BY <2>1, <2>2 DEF OrderlyInv
<1>3. OrderlyInv <=> TypeOK /\ CallsCurrent /\ SubscriptionsAgree /\ ClientsAgree
  BY DEF OrderlyInv
<1> QED BY <1>1, <1>2, <1>3, TypeCorrect, PTL DEF Spec

-----------------------------------------------------------------------------
(* What is promised to clients. *)

\* A client that has joined and is alive is in the client list, once: pinging
\* in time keeps it there, whatever the others do and however many of them the
\* timeout thread removes (server_routines.c:430-468, 588-637).
THEOREM ListedCorrect ==
  ASSUME Orderly
  PROVE  Spec => []LiveClientsListed
<1>1. OrderlyInv => LiveClientsListed
  <2> SUFFICES ASSUME OrderlyInv, NEW c \in Clients, Alive(c) PROVE Entries(c) = 1
    BY DEF LiveClientsListed
  <2>1. InList(client_list, c) /\ OneEntryEach(client_list)
    BY DEF OrderlyInv, ClientsAgree, ProcessAgrees, Alive
  <2>2. PICK i \in 1 .. Len(client_list) : client_list[i].client = c
    BY <2>1 DEF InList
  <2>3. Places(client_list, c) = {i}
    BY <2>1, <2>2 DEF Places, OneEntryEach
  <2> QED BY <2>3, EntriesAre, FS_Singleton
<1> QED BY <1>1, OrderlyGood, PTL

\* Every call is answered: no routine leaves a mutex locked, so that no client
\* waits in vain (server_routines.c:376-379, 504-507; client.c:308).
THEOREM NobodyGivesUpCorrect ==
  ASSUME Orderly
  PROVE  Spec => []NobodyGivesUp
<1>1. OrderlyInv => NobodyGivesUp
  BY DEF OrderlyInv, ClientsAgree, ProcessAgrees, NobodyGivesUp
<1> QED BY <1>1, OrderlyGood, PTL

-----------------------------------------------------------------------------
(* What is promised about articles. *)

\* The server's comparison is the one a subscriber has in mind: an empty field
\* matches everything.
LEMMA MatchesIsAsks == \A p, a : Matches(p, a) <=> Asks(p, a)
BY DEF Matches, Asks

\* An article goes to whom it matches.
LEMMA SentTo ==
  ASSUME TypeOK, Next, sent' # sent
  PROVE  \A c : c \in sent'.to <=> \E p \in Patterns : Subscribed(subscription_list, c, p) /\ Asks(p, sent'.article)
<1> DEFINE S == subscription_list
<1>1. PICK a : sent' = [article |-> a, to |-> Subscribers(a)]
  <2>1. \E m \in net : Serve(m)
    BY QuietStep
  <2> QED BY <2>1 DEF Serve, Dispatch, join, leave, ping, subscribe, unsubscribe, publish, sendArticle
<1>2. sent'.article = a /\ sent'.to = Subscribers(a)
  BY <1>1
<1>3. Subscribers(a) = {S[i].client : i \in {j \in 1 .. Len(S) : Matches(S[j].pattern, a)}}
  BY PositionsAre
<1>4. \A i \in 1 .. Len(S) : S[i] \in Subscription
  BY TypeSplit DEF ServerOK
<1>5. \A i \in 1 .. Len(S) : S[i].pattern \in Patterns /\ S[i] = [client |-> S[i].client, pattern |-> S[i].pattern]
  BY <1>4 DEF Subscription
<1> SUFFICES ASSUME NEW c
             PROVE  c \in Subscribers(a) <=> \E p \in Patterns : Subscribed(S, c, p) /\ Asks(p, a)
  BY <1>2
<1>6. ASSUME c \in Subscribers(a) PROVE \E p \in Patterns : Subscribed(S, c, p) /\ Asks(p, a)
  <2>1. PICK i \in 1 .. Len(S) : S[i].client = c /\ Matches(S[i].pattern, a)
    BY <1>3, <1>6
  <2>2. S[i] = [client |-> c, pattern |-> S[i].pattern] /\ S[i].pattern \in Patterns
    BY <1>5, <2>1
  <2>3. Subscribed(S, c, S[i].pattern) /\ Asks(S[i].pattern, a)
    BY <2>1, <2>2, MatchesIsAsks DEF Subscribed
  <2> QED BY <2>2, <2>3
<1>7. ASSUME NEW p \in Patterns, Subscribed(S, c, p), Asks(p, a) PROVE c \in Subscribers(a)
  <2>1. PICK i \in 1 .. Len(S) : S[i] = [client |-> c, pattern |-> p]
    BY <1>7 DEF Subscribed
  <2>2. S[i].client = c /\ Matches(S[i].pattern, a)
    BY <1>7, <2>1, MatchesIsAsks
  <2> QED BY <1>3, <2>2
<1> QED BY <1>6, <1>7

\* A client that waits for no call and wants nothing that matches is sent
\* nothing, however late pings come: what it unsubscribed from is off the list,
\* and the entry that moved to the gap is not its own
\* (server_routines.c:225-253, 348-374).
THEOREM UnsubscribedCorrect ==
  ASSUME ~Retries, Careful
  PROVE  Spec => UnsubscribedGetsNothing
<1> DEFINE A == sent' # sent => \A c \in sent'.to :
                  Alive(c) /\ call[c] = NoCall => \E p \in wants[c] : Asks(p, sent'.article)
<1>1. CarefulInv /\ TypeOK' /\ [Next]_vars => [A]_vars
  <2> SUFFICES ASSUME CarefulInv, TypeOK', Next, sent' # sent, NEW c \in sent'.to, Alive(c)
               PROVE  \E p \in wants[c] : Asks(p, sent'.article)
    OBVIOUS
  <2>1. PICK p \in Patterns : Subscribed(subscription_list, c, p) /\ Asks(p, sent'.article)
    BY SentTo DEF CarefulInv
  <2>2. c \in Clients
    BY DEF TypeOK
  <2>3. p \in wants[c]
    BY <2>1, <2>2 DEF CarefulInv, SubscriptionsAgree, Alive
  <2> QED BY <2>1, <2>3
<1>2. UnsubscribedGetsNothing <=> [][A]_vars
  BY DEF UnsubscribedGetsNothing
<1> HIDE DEF A
<1> QED BY <1>1, <1>2, TypeCorrect, CarefulGood, PTL DEF Spec

\* A client that has subscribed to what matches is sent the article, whatever
\* the others subscribe to or take back, and also when the timeout thread has
\* taken it for dead (server_routines.c:225-253, 304-318).
THEOREM SubscribersCorrect ==
  ASSUME ~Retries
  PROVE  Spec => SubscribersGetArticles
<1> DEFINE A == sent' # sent => \A c \in Clients :
                  Alive(c) /\ (\E p \in wants[c] : Asks(p, sent'.article)) => c \in sent'.to
<1>1. AnsweredInv /\ [Next]_vars => [A]_vars
  <2> SUFFICES ASSUME AnsweredInv, Next, sent' # sent, NEW c \in Clients, Alive(c),
                      NEW p \in wants[c], Asks(p, sent'.article)
               PROVE  c \in sent'.to
    OBVIOUS
  <2>1. p \in Patterns
    BY DEF AnsweredInv, TypeOK
  <2>2. Subscribed(subscription_list, c, p)
    BY DEF AnsweredInv, WantsListed, Alive
  <2> QED BY <2>1, <2>2, SentTo DEF AnsweredInv
<1>2. SubscribersGetArticles <=> [][A]_vars
  BY DEF SubscribersGetArticles
<1> HIDE DEF A
<1> QED BY <1>1, <1>2, AnsweredGood, PTL DEF Spec

=============================================================================
