---------------------------- MODULE ServerProofs -----------------------------
(***************************************************************************)
(* SubsAccounted, Delivered and QuietAfterClose, for any connections,      *)
(* topics, subscriptions and messages and any capacity of the channels;    *)
(* first what the steps of a server do to a subscription and its channel.  *)
(***************************************************************************)
EXTENDS Server, TLAPS

USE ZenonT(20)

Closing == {"unsubscribe", "end"}

Label == {"none", "accepted", "loop", "read", "subscribe", "unsubscribe",
          "publish", "end", "done", "crashed"}

Channel == Seq(Message)

Subscription ==
    [topic : Topic \cup {NoTopic}, listed : BOOLEAN, open : BOOLEAN,
     ch : Channel, dropped : SUBSET Message, written : SUBSET Message,
     confirmed : BOOLEAN, forward : BOOLEAN]

Publication ==
    [topic : Topic \cup {NoTopic}, left : SUBSET Sub, due : SUBSET Sub]

\* What the maps of connections and broker hold, each for itself.
Types ==
    /\ pc \in [Conn -> Label]
    /\ todo \in [Conn -> SUBSET Topic]
    /\ subs \in [Conn -> [Topic -> Sub \cup {NoSub}]]
    /\ sending \in [Conn -> Message \cup {NoMessage}]
    /\ sub \in [Sub -> Subscription]
    /\ message \in [Message -> Publication]
    /\ \A c \in Conn : pc[c] = "publish" => sending[c] \in Message

\* No two entries of the connections' maps are the same subscription, and each
\* is on the topic it is held for.
Linked ==
    \A c \in Conn, t \in Topic :
        subs[c][t] # NoSub =>
            /\ sub[subs[c][t]].topic = t
            /\ \A d \in Conn, u \in Topic :
                  subs[d][u] = subs[c][t] => d = c /\ u = t

\* closeSubs has yet to close what the connection still holds.
EndHolds == \A c \in Conn : pc[c] = "end" => Held(c) \subseteq todo[c]

Accounts == Types /\ Linked /\ EndHolds /\ SubsAccounted
-----------------------------------------------------------------------------
(* Channels.                                                                *)

In(m, s) == \E n \in 1..Len(s) : s[n] = m

\* What was in a channel stays when a message is sent, and that is in it too.
LEMMA AppendIn ==
    ASSUME NEW s \in Channel, NEW m \in Message
    PROVE  /\ Append(s, m) \in Channel
           /\ In(m, Append(s, m))
           /\ \A k : In(k, s) => In(k, Append(s, m))
<1>1. /\ Append(s, m) \in Seq(Message)
      /\ Len(Append(s, m)) = Len(s) + 1
      /\ \A n \in 1..Len(s) : Append(s, m)[n] = s[n]
      /\ Append(s, m)[Len(s) + 1] = m
  BY SMTT(20) DEF Channel
<1>2. Len(s) \in Nat
  BY SMTT(20) DEF Channel
<1> QED  BY <1>1, <1>2, SMTT(20) DEF In, Channel

\* The message taken from a channel is the only one that leaves it.
LEMMA TailIn ==
    ASSUME NEW s \in Channel, s # <<>>
    PROVE  /\ Head(s) \in Message
           /\ Tail(s) \in Channel
           /\ \A k : In(k, s) => k = Head(s) \/ In(k, Tail(s))
<1>1. /\ Head(s) \in Message
      /\ Tail(s) \in Seq(Message)
      /\ Len(Tail(s)) = Len(s) - 1
      /\ \A n \in 1..Len(Tail(s)) : Tail(s)[n] = s[n + 1]
  BY SMTT(20) DEF Channel
<1>2. Len(s) \in Nat
  BY SMTT(20) DEF Channel
<1>3. Head(s) = s[1]
  BY SMTT(20) DEF Channel
<1>4. ASSUME NEW k, NEW n \in 1..Len(s), s[n] = k, k # Head(s)
      PROVE  In(k, Tail(s))
  <2>1. n - 1 \in 1..Len(Tail(s)) /\ (n - 1) + 1 = n
    BY <1>1, <1>2, <1>3, <1>4, SMTT(20)
  <2>2. Tail(s)[n - 1] = k
    BY <1>1, <1>4, <2>1
  <2> QED  BY <2>1, <2>2 DEF In
<1> QED  BY <1>1, <1>4 DEF In, Channel

\* A subscription whose channel has changed.
LEMMA ChannelSet ==
    ASSUME NEW s \in Subscription, NEW q \in Channel
    PROVE  LET r == [s EXCEPT !.ch = q]
           IN  /\ r \in Subscription
               /\ r.topic = s.topic /\ r.listed = s.listed /\ r.open = s.open
               /\ r.confirmed = s.confirmed /\ r.written = s.written
               /\ r.dropped = s.dropped
               /\ r.ch = q
BY DEF Subscription

\* A subscription one of whose flags has changed.
LEMMA FlagSet ==
    ASSUME NEW s \in Subscription, NEW b \in BOOLEAN
    PROVE  /\ [s EXCEPT !.listed = b] \in Subscription
           /\ [s EXCEPT !.open = b] \in Subscription
           /\ [s EXCEPT !.confirmed = b] \in Subscription
           /\ [s EXCEPT !.forward = b] \in Subscription
BY DEF Subscription

LEMMA ConfirmedSet ==
    ASSUME NEW s \in Subscription
    PROVE  LET r == [s EXCEPT !.confirmed = TRUE]
           IN  /\ r.topic = s.topic /\ r.listed = s.listed /\ r.open = s.open
               /\ r.ch = s.ch /\ r.dropped = s.dropped /\ r.written = s.written
               /\ r.confirmed
BY DEF Subscription

LEMMA EndedSet ==
    ASSUME NEW s \in Subscription
    PROVE  LET r == [s EXCEPT !.forward = FALSE]
           IN  /\ r.topic = s.topic /\ r.listed = s.listed /\ r.open = s.open
               /\ r.ch = s.ch /\ r.dropped = s.dropped /\ r.written = s.written
               /\ r.confirmed = s.confirmed
BY DEF Subscription

LEMMA UnlistedSet ==
    ASSUME NEW s \in Subscription
    PROVE  LET r == [s EXCEPT !.listed = FALSE]
           IN  /\ r.listed = FALSE /\ r.topic = s.topic /\ r.open = s.open
               /\ r.ch = s.ch /\ r.dropped = s.dropped /\ r.written = s.written
               /\ r.confirmed = s.confirmed
BY DEF Subscription

LEMMA ClosedSet ==
    ASSUME NEW s \in Subscription
    PROVE  LET r == [s EXCEPT !.open = FALSE]
           IN  /\ r.listed = s.listed /\ r.topic = s.topic /\ r.open = FALSE
               /\ r.ch = s.ch /\ r.dropped = s.dropped /\ r.written = s.written
               /\ r.confirmed = s.confirmed
BY DEF Subscription

\* A subscription that has just been made (Broker.Subscribe).
LEMMA NewSubscription ==
    ASSUME NEW s \in Subscription, NEW t \in Topic
    PROVE  LET r == [s EXCEPT !.topic = t, !.listed = TRUE, !.open = TRUE,
                              !.forward = TRUE]
           IN  /\ r \in Subscription
               /\ r.topic = t /\ r.listed = TRUE /\ r.open = TRUE
<1> DEFINE r == [s EXCEPT !.topic = t, !.listed = TRUE, !.open = TRUE,
                          !.forward = TRUE]
<1>1. r \in Subscription
  BY DEF Subscription
<1>2. r.topic = t /\ r.listed = TRUE /\ r.open = TRUE
  BY DEF Subscription
<1> QED  BY <1>1, <1>2

\* The values that stand for none are subscriptions and messages like others.
LEMMA FreeTypes == FreeSub \in Subscription /\ FreeMessage \in Publication
<1>1. <<>> \in Channel
  BY SMTT(20) DEF Channel
<1> QED  BY <1>1 DEF FreeSub, FreeMessage, Subscription, Publication

\* A send changes the channel or the messages dropped, and nothing else.
LEMMA OfferEffect ==
    ASSUME NEW s \in Subscription, NEW m \in Message
    PROVE  LET r == Offer(s, m)
           IN  /\ r \in Subscription
               /\ r.topic = s.topic /\ r.listed = s.listed /\ r.open = s.open
               /\ r.confirmed = s.confirmed /\ r.written = s.written
               /\ In(m, r.ch) \/ m \in r.dropped
               /\ \A k : In(k, s.ch) => In(k, r.ch)
               /\ s.dropped \subseteq r.dropped
<1>1. s.ch \in Channel
  BY DEF Subscription
<1> DEFINE q == Append(s.ch, m)
<1>2. /\ q \in Channel
      /\ In(m, q)
      /\ \A k : In(k, s.ch) => In(k, q)
  BY <1>1, AppendIn
<1>3. CASE Len(s.ch) < SubBuffer
  <2>1. Offer(s, m) = [s EXCEPT !.ch = q]
    BY <1>3 DEF Offer
  <2> HIDE DEF q
  <2> QED  BY <1>2, <2>1, ChannelSet, SMTT(20)
<1>4. CASE ~(Len(s.ch) < SubBuffer)
  <2>1. Offer(s, m) = [s EXCEPT !.dropped = s.dropped \cup {m}]
    BY <1>4 DEF Offer
  <2> QED  BY <2>1, SMTT(20) DEF Subscription
<1> QED  BY <1>3, <1>4

\* A message that forward takes from the channel is written, no other leaves
\* it, and nothing else changes.
LEMMA WrittenEffect ==
    ASSUME NEW s \in Subscription, s.ch # <<>>
    PROVE  LET r == Written(s)
           IN  /\ r \in Subscription
               /\ r.topic = s.topic /\ r.listed = s.listed /\ r.open = s.open
               /\ r.confirmed = s.confirmed /\ r.dropped = s.dropped
               /\ s.written \subseteq r.written
               /\ \A k : In(k, s.ch) => In(k, r.ch) \/ k \in r.written
<1> DEFINE q == Tail(s.ch)
           w == s.written \cup {Head(s.ch)}
           r == [s EXCEPT !.ch = q, !.written = w]
<1>1. s.ch \in Channel
  BY DEF Subscription
<1>2. /\ q \in Channel /\ w \in SUBSET Message
      /\ \A k : In(k, s.ch) => In(k, q) \/ k \in w
      /\ s.written \subseteq w
  BY <1>1, TailIn DEF Subscription
<1>3. Written(s) = r
  BY DEF Written
<1> HIDE DEF q, w
<1>4. [s EXCEPT !.ch = q, !.written = w] \in Subscription
  BY <1>2 DEF Subscription
<1>5. r.topic = s.topic /\ r.listed = s.listed /\ r.open = s.open
  BY DEF Subscription
<1>6. /\ r.confirmed = s.confirmed /\ r.dropped = s.dropped
      /\ r.ch = q /\ r.written = w
  BY DEF Subscription
<1>7. r \in Subscription
  BY <1>4
<1> HIDE DEF r
<1> QED  BY <1>2, <1>3, <1>5, <1>6, <1>7


\* What forward does to its subscription.
LEMMA ForwarderEffect ==
    ASSUME NEW i \in Sub, sub[i] \in Subscription, Forwarder(i)
    PROVE  \E r \in Subscription :
               /\ sub' = [sub EXCEPT ![i] = r]
               /\ r.topic = sub[i].topic
               /\ r.listed = sub[i].listed
               /\ r.open = sub[i].open
               /\ r.confirmed = sub[i].confirmed
               /\ r.dropped = sub[i].dropped
               /\ sub[i].written \subseteq r.written
               /\ \A k : In(k, sub[i].ch) => In(k, r.ch) \/ k \in r.written
<1>1. CASE Forward(i)
  <2> DEFINE r == Written(sub[i])
  <2>1. sub' = [sub EXCEPT ![i] = r] /\ sub[i].ch # <<>>
    BY <1>1 DEF Forward
  <2>2. /\ r \in Subscription
        /\ r.topic = sub[i].topic /\ r.listed = sub[i].listed
        /\ r.open = sub[i].open /\ r.confirmed = sub[i].confirmed
        /\ r.dropped = sub[i].dropped /\ sub[i].written \subseteq r.written
        /\ \A k : In(k, sub[i].ch) => In(k, r.ch) \/ k \in r.written
    BY <2>1, WrittenEffect
  <2> HIDE DEF r
  <2> QED  BY <2>1, <2>2
<1>2. CASE ForwardEnds(i)
  <2> DEFINE r == [sub[i] EXCEPT !.forward = FALSE]
  <2>1. sub' = [sub EXCEPT ![i] = r]
    BY <1>2 DEF ForwardEnds
  <2>2. /\ r \in Subscription
        /\ r.topic = sub[i].topic /\ r.listed = sub[i].listed
        /\ r.open = sub[i].open /\ r.confirmed = sub[i].confirmed
        /\ r.dropped = sub[i].dropped /\ r.ch = sub[i].ch
        /\ r.written = sub[i].written
    BY EndedSet, FlagSet
  <2> HIDE DEF r
  <2> QED  BY <2>1, <2>2
<1> QED  BY <1>1, <1>2 DEF Forwarder
-----------------------------------------------------------------------------
(* SubsAccounted.                                                           *)

\* SInit has no subscription, held or listed.
LEMMA InitAccounts == SInit => Accounts
<1> SUFFICES ASSUME SInit PROVE Accounts
  OBVIOUS
<1>2. Types
  BY FreeTypes DEF SInit, Types, Label
<1>3. \A c \in Conn, t \in Topic : subs[c][t] = NoSub
  BY DEF SInit
<1>4. Linked /\ EndHolds
  BY <1>3 DEF Linked, EndHolds, Held, SInit
<1>5. \A i \in Sub : sub[i].open = FALSE /\ sub[i].listed = FALSE
  BY DEF SInit, FreeSub
<1>6. SubsAccounted
  BY <1>3, <1>5, NoneAssumption DEF SubsAccounted, Held
<1> QED  BY <1>2, <1>4, <1>6 DEF Accounts

\* A connection that moves on, keeping its subscriptions, keeps the accounts:
\* it must not lose sight of one it is closing, and those it still holds when
\* it begins to leave must be closed.
LEMMA MoveAccounts ==
    ASSUME Accounts, Types', UNCHANGED subs,
           NEW c \in Conn,
           \A d \in Conn \ {c} : pc'[d] = pc[d] /\ todo'[d] = todo[d],
           \A i \in Sub : /\ sub'[i].topic = sub[i].topic
                          /\ sub'[i].listed = sub[i].listed
                          /\ sub'[i].open = sub[i].open,
           pc[c] \in Closing =>
               \A t \in todo[c] \cap Held(c) :
                   pc'[c] \in Closing /\ t \in todo'[c],
           pc'[c] = "end" => Held(c) \subseteq todo'[c],
           pc'[c] \in {"none", "done"} => Held(c) = {}
    PROVE  Accounts'
<1>1. \A d \in Conn : Held(d)' = Held(d)
  BY DEF Held
<1>2. Linked'
  BY SMTT(20) DEF Accounts, Linked, Types
<1>3. EndHolds'
  BY <1>1 DEF Accounts, EndHolds
<1>4. ASSUME NEW i \in Sub, sub'[i].open /\ ~sub'[i].listed
      PROVE  \E d \in Conn : pc'[d] \in Closing
                             /\ \E t \in todo'[d] : subs'[d][t] = i
  <2>1. PICK d \in Conn : pc[d] \in Closing /\ \E t \in todo[d] : subs[d][t] = i
    BY <1>4 DEF Accounts, SubsAccounted, Closing
  <2>2. PICK t \in todo[d] : subs[d][t] = i
    BY <2>1
  <2>3. t \in Held(d)
    BY <2>2, NoneAssumption DEF Held, Accounts, Types
  <2> QED  BY <2>1, <2>2, <2>3
<1>5. SubsAccounted'
  BY <1>1, <1>4, SMTT(20) DEF Accounts, SubsAccounted, Closing
<1> QED  BY <1>2, <1>3, <1>5 DEF Accounts

\* doSubscribe: the new subscription is held by this connection alone.
LEMMA SubscribeAccounts ==
    ASSUME Accounts, Types', NEW c \in Conn, NEW t \in Topic,
           SubscribeTopic(c, t)
    PROVE  Accounts'
<1>1. PICK i \in Sub :
        /\ sub[i] = FreeSub
        /\ sub' = [sub EXCEPT ![i] =
                      [FreeSub EXCEPT !.topic = t, !.listed = TRUE,
                                      !.open = TRUE, !.forward = TRUE]]
        /\ subs' = [subs EXCEPT ![c][t] = i]
  <2> DEFINE k == CHOOSE i \in Sub : sub[i] = FreeSub
  <2>1. k \in Sub /\ sub[k] = FreeSub
    BY DEF SubscribeTopic
  <2>2. /\ sub' = [sub EXCEPT ![k] =
                      [FreeSub EXCEPT !.topic = t, !.listed = TRUE,
                                      !.open = TRUE, !.forward = TRUE]]
        /\ subs' = [subs EXCEPT ![c][t] = k]
    BY DEF SubscribeTopic
  <2> HIDE DEF k
  <2> QED  BY <2>1, <2>2
<1>2. pc[c] = "subscribe" /\ UNCHANGED <<pc, todo>>
  BY DEF SubscribeTopic
<1>3. \A d \in Conn, u \in Topic : subs[d][u] # i
  BY <1>1, SMTT(20) DEF FreeSub, Accounts, SubsAccounted
<1>4. /\ subs'[c][t] = i
      /\ \A d \in Conn, u \in Topic :
            <<d, u>> # <<c, t>> => subs'[d][u] = subs[d][u]
  BY <1>1 DEF Accounts, Types
<1>5. /\ sub'[i].topic = t /\ sub'[i].open = TRUE /\ sub'[i].listed = TRUE
      /\ \A j \in Sub \ {i} : sub'[j] = sub[j]
  BY <1>1 DEF FreeSub, Accounts, Types
<1>6. \A d \in Conn \ {c} : Held(d)' = Held(d)
  BY <1>4 DEF Held
<1>7. Linked'
  <2> SUFFICES ASSUME NEW d \in Conn, NEW u \in Topic, subs'[d][u] # NoSub
               PROVE  /\ sub'[subs'[d][u]].topic = u
                      /\ \A e \in Conn, v \in Topic :
                            subs'[e][v] = subs'[d][u] => e = d /\ v = u
    BY DEF Linked
  <2>1. CASE d = c /\ u = t
    BY <1>3, <1>4, <1>5, <2>1, SMTT(20)
  <2>2. CASE <<d, u>> # <<c, t>>
    <3>1. subs'[d][u] = subs[d][u] /\ subs[d][u] \in Sub \ {i}
      BY <1>3, <1>4, <2>2, SMTT(20) DEF Accounts, Types
    <3> QED  BY <1>3, <1>4, <1>5, <3>1, SMTT(20) DEF Accounts, Linked
  <2> QED  BY <2>1, <2>2
<1>8. EndHolds'
  BY <1>2, <1>6 DEF Accounts, EndHolds
<1>9. ASSUME NEW j \in Sub
      PROVE  sub'[j].open <=> \E d \in Conn, u \in Topic : subs'[d][u] = j
  <2>1. CASE j = i
    BY <1>4, <1>5, <2>1
  <2>2. CASE j # i
    <3>1. sub'[j].open <=> \E d \in Conn, u \in Topic : subs[d][u] = j
      BY <1>5, <2>2 DEF Accounts, SubsAccounted
    <3>2. subs[c][t] = NoSub
      BY DEF SubscribeTopic
    <3> QED  BY <1>4, <2>2, <3>1, <3>2, NoneAssumption, SMTT(20)
  <2> QED  BY <2>1, <2>2
<1>10. ASSUME NEW j \in Sub, sub'[j].open /\ ~sub'[j].listed
       PROVE  \E d \in Conn : pc'[d] \in Closing
                              /\ \E u \in todo'[d] : subs'[d][u] = j
  <2>1. j # i /\ sub[j].open /\ ~sub[j].listed
    BY <1>5, <1>10
  <2>2. PICK d \in Conn : pc[d] \in Closing /\ \E u \in todo[d] : subs[d][u] = j
    BY <2>1 DEF Accounts, SubsAccounted, Closing
  <2>3. d # c
    BY <1>2, <2>2 DEF Closing
  <2>4. todo[d] \subseteq Topic
    BY DEF Accounts, Types
  <2> QED  BY <1>2, <1>4, <2>2, <2>3, <2>4
<1>11. \A j \in Sub : sub'[j].listed => sub'[j].open
  BY <1>5 DEF Accounts, SubsAccounted
<1>12. \A d \in Conn : pc'[d] \in {"none", "done"} => Held(d)' = {}
  BY <1>2, <1>6 DEF Accounts, SubsAccounted
<1>13. SubsAccounted'
  BY <1>9, <1>10, <1>11, <1>12 DEF SubsAccounted, Closing
<1> QED  BY <1>7, <1>8, <1>13 DEF Accounts

\* Subscription.Close, first half: the connection is closing what it unlists.
LEMMA RemoveAccounts ==
    ASSUME Accounts, Types', NEW c \in Conn, NEW t \in Topic, Remove(c, t)
    PROVE  Accounts'
<1> DEFINE i == subs[c][t]
<1>1. /\ pc[c] \in Closing /\ t \in todo[c] /\ i \in Sub
      /\ UNCHANGED <<pc, todo, subs>>
  BY SMTT(20) DEF Remove, Closing, connVars, Accounts, Types
<1>2. /\ \A j \in Sub : sub'[j].topic = sub[j].topic /\ sub'[j].open = sub[j].open
      /\ sub'[i].listed = FALSE
      /\ \A j \in Sub \ {i} : sub'[j].listed = sub[j].listed
  <2>1. sub \in [Sub -> Subscription] /\ sub[i] \in Subscription
    BY <1>1 DEF Accounts, Types
  <2> DEFINE r == [sub[i] EXCEPT !.listed = FALSE]
  <2>2. sub' = [sub EXCEPT ![i] = r]
    BY DEF Remove
  <2>3. r.listed = FALSE /\ r.topic = sub[i].topic /\ r.open = sub[i].open
    BY <2>1, UnlistedSet
  <2> HIDE DEF i, r
  <2> QED  BY <1>1, <2>1, <2>2, <2>3
<1>3. \A d \in Conn : Held(d)' = Held(d)
  BY <1>1 DEF Held
<1>4. Linked'
  BY <1>1, <1>2, SMTT(20) DEF Accounts, Linked, Types
<1>5. EndHolds'
  BY <1>1, <1>3 DEF Accounts, EndHolds
<1>6. ASSUME NEW j \in Sub, sub'[j].open /\ ~sub'[j].listed
      PROVE  \E d \in Conn : pc[d] \in Closing /\ \E u \in todo[d] : subs[d][u] = j
  BY <1>1, <1>2, <1>6 DEF Accounts, SubsAccounted, Closing
<1>7. SubsAccounted'
  BY <1>1, <1>2, <1>3, <1>6, SMTT(20) DEF Accounts, SubsAccounted, Closing
<1> QED  BY <1>4, <1>5, <1>7 DEF Accounts

\* Subscription.Close, second half: what is closed is no longer held.
LEMMA CloseAccounts ==
    ASSUME Accounts, Types', NEW c \in Conn, NEW t \in Topic,
           CloseChannel(c, t)
    PROVE  Accounts'
<1> DEFINE i == subs[c][t]
<1>1. /\ pc[c] \in Closing /\ t \in todo[c] /\ i \in Sub /\ ~sub[i].listed
      /\ UNCHANGED pc
  BY SMTT(20) DEF CloseChannel, Closing, Accounts, Types
<1>2. /\ \A j \in Sub : /\ sub'[j].topic = sub[j].topic
                        /\ sub'[j].listed = sub[j].listed
      /\ sub'[i].open = FALSE
      /\ \A j \in Sub \ {i} : sub'[j].open = sub[j].open
  BY <1>1, SMTT(20) DEF CloseChannel, Accounts, Types, Subscription
<1>3. /\ subs'[c][t] = NoSub
      /\ \A d \in Conn, u \in Topic :
            <<d, u>> # <<c, t>> => subs'[d][u] = subs[d][u]
  BY SMTT(20) DEF CloseChannel, Accounts, Types
<1>4. /\ todo'[c] = todo[c] \ {t}
      /\ \A d \in Conn \ {c} : todo'[d] = todo[d]
  BY DEF CloseChannel, Accounts, Types
<1>5. /\ Held(c)' = Held(c) \ {t}
      /\ \A d \in Conn \ {c} : Held(d)' = Held(d)
  BY <1>3, SMTT(20) DEF Held
<1>6. \A d \in Conn, u \in Topic : subs[d][u] = i => d = c /\ u = t
  BY <1>1, NoneAssumption DEF Accounts, Linked
<1>7. Linked'
  <2> SUFFICES ASSUME NEW d \in Conn, NEW u \in Topic, subs'[d][u] # NoSub
               PROVE  /\ sub'[subs'[d][u]].topic = u
                      /\ \A e \in Conn, v \in Topic :
                            subs'[e][v] = subs'[d][u] => e = d /\ v = u
    BY DEF Linked
  <2>1. subs'[d][u] = subs[d][u] /\ subs[d][u] \in Sub
    BY <1>3, SMTT(20) DEF Accounts, Types
  <2> QED  BY <1>2, <1>3, <2>1, SMTT(20) DEF Accounts, Linked
<1>8. EndHolds'
  BY <1>1, <1>4, <1>5 DEF Accounts, EndHolds
<1>9. ASSUME NEW j \in Sub
      PROVE  sub'[j].open <=> \E d \in Conn, u \in Topic : subs'[d][u] = j
  <2>1. CASE j = i
    BY <1>2, <1>3, <1>6, <2>1, NoneAssumption, ZenonT(60)
  <2>2. CASE j # i
    <3>1. sub'[j].open <=> \E d \in Conn, u \in Topic : subs[d][u] = j
      BY <1>2, <2>2 DEF Accounts, SubsAccounted
    <3> QED  BY <1>3, <2>2, <3>1, NoneAssumption, SMTT(20)
  <2> QED  BY <2>1, <2>2
<1>10. ASSUME NEW j \in Sub, sub'[j].open /\ ~sub'[j].listed
       PROVE  \E d \in Conn : pc'[d] \in Closing
                              /\ \E u \in todo'[d] : subs'[d][u] = j
  <2>1. j # i /\ sub[j].open /\ ~sub[j].listed
    BY <1>1, <1>2, <1>10
  <2>2. PICK d \in Conn, u \in Topic :
          pc[d] \in Closing /\ u \in todo[d] /\ subs[d][u] = j
    BY <2>1, SMTT(20) DEF Accounts, SubsAccounted, Closing, Types
  <2>3. <<d, u>> # <<c, t>>
    BY <2>1, <2>2
  <2>4. u \in todo'[d] /\ subs'[d][u] = j
    BY <1>3, <1>4, <2>2, <2>3
  <2> QED  BY <1>1, <2>2, <2>4
<1>11. \A j \in Sub : sub'[j].listed => sub'[j].open
  BY <1>1, <1>2 DEF Accounts, SubsAccounted
<1>12. \A d \in Conn : pc'[d] \in {"none", "done"} => Held(d)' = {}
  BY <1>1, <1>5 DEF Accounts, SubsAccounted
<1>13. SubsAccounted'
  BY <1>9, <1>10, <1>11, <1>12 DEF SubsAccounted, Closing
<1> QED  BY <1>7, <1>8, <1>13 DEF Accounts

\* The process panics: nothing is held, and no connection is left.
LEMMA PanicAccounts ==
    ASSUME Types', NEW c \in Conn, NEW i \in Sub, Panic(c, i)
    PROVE  Accounts'
<1>1. /\ \A d \in Conn, t \in Topic : subs'[d][t] = NoSub
      /\ \A d \in Conn : pc'[d] = "crashed"
      /\ \A j \in Sub : sub'[j].open = FALSE /\ sub'[j].listed = FALSE
  BY DEF Panic, FreeSub
<1> QED
  BY <1>1, NoneAssumption DEF Accounts, Linked, EndHolds, SubsAccounted, Held

\* Every step keeps the maps' types.
LEMMA StepTypes == Types /\ [SNext]_sVars => Types'
<1> SUFFICES ASSUME Types, [SNext]_sVars PROVE Types'
  OBVIOUS
<1>0. UNCHANGED <<pc, todo, subs, sending, sub, message>> => Types'
  BY DEF Types
<1>1. ASSUME NEW c \in Conn, NEW l \in Label \ {"publish"}, Goto(c, l),
             UNCHANGED <<subs, sub, message>>,
             todo' \in [Conn -> SUBSET Topic],
             sending' = sending \/ sending' = [sending EXCEPT ![c] = NoMessage]
      PROVE  Types'
  BY <1>1 DEF Types, Goto
<1>2. \A c \in Conn : Held(c) \in SUBSET Topic
  BY DEF Held
<1>3. ASSUME NEW c \in Conn,
             Accept(c) \/ Start(c) \/ Loop(c) \/ ReadFails(c) \/ Return(c)
                \/ Finish(c) \/ ReadQuit(c) \/ ReadOther(c) \/ Sent(c)
      PROVE  Types'
  <2>1. PICK l \in Label \ {"publish"} : Goto(c, l)
    BY <1>3 DEF Accept, Start, Loop, ReadFails, Return, Finish, ReadQuit,
                ReadOther, Sent, Leave, Label
  <2>2. UNCHANGED <<subs, sub, message>>
    BY <1>3 DEF Accept, Start, Loop, ReadFails, Return, Finish, ReadQuit,
                ReadOther, Sent, brokerVars
  <2>3. todo' \in [Conn -> SUBSET Topic]
    BY <1>2, <1>3 DEF Accept, Start, Loop, ReadFails, Return, Finish, ReadQuit,
                ReadOther, Sent, Leave, Types
  <2>4. sending' = sending \/ sending' = [sending EXCEPT ![c] = NoMessage]
    BY <1>3 DEF Accept, Start, Loop, ReadFails, Return, Finish, ReadQuit,
                ReadOther, Sent
  <2> QED  BY <1>1, <2>1, <2>2, <2>3, <2>4
<1>4. ASSUME NEW c \in Conn, NEW T \in SUBSET Topic,
             ReadSubscribe(c, T) \/ ReadUnsubscribe(c, T)
      PROVE  Types'
  <2>1. PICK l \in {"subscribe", "unsubscribe"} : Goto(c, l)
    BY <1>4 DEF ReadSubscribe, ReadUnsubscribe
  <2>2. UNCHANGED <<subs, sub, message, sending>>
    BY <1>4 DEF ReadSubscribe, ReadUnsubscribe, brokerVars
  <2>3. todo' \in [Conn -> SUBSET Topic]
    BY <1>2, <1>4 DEF ReadSubscribe, ReadUnsubscribe, Types
  <2> QED  BY <1>1, <2>1, <2>2, <2>3 DEF Label
<1>5. ASSUME NEW c \in Conn, NEW t \in Topic, ReadPublish(c, t) PROVE Types'
  <2> DEFINE m == CHOOSE m \in Message : message[m] = FreeMessage
             new == [topic |-> t, due |-> InEffect(t),
                     left |-> {i \in Sub : sub[i].topic = t /\ sub[i].listed}]
  <2>1. m \in Message
    BY <1>5 DEF ReadPublish
  <2>2. /\ message' = [message EXCEPT ![m] = new]
        /\ sending' = [sending EXCEPT ![c] = m]
        /\ pc' = [pc EXCEPT ![c] = "publish"]
        /\ UNCHANGED <<todo, subs, sub>>
    BY <1>5 DEF ReadPublish, Goto
  <2>3. new \in Publication
    BY DEF Publication, InEffect
  <2> HIDE DEF m, new
  <2> QED  BY <2>1, <2>2, <2>3 DEF Types, Label
<1>6. ASSUME sub' \in [Sub -> Subscription],
             UNCHANGED <<pc, sending>>,
             todo' \in [Conn -> SUBSET Topic],
             subs' \in [Conn -> [Topic -> Sub \cup {NoSub}]],
             message' \in [Message -> Publication]
      PROVE  Types'
  BY <1>6 DEF Types
<1>7. ASSUME NEW c \in Conn, NEW t \in Topic, SubscribeTopic(c, t) PROVE Types'
  <2> DEFINE i == CHOOSE i \in Sub : sub[i] = FreeSub
             r == [FreeSub EXCEPT !.topic = t, !.listed = TRUE,
                                  !.open = TRUE, !.forward = TRUE]
  <2>1. i \in Sub
    BY <1>7 DEF SubscribeTopic
  <2>2. sub' = [sub EXCEPT ![i] = r] /\ subs' = [subs EXCEPT ![c][t] = i]
    BY <1>7 DEF SubscribeTopic
  <2>3. r \in Subscription
    BY FreeTypes, NewSubscription
  <2>4. UNCHANGED <<pc, sending, todo, message>>
    BY <1>7 DEF SubscribeTopic
  <2> HIDE DEF i, r
  <2>5. subs' \in [Conn -> [Topic -> Sub \cup {NoSub}]]
    BY <2>1, <2>2 DEF Types
  <2> QED  BY <1>6, <2>1, <2>2, <2>3, <2>4, <2>5 DEF Types
<1>8. ASSUME NEW c \in Conn, NEW t \in Topic,
             Confirm(c, t) \/ Remove(c, t) \/ CloseChannel(c, t)
      PROVE  Types'
  <2> DEFINE i == subs[c][t]
  <2>1. i \in Sub /\ sub[i] \in Subscription
    BY <1>8, SMTT(20) DEF Confirm, Remove, CloseChannel, Types
  <2>2. sub' \in [Sub -> Subscription]
    <3>1. CASE Confirm(c, t)
      <4> DEFINE r == [sub[i] EXCEPT !.confirmed = TRUE]
      <4>1. r \in Subscription
        BY <2>1, FlagSet
      <4>2. sub' = [sub EXCEPT ![i] = r]
        BY <3>1 DEF Confirm
      <4> HIDE DEF i, r
      <4> QED  BY <2>1, <4>1, <4>2 DEF Types
    <3>2. CASE Remove(c, t)
      <4> DEFINE r == [sub[i] EXCEPT !.listed = FALSE]
      <4>1. r \in Subscription
        BY <2>1, FlagSet
      <4>2. sub' = [sub EXCEPT ![i] = r]
        BY <3>2 DEF Remove
      <4> HIDE DEF i, r
      <4> QED  BY <2>1, <4>1, <4>2 DEF Types
    <3>3. CASE CloseChannel(c, t)
      <4> DEFINE r == [sub[i] EXCEPT !.open = FALSE]
      <4>1. r \in Subscription
        BY <2>1, FlagSet
      <4>2. sub' = [sub EXCEPT ![i] = r]
        BY <3>3 DEF CloseChannel
      <4> HIDE DEF i, r
      <4> QED  BY <2>1, <4>1, <4>2 DEF Types
    <3> QED  BY <1>8, <3>1, <3>2, <3>3
  <2>3. /\ UNCHANGED <<pc, sending, message>>
        /\ todo' = todo \/ todo' = [todo EXCEPT ![c] = @ \ {t}]
        /\ subs' = subs \/ subs' = [subs EXCEPT ![c][t] = NoSub]
    BY <1>8 DEF Confirm, Remove, CloseChannel, connVars
  <2>4. todo' \in [Conn -> SUBSET Topic]
    BY <2>3, SMTT(20) DEF Types
  <2>5. subs' \in [Conn -> [Topic -> Sub \cup {NoSub}]]
    <3>1. subs \in [Conn -> [Topic -> Sub \cup {NoSub}]]
      BY DEF Types
    <3> QED  BY <2>3, <3>1, SMTT(20)
  <2> QED  BY <1>6, <2>1, <2>2, <2>3, <2>4, <2>5 DEF Types
<1>9. ASSUME NEW c \in Conn, NEW t \in Topic, SkipTopic(c, t) PROVE Types'
  BY <1>9 DEF SkipTopic, Types, brokerVars
<1>10. ASSUME NEW c \in Conn, NEW i \in Sub, Send(c, i) PROVE Types'
  <2> DEFINE m == sending[c]
  <2>1. m \in Message /\ sub[i] \in Subscription /\ message[m] \in Publication
    BY <1>10 DEF Send, Types
  <2>2. /\ sub' = [sub EXCEPT ![i] = Offer(sub[i], m)]
        /\ message' = [message EXCEPT ![m] =
                          [message[m] EXCEPT !.left = message[m].left \ {i}]]
        /\ UNCHANGED <<pc, sending, todo, subs>>
    BY <1>10 DEF Send, connVars
  <2>3. [message[m] EXCEPT !.left = message[m].left \ {i}] \in Publication
    BY <2>1 DEF Publication
  <2>4. message' \in [Message -> Publication]
    BY <2>1, <2>2, <2>3 DEF Types
  <2> QED  BY <1>6, <2>1, <2>2, <2>4, OfferEffect DEF Types
<1>11. ASSUME NEW c \in Conn, NEW i \in Sub, Panic(c, i) PROVE Types'
  BY <1>11, FreeTypes DEF Panic, Types, Label
<1>12. ASSUME NEW i \in Sub, Forwarder(i) PROVE Types'
  <2>1. sub[i] \in Subscription
    BY DEF Types
  <2>2. UNCHANGED <<pc, sending, todo, subs, message>>
    BY <1>12 DEF Forwarder, Forward, ForwardEnds, connVars
  <2>3. PICK r \in Subscription : sub' = [sub EXCEPT ![i] = r]
    BY <1>12, <2>1, ForwarderEffect
  <2> QED  BY <1>6, <2>2, <2>3 DEF Types
<1>13. ASSUME NEW c \in Conn, Hangup(c) PROVE Types'
  BY <1>0, <1>13 DEF Hangup, brokerVars
<1>14. CASE Quit \/ Cut \/ Closed \/ Rest \/ UNCHANGED sVars
  BY <1>0, <1>14 DEF Quit, Cut, Closed, Rest, sVars, connVars, brokerVars
<1> QED
  BY <1>3, <1>4, <1>5, <1>7, <1>8, <1>9, <1>10, <1>11, <1>12, <1>13, <1>14
     DEF SNext, Command, Step

\* Every step keeps the accounts.
LEMMA StepAccounts == Accounts /\ [SNext]_sVars => Accounts'
<1> SUFFICES ASSUME Accounts, [SNext]_sVars PROVE Accounts'
  OBVIOUS
<1>0. Types /\ Types'
  BY StepTypes DEF Accounts
<1>1. ASSUME UNCHANGED <<pc, todo, subs>>,
             \A i \in Sub : /\ sub'[i].topic = sub[i].topic
                            /\ sub'[i].listed = sub[i].listed
                            /\ sub'[i].open = sub[i].open
      PROVE  Accounts'
  <2>1. \A c \in Conn : Held(c)' = Held(c)
    BY <1>1 DEF Held
  <2>2. Linked' /\ EndHolds'
    BY <1>0, <1>1, <2>1, SMTT(20) DEF Accounts, Linked, EndHolds, Types
  <2>3. SubsAccounted'
    BY <1>1, <2>1, SMTT(20) DEF Accounts, SubsAccounted
  <2> QED  BY <1>0, <2>2, <2>3 DEF Accounts
<1>2. ASSUME NEW c \in Conn, NEW l \in Label, Goto(c, l),
             UNCHANGED <<subs, sub>>,
             todo' = todo \/ \E T : todo' = [todo EXCEPT ![c] = T],
             pc[c] \in Closing => todo[c] = {},
             l = "end" => todo'[c] = Held(c),
             l # "none",
             l = "done" => Held(c) = {}
      PROVE  Accounts'
  <2>1. pc'[c] = l /\ \A d \in Conn \ {c} : pc'[d] = pc[d] /\ todo'[d] = todo[d]
    BY <1>0, <1>2 DEF Types, Goto
  <2> QED  BY <1>0, <1>2, <2>1, MoveAccounts
<1>3. ASSUME NEW c \in Conn,
             Accept(c) \/ Start(c) \/ Loop(c) \/ ReadFails(c) \/ Return(c)
                \/ ReadQuit(c) \/ ReadOther(c) \/ Sent(c)
      PROVE  Accounts'
  <2>1. PICK l \in Label \ {"none", "done"} : Goto(c, l)
    BY <1>3 DEF Accept, Start, Loop, ReadFails, Return, ReadQuit, ReadOther,
                Sent, Leave, Label
  <2>2. UNCHANGED <<subs, sub>>
    BY <1>3 DEF Accept, Start, Loop, ReadFails, Return, ReadQuit, ReadOther,
                Sent, brokerVars
  <2>3. todo' = todo \/ \E T : todo' = [todo EXCEPT ![c] = T]
    BY <1>3 DEF Accept, Start, Loop, ReadFails, Return, ReadQuit, ReadOther,
       Sent, Leave
  <2>4. pc[c] \in Closing => todo[c] = {}
    BY <1>3 DEF Accept, Start, Loop, ReadFails, Return, ReadQuit, ReadOther,
                Sent, Read, Closing
  <2>5. l = "end" => todo'[c] = Held(c)
    <3>1. pc'[c] = l
      BY <1>0, <2>1 DEF Goto, Types
    <3>2. l = "end" => Leave(c)
      BY <1>0, <1>3, <3>1
         DEF Accept, Start, Loop, ReadFails, Return, ReadQuit, ReadOther,
             Sent, Goto, Types
    <3> QED  BY <1>0, <3>2 DEF Leave, Types
  <2> QED  BY <1>2, <2>1, <2>2, <2>3, <2>4, <2>5
<1>4. ASSUME NEW c \in Conn, Finish(c) PROVE Accounts'
  <2>1. pc[c] = "end" /\ todo[c] = {} /\ Held(c) = {}
    BY <1>4 DEF Finish, Accounts, EndHolds
  <2> QED  BY <1>2, <1>4, <2>1 DEF Finish, brokerVars, Label
<1>5. ASSUME NEW c \in Conn, NEW t \in Topic, Confirm(c, t) PROVE Accounts'
  <2> DEFINE i == subs[c][t]
             r == [sub[i] EXCEPT !.confirmed = TRUE]
  <2>1. i \in Sub /\ sub[i] \in Subscription
    BY <1>0, <1>5, SMTT(20) DEF Confirm, Types
  <2>2. r.topic = sub[i].topic /\ r.listed = sub[i].listed /\ r.open = sub[i].open
    BY <2>1, ConfirmedSet
  <2>3. sub' = [sub EXCEPT ![i] = r]
    BY <1>5 DEF Confirm
  <2> HIDE DEF i, r
  <2>4. \A j \in Sub : /\ sub'[j].topic = sub[j].topic
                       /\ sub'[j].listed = sub[j].listed
                       /\ sub'[j].open = sub[j].open
    BY <1>0, <2>1, <2>2, <2>3 DEF Types
  <2>5. /\ pc[c] = "subscribe" /\ UNCHANGED <<pc, subs>>
        /\ todo' = [todo EXCEPT ![c] = @ \ {t}]
    BY <1>5 DEF Confirm
  <2>6. \A d \in Conn \ {c} : todo'[d] = todo[d]
    BY <1>0, <2>5 DEF Types
  <2> QED  BY <1>0, <2>4, <2>5, <2>6, MoveAccounts DEF Closing
<1>6. ASSUME NEW c \in Conn, NEW t \in Topic, SkipTopic(c, t) PROVE Accounts'
  <2>1. /\ pc[c] = "unsubscribe" /\ UNCHANGED <<pc, subs, sub>>
        /\ t \notin Held(c)
        /\ todo' = [todo EXCEPT ![c] = @ \ {t}]
    BY <1>6 DEF SkipTopic, Held, brokerVars
  <2>2. todo'[c] = todo[c] \ {t} /\ \A d \in Conn \ {c} : todo'[d] = todo[d]
    BY <1>0, <2>1 DEF Types
  <2> QED  BY <1>0, <2>1, <2>2, MoveAccounts DEF Closing
<1>7. ASSUME NEW c \in Conn, NEW i \in Sub, Send(c, i) PROVE Accounts'
  <2>1. /\ sub' = [sub EXCEPT ![i] = Offer(sub[i], sending[c])]
        /\ UNCHANGED <<pc, todo, subs>>
        /\ sending[c] \in Message
    BY <1>0, <1>7 DEF Send, connVars, Types
  <2>2. \A j \in Sub : /\ sub'[j].topic = sub[j].topic
                       /\ sub'[j].listed = sub[j].listed
                       /\ sub'[j].open = sub[j].open
    BY <1>0, <2>1, OfferEffect, SMTT(20) DEF Types
  <2> QED  BY <1>1, <2>1, <2>2
<1>8. ASSUME NEW i \in Sub, Forwarder(i) PROVE Accounts'
  <2>1. UNCHANGED <<pc, todo, subs>>
    BY <1>8 DEF Forwarder, Forward, ForwardEnds, connVars
  <2>2. PICK r : /\ sub' = [sub EXCEPT ![i] = r]
                 /\ r.topic = sub[i].topic
                 /\ r.listed = sub[i].listed
                 /\ r.open = sub[i].open
    <3>1. sub[i] \in Subscription
      BY <1>0 DEF Types
    <3> QED  BY <1>8, <3>1, ForwarderEffect
  <2>3. \A j \in Sub : /\ sub'[j].topic = sub[j].topic
                       /\ sub'[j].listed = sub[j].listed
                       /\ sub'[j].open = sub[j].open
    BY <1>0, <2>2 DEF Types
  <2> QED  BY <1>1, <2>1, <2>3
<1>9. ASSUME NEW c \in Conn, NEW T \in SUBSET Topic,
              ReadSubscribe(c, T) \/ ReadUnsubscribe(c, T)
       PROVE  Accounts'
  <2>1. PICK l \in {"subscribe", "unsubscribe"} : Goto(c, l)
    BY <1>9 DEF ReadSubscribe, ReadUnsubscribe
  <2>2. pc[c] = "read" /\ UNCHANGED <<subs, sub>>
    BY <1>9 DEF ReadSubscribe, ReadUnsubscribe, Read, brokerVars
  <2>3. todo' = todo \/ \E S : todo' = [todo EXCEPT ![c] = S]
    BY <1>9 DEF ReadSubscribe, ReadUnsubscribe
  <2>4. /\ l \in Label /\ l \notin {"none", "done", "end"}
        /\ pc[c] \notin Closing
    BY <2>1, <2>2 DEF Label, Closing
  <2> QED  BY <1>2, <2>1, <2>2, <2>3, <2>4
<1>10. ASSUME NEW c \in Conn, NEW t \in Topic, ReadPublish(c, t) PROVE Accounts'
  <2>1. /\ Goto(c, "publish") /\ pc[c] = "read"
        /\ UNCHANGED <<todo, subs, sub>>
    BY <1>10 DEF ReadPublish, Read
  <2> QED  BY <1>2, <2>1 DEF Label, Closing
<1>11. ASSUME NEW c \in Conn, Hangup(c) PROVE Accounts'
  BY <1>1, <1>11 DEF Hangup, brokerVars
<1>12. CASE Quit \/ Cut \/ Closed \/ Rest \/ UNCHANGED sVars
  BY <1>1, <1>12 DEF Quit, Cut, Closed, Rest, sVars, connVars, brokerVars
<1>13. ASSUME NEW c \in Conn, NEW t \in Topic,
              SubscribeTopic(c, t) \/ Remove(c, t) \/ CloseChannel(c, t)
       PROVE  Accounts'
  BY <1>0, <1>13, SubscribeAccounts, RemoveAccounts, CloseAccounts
<1>14. ASSUME NEW c \in Conn, NEW i \in Sub, Panic(c, i) PROVE Accounts'
  BY <1>0, <1>14, PanicAccounts
<1> QED
  BY <1>3, <1>4, <1>5, <1>6, <1>7, <1>8, <1>9, <1>10, <1>11, <1>12, <1>13,
     <1>14 DEF SNext, Command, Step

\* In every server, whatever connections do and whenever it is closed, the
\* broker lists exactly what connections hold and have not begun to close, and
\* no subscription outlives its connection (doSubscribe, doUnsubscribe,
\* closeSubs, Subscription.Close).
THEOREM NothingLeaks == SSpec => []SubsAccounted
<1>1. Accounts => SubsAccounted
  BY DEF Accounts
<1> QED  BY <1>1, InitAccounts, StepAccounts, PTL DEF SSpec
-----------------------------------------------------------------------------
(* Delivered.                                                               *)

Arrived(m, i) == m \in sub[i].written \cup sub[i].dropped \/ In(m, sub[i].ch)

\* Publish has yet to send message m to subscription i.
Pending(m, i) ==
    \E c \in Conn : pc[c] = "publish" /\ sending[c] = m /\ i \in message[m].left

Owed ==
    \A m \in Message : \A i \in message[m].due :
        sub[i].confirmed /\ (Arrived(m, i) \/ Pending(m, i))

\* A step that takes nothing from a subscription and does not concern Publish.
LEMMA OwedKept ==
    ASSUME Types, Owed, UNCHANGED message,
           \A c \in Conn : pc[c] = "publish" =>
                              pc'[c] = "publish" /\ sending'[c] = sending[c],
           \A i \in Sub : /\ sub[i].confirmed => sub'[i].confirmed
                          /\ \A m \in Message : Arrived(m, i) => Arrived(m, i)'
    PROVE  Owed'
<1> SUFFICES ASSUME NEW m \in Message, NEW i \in message[m].due
             PROVE  sub'[i].confirmed /\ (Arrived(m, i)' \/ Pending(m, i)')
  BY DEF Owed
<1>1. i \in Sub
  BY DEF Types, Publication
<1>2. sub[i].confirmed /\ (Arrived(m, i) \/ Pending(m, i))
  BY DEF Owed
<1>3. Pending(m, i) => Pending(m, i)'
  BY DEF Pending
<1> QED  BY <1>1, <1>2, <1>3

\* The subscriptions in effect are among those Publish copies.
LEMMA InEffectListed ==
    ASSUME Accounts, NEW t \in Topic
    PROVE  \A i \in InEffect(t) :
               i \in Sub /\ sub[i].confirmed /\ sub[i].topic = t /\ sub[i].listed
<1> SUFFICES ASSUME NEW i \in InEffect(t)
             PROVE  i \in Sub /\ sub[i].confirmed /\ sub[i].topic = t /\ sub[i].listed
  OBVIOUS
<1>1. PICK c \in Conn : i \in Sub /\ subs[c][t] = i /\ pc[c] \notin Closing
  BY DEF InEffect, Closing
<1>2. i # NoSub
  BY <1>1, NoneAssumption
<1>3. /\ sub[i].topic = t
      /\ \A d \in Conn, u \in Topic : subs[d][u] = i => d = c
  BY <1>1, <1>2, SMTT(20) DEF Accounts, Linked
<1>4. sub[i].open
  BY <1>1 DEF Accounts, SubsAccounted
<1>5. \A d \in Conn : todo[d] \subseteq Topic
  BY DEF Accounts, Types
<1>6. sub[i].listed
  BY <1>1, <1>3, <1>4, <1>5, SMTT(20) DEF Accounts, SubsAccounted, Closing
<1> QED  BY <1>1, <1>3, <1>6 DEF InEffect

\* Broker.Publish begins: all that is due is yet to be sent.
LEMMA PublishOwes ==
    ASSUME Accounts, Owed, NEW c \in Conn, NEW t \in Topic, ReadPublish(c, t)
    PROVE  Owed'
<1> DEFINE m == CHOOSE m \in Message : message[m] = FreeMessage
           left == {i \in Sub : sub[i].topic = t /\ sub[i].listed}
           new == [topic |-> t, due |-> InEffect(t), left |-> left]
<1>1. m \in Message
  BY DEF ReadPublish
<1>2. /\ message' = [message EXCEPT ![m] = new]
      /\ sending' = [sending EXCEPT ![c] = m]
      /\ pc' = [pc EXCEPT ![c] = "publish"]
      /\ pc[c] = "read"
      /\ UNCHANGED sub
  BY DEF ReadPublish, Goto, Read
<1>3. InEffect(t) \subseteq left /\ \A i \in InEffect(t) : sub[i].confirmed
  BY InEffectListed
<1>4. new.due = InEffect(t) /\ new.left = left
  OBVIOUS
<1> HIDE DEF m, left, new
<1>5. /\ message'[m] = new /\ sending'[c] = m /\ pc'[c] = "publish"
      /\ \A k \in Message \ {m} : message'[k] = message[k]
      /\ \A d \in Conn \ {c} : pc'[d] = pc[d] /\ sending'[d] = sending[d]
  BY <1>1, <1>2 DEF Accounts, Types
<1>6. \A k, i : Arrived(k, i)' <=> Arrived(k, i)
  BY <1>2 DEF Arrived
<1> SUFFICES ASSUME NEW k \in Message, NEW i \in message'[k].due
             PROVE  sub'[i].confirmed /\ (Arrived(k, i)' \/ Pending(k, i)')
  BY DEF Owed
<1>7. CASE k = m
  BY <1>2, <1>3, <1>4, <1>5, <1>7, SMTT(20) DEF Pending
<1>8. CASE k # m
  <2>1. message'[k] = message[k]
    BY <1>5, <1>8
  <2>2. sub[i].confirmed /\ (Arrived(k, i) \/ Pending(k, i))
    BY <2>1 DEF Owed
  <2>3. Pending(k, i) => Pending(k, i)'
    BY <1>2, <1>5, <2>1 DEF Pending
  <2> QED  BY <1>2, <1>6, <2>2, <2>3
<1> QED  BY <1>7, <1>8

\* Broker.Publish sends: the message has arrived.
LEMMA SendPays ==
    ASSUME Types, Owed, NEW c \in Conn, NEW j \in Sub, Send(c, j)
    PROVE  Owed'
<1>0. PICK n \in Message : n = sending[c]
  BY DEF Send, Types
<1> DEFINE new == [message[n] EXCEPT !.left = message[n].left \ {j}]
<1>1. sub[j] \in Subscription /\ message[n] \in Publication
  BY DEF Types
<1>2. /\ sub' = [sub EXCEPT ![j] = Offer(sub[j], n)]
      /\ message' = [message EXCEPT ![n] = new]
      /\ UNCHANGED <<pc, sending>>
  BY <1>0 DEF Send, connVars
<1>3. new.due = message[n].due /\ new.left = message[n].left \ {j}
  BY <1>1 DEF Publication
<1> HIDE DEF new
<1>4. /\ message'[n] = new
      /\ \A k \in Message \ {n} : message'[k] = message[k]
      /\ sub'[j] = Offer(sub[j], n)
      /\ \A i \in Sub \ {j} : sub'[i] = sub[i]
  BY <1>1, <1>2 DEF Types
<1>5. /\ Arrived(n, j)'
      /\ \A k : Arrived(k, j) => Arrived(k, j)'
      /\ sub[j].confirmed => sub'[j].confirmed
  <2> DEFINE r == Offer(sub[j], n)
  <2>1. /\ r.confirmed = sub[j].confirmed /\ r.written = sub[j].written
        /\ In(n, r.ch) \/ n \in r.dropped
        /\ \A k : In(k, sub[j].ch) => In(k, r.ch)
        /\ sub[j].dropped \subseteq r.dropped
    BY <1>1, OfferEffect
  <2> HIDE DEF r
  <2>2. sub'[j] = r
    BY <1>4 DEF r
  <2> QED  BY <2>1, <2>2 DEF Arrived
<1>6. \A i \in Sub \ {j} : \A k : Arrived(k, i) => Arrived(k, i)'
  BY <1>4 DEF Arrived
<1> SUFFICES ASSUME NEW k \in Message, NEW i \in message'[k].due
             PROVE  sub'[i].confirmed /\ (Arrived(k, i)' \/ Pending(k, i)')
  BY DEF Owed
<1>7. i \in message[k].due
  BY <1>3, <1>4
<1>8. i \in Sub
  BY <1>7 DEF Types, Publication
<1>9. sub[i].confirmed /\ (Arrived(k, i) \/ Pending(k, i))
  BY <1>7 DEF Owed
<1>10. (k = n /\ i = j) \/ (Pending(k, i) => Pending(k, i)')
  BY <1>2, <1>3, <1>4 DEF Pending
<1>11. Arrived(k, i) => Arrived(k, i)'
  BY <1>5, <1>6, <1>8
<1>12. sub'[i].confirmed
  BY <1>4, <1>5, <1>8, <1>9
<1>13. CASE k = n /\ i = j
  BY <1>5, <1>12, <1>13
<1> QED  BY <1>9, <1>10, <1>11, <1>12, <1>13

\* Every step keeps what is owed.
LEMMA StepOwed == Accounts /\ Owed /\ [SNext]_sVars => Owed'
<1> SUFFICES ASSUME Accounts, Owed, [SNext]_sVars PROVE Owed'
  OBVIOUS
<1>0. Types
  BY DEF Accounts
<1>1. ASSUME UNCHANGED <<sub, message>>,
             \A c \in Conn : pc[c] = "publish" =>
                                pc'[c] = "publish" /\ sending'[c] = sending[c]
      PROVE  Owed'
  <2>1. \A i, m : Arrived(m, i) => Arrived(m, i)'
    BY <1>1 DEF Arrived
  <2> QED  BY <1>0, <1>1, <2>1, OwedKept
<1>2. ASSUME NEW c \in Conn, NEW l, Goto(c, l), pc[c] # "publish",
             UNCHANGED <<sending, sub, message>>
      PROVE  Owed'
  BY <1>0, <1>1, <1>2 DEF Goto, Types
<1>3. ASSUME NEW c \in Conn,
             Accept(c) \/ Start(c) \/ Loop(c) \/ ReadFails(c) \/ Return(c)
                \/ Finish(c) \/ ReadQuit(c) \/ ReadOther(c)
      PROVE  Owed'
  <2>1. PICK l \in Label : Goto(c, l)
    BY <1>3 DEF Accept, Start, Loop, ReadFails, Return, Finish, ReadQuit,
                ReadOther, Leave, Label
  <2>2. UNCHANGED <<sending, sub, message>> /\ pc[c] # "publish"
    BY <1>3 DEF Accept, Start, Loop, ReadFails, Return, Finish, ReadQuit,
                ReadOther, Read, brokerVars
  <2> QED  BY <1>2, <2>1, <2>2
<1>4. ASSUME NEW c \in Conn, NEW T \in SUBSET Topic,
             ReadSubscribe(c, T) \/ ReadUnsubscribe(c, T)
      PROVE  Owed'
  <2>1. PICK l \in Label : Goto(c, l)
    BY <1>4 DEF ReadSubscribe, ReadUnsubscribe, Label
  <2>2. UNCHANGED <<sending, sub, message>> /\ pc[c] # "publish"
    BY <1>4 DEF ReadSubscribe, ReadUnsubscribe, Read, brokerVars
  <2> QED  BY <1>2, <2>1, <2>2
<1>5. ASSUME NEW c \in Conn, NEW t \in Topic, ReadPublish(c, t) PROVE Owed'
  BY <1>5, PublishOwes
<1>6. ASSUME NEW i \in Sub, NEW r, sub' = [sub EXCEPT ![i] = r],
             sub[i].confirmed => r.confirmed,
             sub[i].written \subseteq r.written,
             sub[i].dropped \subseteq r.dropped,
             \A k : In(k, sub[i].ch) => In(k, r.ch) \/ k \in r.written,
             UNCHANGED <<pc, sending, message>>
      PROVE  Owed'
  <2>1. sub'[i] = r /\ \A j \in Sub \ {i} : sub'[j] = sub[j]
    BY <1>0, <1>6 DEF Types
  <2>2. \A m : Arrived(m, i) => Arrived(m, i)'
    BY <1>6, <2>1 DEF Arrived
  <2>3. \A j \in Sub : \A m : Arrived(m, j) => Arrived(m, j)'
    BY <2>1, <2>2 DEF Arrived
  <2>4. \A j \in Sub : sub[j].confirmed => sub'[j].confirmed
    BY <1>6, <2>1
  <2> QED  BY <1>0, <1>6, <2>3, <2>4, OwedKept
<1>7. ASSUME NEW c \in Conn, NEW t \in Topic, SubscribeTopic(c, t) PROVE Owed'
  <2> DEFINE i == CHOOSE i \in Sub : sub[i] = FreeSub
             r == [FreeSub EXCEPT !.topic = t, !.listed = TRUE,
                                  !.open = TRUE, !.forward = TRUE]
  <2>1. i \in Sub /\ sub[i] = FreeSub
    BY <1>7 DEF SubscribeTopic
  <2>2. sub' = [sub EXCEPT ![i] = r] /\ UNCHANGED <<pc, sending, message>>
    BY <1>7 DEF SubscribeTopic
  <2>3. ~FreeSub.confirmed
    BY DEF FreeSub
  <2> HIDE DEF i, r
  <2>4. ASSUME NEW m \in Message PROVE i \notin message[m].due
    BY <2>1, <2>3 DEF Owed
  <2>5. \A j \in Sub \ {i} : sub'[j] = sub[j]
    BY <1>0, <2>1, <2>2 DEF Types
  <2> SUFFICES ASSUME NEW m \in Message, NEW j \in message[m].due
               PROVE  sub'[j].confirmed /\ (Arrived(m, j)' \/ Pending(m, j)')
    BY <2>2 DEF Owed
  <2>6. j \in Sub \ {i}
    BY <1>0, <2>4 DEF Types, Publication
  <2>7. sub[j].confirmed /\ (Arrived(m, j) \/ Pending(m, j))
    BY DEF Owed
  <2>8. Arrived(m, j) => Arrived(m, j)'
    BY <2>5, <2>6 DEF Arrived
  <2>9. Pending(m, j) => Pending(m, j)'
    BY <2>2 DEF Pending
  <2> QED  BY <2>5, <2>6, <2>7, <2>8, <2>9
<1>8. ASSUME NEW c \in Conn, NEW t \in Topic,
             Confirm(c, t) \/ Remove(c, t) \/ CloseChannel(c, t)
      PROVE  Owed'
  <2> DEFINE i == subs[c][t]
  <2>1. /\ i \in Sub /\ sub[i] \in Subscription
        /\ UNCHANGED <<pc, sending, message>>
    BY <1>0, <1>8, SMTT(20) DEF Confirm, Remove, CloseChannel, connVars, Types
  <2>2. PICK r : /\ sub' = [sub EXCEPT ![i] = r]
                 /\ sub[i].confirmed => r.confirmed
                 /\ sub[i].written \subseteq r.written
                 /\ sub[i].dropped \subseteq r.dropped
                 /\ \A k : In(k, sub[i].ch) => In(k, r.ch) \/ k \in r.written
    <3>1. CASE Confirm(c, t)
      <4> DEFINE r == [sub[i] EXCEPT !.confirmed = TRUE]
      <4>1. sub' = [sub EXCEPT ![i] = r]
        BY <3>1 DEF Confirm
      <4>2. /\ r.confirmed /\ r.ch = sub[i].ch /\ r.written = sub[i].written
            /\ r.dropped = sub[i].dropped
        BY <2>1, ConfirmedSet
      <4> HIDE DEF r
      <4> QED  BY <4>1, <4>2
    <3>2. CASE Remove(c, t)
      <4> DEFINE r == [sub[i] EXCEPT !.listed = FALSE]
      <4>1. sub' = [sub EXCEPT ![i] = r]
        BY <3>2 DEF Remove
      <4>2. /\ r.confirmed = sub[i].confirmed /\ r.ch = sub[i].ch
            /\ r.written = sub[i].written /\ r.dropped = sub[i].dropped
        BY <2>1, UnlistedSet
      <4> HIDE DEF r
      <4> QED  BY <4>1, <4>2
    <3>3. CASE CloseChannel(c, t)
      <4> DEFINE r == [sub[i] EXCEPT !.open = FALSE]
      <4>1. sub' = [sub EXCEPT ![i] = r]
        BY <3>3 DEF CloseChannel
      <4>2. /\ r.confirmed = sub[i].confirmed /\ r.ch = sub[i].ch
            /\ r.written = sub[i].written /\ r.dropped = sub[i].dropped
        BY <2>1, ClosedSet
      <4> HIDE DEF r
      <4> QED  BY <4>1, <4>2
    <3> QED  BY <1>8, <3>1, <3>2, <3>3
  <2> HIDE DEF i
  <2> QED  BY <1>6, <2>1, <2>2
<1>9. ASSUME NEW c \in Conn, NEW t \in Topic, SkipTopic(c, t) PROVE Owed'
  BY <1>1, <1>9 DEF SkipTopic, brokerVars
<1>10. ASSUME NEW c \in Conn, NEW i \in Sub, Send(c, i) PROVE Owed'
  BY <1>0, <1>10, SendPays
<1>11. ASSUME NEW c \in Conn, NEW i \in Sub, Panic(c, i) PROVE Owed'
  <2>1. \A m \in Message : message'[m].due = {}
    BY <1>11 DEF Panic, FreeMessage
  <2> QED  BY <2>1 DEF Owed
<1>12. ASSUME NEW c \in Conn, Sent(c) PROVE Owed'
  <2>1. /\ pc[c] = "publish" /\ message[sending[c]].left = {}
        /\ pc' = [pc EXCEPT ![c] = "loop"]
        /\ sending' = [sending EXCEPT ![c] = NoMessage]
        /\ UNCHANGED <<sub, message>>
    BY <1>12 DEF Sent, Goto, brokerVars
  <2>2. \A d \in Conn \ {c} : pc'[d] = pc[d] /\ sending'[d] = sending[d]
    BY <1>0, <2>1 DEF Types
  <2>3. \A m, i : Pending(m, i) => Pending(m, i)'
    BY <2>1, <2>2 DEF Pending
  <2>4. \A m, i : Arrived(m, i) => Arrived(m, i)'
    BY <2>1 DEF Arrived
  <2> QED  BY <2>1, <2>3, <2>4 DEF Owed
<1>13. ASSUME NEW i \in Sub, Forwarder(i) PROVE Owed'
  <2>1. sub[i] \in Subscription /\ UNCHANGED <<pc, sending, message>>
    BY <1>0, <1>13 DEF Forwarder, Forward, ForwardEnds, connVars, Types
  <2>2. PICK r : /\ sub' = [sub EXCEPT ![i] = r]
                 /\ r.confirmed = sub[i].confirmed
                 /\ sub[i].dropped \subseteq r.dropped
                 /\ sub[i].written \subseteq r.written
                 /\ \A k : In(k, sub[i].ch) => In(k, r.ch) \/ k \in r.written
    BY <1>13, <2>1, ForwarderEffect
  <2> QED  BY <1>6, <2>1, <2>2
<1>14. ASSUME NEW c \in Conn, Hangup(c) PROVE Owed'
  BY <1>1, <1>14 DEF Hangup, brokerVars
<1>15. CASE Quit \/ Cut \/ Closed \/ Rest \/ UNCHANGED sVars
  BY <1>1, <1>15 DEF Quit, Cut, Closed, Rest, sVars, connVars, brokerVars
<1> QED
  BY <1>3, <1>4, <1>5, <1>7, <1>8, <1>9, <1>10, <1>11, <1>12, <1>13, <1>14,
     <1>15 DEF SNext, Command, Step

\* In every server, a message published after a SUBSCRIBE was confirmed is
\* written, waits in the channel or is counted as dropped once Publish has
\* returned, whoever subscribes, leaves or is cut off meanwhile (Publish).
THEOREM NothingLost == SSpec => []Delivered
<1>1. SInit => Owed
  BY SMTT(20) DEF SInit, Owed, FreeMessage
<1>2. Owed => Delivered
  BY DEF Owed, Delivered, Arrived, Pending, In
<1>3. SSpec => []Accounts
  BY InitAccounts, StepAccounts, PTL DEF SSpec
<1>4. SSpec => []Owed
  BY <1>1, <1>3, StepOwed, PTL DEF SSpec
<1> QED  BY <1>2, <1>4, PTL
-----------------------------------------------------------------------------
(* QuietAfterClose.                                                         *)

\* Close has waited for every connection that could have read before quit.
Quiet ==
    server = "closed" =>
        \A c \in Conn : pc[c] \in {"none", "accepted", "loop", "end", "done"}

\* Every step keeps the server quiet, and none reads a command in one.
LEMMA StepQuiet ==
    Types /\ Quiet /\ [SNext]_sVars =>
        Quiet' /\ (server = "closed" => commands' = commands)
<1> SUFFICES ASSUME Types, Quiet, [SNext]_sVars
             PROVE  Quiet' /\ (server = "closed" => commands' = commands)
  OBVIOUS
<1>1. ASSUME NEW c \in Conn, Accept(c) \/ Command(c)
      PROVE  server # "closed" /\ server' = server
  <2>1. CASE Accept(c)
    BY <2>1 DEF Accept
  <2>2. CASE Command(c)
    <3>1. Read(c)
      BY <2>2 DEF Command, ReadSubscribe, ReadUnsubscribe, ReadPublish,
         ReadQuit, ReadOther
    <3> QED  BY <3>1 DEF Read, Quiet
  <2> QED  BY <1>1, <2>1, <2>2
<1>2. ASSUME NEW c \in Conn,
             Start(c) \/ Loop(c) \/ ReadFails(c) \/ Return(c) \/ Finish(c)
                \/ Sent(c)
      PROVE  Quiet' /\ commands' = commands
  <2>1. UNCHANGED <<server, commands>>
    BY <1>2 DEF Start, Loop, ReadFails, Return, Finish, Sent
  <2>2. CASE server = "closed"
    <3>1. PICK l \in {"loop", "end", "done"} : pc' = [pc EXCEPT ![c] = l]
      BY <1>2, <2>2 DEF Start, Loop, ReadFails, Return, Finish, Sent, Quiet,
                        Leave, Goto
    <3> QED  BY <2>1, <3>1 DEF Quiet, Types
  <2> QED  BY <2>1, <2>2 DEF Quiet
<1>3. ASSUME NEW c \in Conn, NEW t \in Topic,
             SubscribeTopic(c, t) \/ Confirm(c, t) \/ SkipTopic(c, t)
                \/ Remove(c, t) \/ CloseChannel(c, t)
      PROVE  UNCHANGED <<server, pc, commands>>
  BY <1>3 DEF SubscribeTopic, Confirm, SkipTopic, Remove, CloseChannel,
     connVars
<1>4. ASSUME NEW c \in Conn, NEW i \in Sub, Send(c, i)
      PROVE  UNCHANGED <<server, pc, commands>>
  BY <1>4 DEF Send, connVars
<1>5. ASSUME NEW c \in Conn, NEW i \in Sub, Panic(c, i)
      PROVE  server' = "crashed" /\ commands' = commands
  BY <1>5 DEF Panic
<1>6. ASSUME NEW i \in Sub, Forwarder(i) PROVE UNCHANGED <<server, pc, commands>>
  BY <1>6 DEF Forwarder, Forward, ForwardEnds, connVars
<1>7. ASSUME NEW c \in Conn, Hangup(c) PROVE UNCHANGED <<server, pc, commands>>
  BY <1>7 DEF Hangup
<1>8. CASE Quit \/ Cut \/ Rest \/ UNCHANGED sVars
  BY <1>8 DEF Quit, Cut, Rest, sVars, connVars, Quiet
<1>9. CASE Closed
  BY <1>9 DEF Closed, connVars, Quiet
<1> QED
  BY <1>1, <1>2, <1>3, <1>4, <1>5, <1>6, <1>7, <1>8, <1>9
     DEF SNext, Step, Quiet

\* In every server, no command is read once Close has returned, whichever
\* connections were being accepted or had commands buffered (serve, Close).
THEOREM ClosedIsQuiet == SSpec => QuietAfterClose
<1>1. SInit => Quiet
  BY DEF SInit, Quiet
<1>2. SSpec => []Types
  <2>1. Accounts => Types
    BY DEF Accounts
  <2> QED  BY <2>1, InitAccounts, StepAccounts, PTL DEF SSpec
<1>3. SSpec => []Quiet
  BY <1>1, <1>2, StepQuiet, PTL DEF SSpec
<1>4. SSpec => [][server = "closed" => commands' = commands]_sVars
  BY <1>2, <1>3, StepQuiet, PTL DEF SSpec
<1> QED  BY <1>4 DEF QuietAfterClose
=============================================================================
