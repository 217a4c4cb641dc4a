------------------------------- MODULE Server -------------------------------
(***************************************************************************)
(* The connections of internal/server and the pub/sub broker of            *)
(* internal/pubsub that they share.                                        *)
(*                                                                         *)
(* Serve accepts a connection, tracks it and starts a goroutine that reads *)
(* and executes its commands one at a time.  A subscription is a bounded   *)
(* channel of the broker, with a goroutine (forward) that writes what      *)
(* comes out of it to the connection.  Publish copies the subscriptions of *)
(* the topic and sends to them after it has unlocked the broker, so one of *)
(* them may be closed by then: a send on a closed channel panics, and the  *)
(* process is gone.                                                        *)
(*                                                                         *)
(* Close may run at any time.  Commands other than SUBSCRIBE, UNSUBSCRIBE, *)
(* PUBLISH and QUIT do not touch this state; one stands for all of them.   *)
(***************************************************************************)
EXTENDS Naturals, Sequences, FiniteSets

CONSTANTS
    Conn,           \* connections that are ever made
    Topic,
    Sub,            \* subscriptions that are ever made
    Message,        \* messages that are ever published
    NoSub, NoTopic, NoMessage,  \* stand for none
    SubBuffer,      \* capacity of a subscription's channel
    MaxCommands     \* bound: commands read

ASSUME NoneAssumption ==
    NoSub \notin Sub /\ NoTopic \notin Topic /\ NoMessage \notin Message
ASSUME ServerBounds == SubBuffer \in Nat \ {0} /\ MaxCommands \in Nat

VARIABLES
    server,     \* progress of Close, "open", "quit", "cut" or "closed"; or
                \* "crashed" when the process has panicked
    pc,         \* what the goroutine of a connection does next
    open,       \* whether the connection is open
    todo,       \* topics its command has yet to deal with
    subs,       \* conn.subs: topic to subscription
    sending,    \* the message it publishes
    sub,        \* the subscriptions
    message,    \* the messages
    commands    \* so far, for the bound

connVars == <<pc, open, todo, subs, sending>>
brokerVars == <<sub, message>>
sVars == <<server, connVars, brokerVars, commands>>

\* A subscription: is it in the broker's map, is its channel open, what is in
\* the channel, was dropped and was written, is SUBSCRIBE confirmed, does
\* forward run.
FreeSub == [topic |-> NoTopic, listed |-> FALSE, open |-> FALSE, ch |-> <<>>,
            dropped |-> {}, written |-> {}, confirmed |-> FALSE,
            forward |-> FALSE]

\* A message: the subscriptions Publish has yet to send it to and, as history,
\* those that were confirmed when Publish began.
FreeMessage == [topic |-> NoTopic, left |-> {}, due |-> {}]

SInit ==
    /\ server = "open"
    /\ pc = [c \in Conn |-> "none"]
    /\ open = [c \in Conn |-> FALSE]
    /\ todo = [c \in Conn |-> {}]
    /\ subs = [c \in Conn |-> [t \in Topic |-> NoSub]]
    /\ sending = [c \in Conn |-> NoMessage]
    /\ sub = [i \in Sub |-> FreeSub]
    /\ message = [m \in Message |-> FreeMessage]
    /\ commands = 0

Goto(c, l) == pc' = [pc EXCEPT ![c] = l]

Held(c) == {t \in Topic : subs[c][t] # NoSub}
-----------------------------------------------------------------------------
(* Serve, and the loop of a connection.                                     *)

Accept(c) ==
    /\ pc[c] = "none"
    /\ server = "open"
    /\ Goto(c, "accepted")
    /\ open' = [open EXCEPT ![c] = TRUE]
    /\ UNCHANGED <<server, todo, subs, sending, brokerVars, commands>>

\* trackConn, wg.Add and the go statement.
Start(c) ==
    /\ pc[c] = "accepted"
    /\ Goto(c, "loop")
    /\ UNCHANGED <<server, open, todo, subs, sending, brokerVars,
                   commands>>

\* serve returns: close the connection, and then its subscriptions.
Leave(c) ==
    /\ Goto(c, "end")
    /\ open' = [open EXCEPT ![c] = FALSE]
    /\ todo' = [todo EXCEPT ![c] = Held(c)]

\* Faulty: the loop does not look at quit.
LoopBlind(c) ==
    /\ pc[c] = "loop"
    /\ Goto(c, "read")
    /\ UNCHANGED <<server, open, todo, subs, sending, brokerVars,
                   commands>>

\* The top of the loop: look at quit, then read.
Loop(c) ==
    /\ pc[c] = "loop"
    /\ IF server = "open"
       THEN Goto(c, "read") /\ UNCHANGED <<open, todo>>
       ELSE Leave(c)
    /\ UNCHANGED <<server, subs, sending, brokerVars, commands>>

\* ReadCommand fails: the connection is closed, by the peer or by Close.
ReadFails(c) ==
    /\ pc[c] = "read"
    /\ ~open[c]
    /\ Leave(c)
    /\ UNCHANGED <<server, subs, sending, brokerVars, commands>>

\* ReadCommand gets a command.  It may come from the buffer of a connection
\* that has been closed.
Read(c) ==
    /\ pc[c] = "read"
    /\ commands < MaxCommands
    /\ commands' = commands + 1
    /\ UNCHANGED server

\* How many subscriptions the commands being executed may still make.
Wanted ==
    {w \in Conn \X Topic : pc[w[1]] = "subscribe" /\ w[2] \in todo[w[1]]}

\* The second conjunct is a bound: there are that many subscriptions left.
ReadSubscribe(c, T) ==
    /\ Read(c)
    /\ Cardinality(Wanted) + Cardinality(T)
            <= Cardinality({i \in Sub : sub[i] = FreeSub})
    /\ Goto(c, "subscribe")
    /\ todo' = [todo EXCEPT ![c] = T]
    /\ UNCHANGED <<open, subs, sending, brokerVars>>

\* Without arguments UNSUBSCRIBE takes the topics held.
ReadUnsubscribe(c, T) ==
    /\ Read(c)
    /\ Goto(c, "unsubscribe")
    /\ todo' = [todo EXCEPT ![c] = IF T = {} THEN Held(c) ELSE T]
    /\ UNCHANGED <<open, subs, sending, brokerVars>>

ReadQuit(c) ==
    /\ Read(c)
    /\ Leave(c)
    /\ UNCHANGED <<subs, sending, brokerVars>>

\* Any other command.
ReadOther(c) ==
    /\ Read(c)
    /\ Goto(c, "loop")
    /\ UNCHANGED <<open, todo, subs, sending, brokerVars>>

\* The command is done.
Return(c) ==
    /\ pc[c] \in {"subscribe", "unsubscribe"}
    /\ todo[c] = {}
    /\ Goto(c, "loop")
    /\ UNCHANGED <<server, open, todo, subs, sending, brokerVars,
                   commands>>

\* closeSubs is done; the connection is no longer tracked, wg.Done.
Finish(c) ==
    /\ pc[c] = "end"
    /\ todo[c] = {}
    /\ Goto(c, "done")
    /\ UNCHANGED <<server, open, todo, subs, sending, brokerVars,
                   commands>>

\* The peer closes the connection.
Hangup(c) ==
    /\ open[c]
    /\ open' = [open EXCEPT ![c] = FALSE]
    /\ UNCHANGED <<server, pc, todo, subs, sending, brokerVars,
                   commands>>
-----------------------------------------------------------------------------
(* SUBSCRIBE, UNSUBSCRIBE and closeSubs take the topics one at a time.      *)

\* doSubscribe: Broker.Subscribe, and start forward.
SubscribeTopic(c, t) ==
    /\ pc[c] = "subscribe"
    /\ t \in todo[c]
    /\ subs[c][t] = NoSub
    /\ \A u \in Held(c) : sub[subs[c][u]].confirmed
    /\ \E i \in Sub : sub[i] = FreeSub
    /\ LET i == CHOOSE i \in Sub : sub[i] = FreeSub
       IN  /\ sub' = [sub EXCEPT ![i] =
                         [FreeSub EXCEPT !.topic = t, !.listed = TRUE,
                                         !.open = TRUE, !.forward = TRUE]]
           /\ subs' = [subs EXCEPT ![c][t] = i]
    /\ UNCHANGED <<server, pc, open, todo, sending, message, commands>>

\* doSubscribe: write the confirmation.
Confirm(c, t) ==
    /\ pc[c] = "subscribe"
    /\ t \in todo[c]
    /\ subs[c][t] # NoSub
    /\ todo' = [todo EXCEPT ![c] = @ \ {t}]
    /\ sub' = [sub EXCEPT ![subs[c][t]].confirmed = TRUE]
    /\ UNCHANGED <<server, pc, open, subs, sending, message, commands>>

\* doUnsubscribe: the topic is not held.
SkipTopic(c, t) ==
    /\ pc[c] = "unsubscribe"
    /\ t \in todo[c]
    /\ subs[c][t] = NoSub
    /\ todo' = [todo EXCEPT ![c] = @ \ {t}]
    /\ UNCHANGED <<server, pc, open, subs, sending, brokerVars,
                   commands>>

\* Subscription.Close: take the subscription out of the broker's map.
Remove(c, t) ==
    /\ pc[c] \in {"unsubscribe", "end"}
    /\ t \in todo[c]
    /\ subs[c][t] # NoSub
    /\ \A u \in Held(c) : sub[subs[c][u]].listed
    /\ sub' = [sub EXCEPT ![subs[c][t]].listed = FALSE]
    /\ UNCHANGED <<server, connVars, message, commands>>

\* Faulty: the subscription stays in the map of the broker.
RemoveNothing(c, t) ==
    /\ pc[c] \in {"unsubscribe", "end"}
    /\ t \in todo[c]
    /\ subs[c][t] # NoSub
    /\ sub' = [sub EXCEPT ![subs[c][t]].open = FALSE]
    /\ subs' = [subs EXCEPT ![c][t] = NoSub]
    /\ todo' = [todo EXCEPT ![c] = @ \ {t}]
    /\ UNCHANGED <<server, pc, open, sending, message, commands>>

\* Subscription.Close: close the channel; the connection forgets it.
CloseChannel(c, t) ==
    /\ pc[c] \in {"unsubscribe", "end"}
    /\ t \in todo[c]
    /\ subs[c][t] # NoSub
    /\ ~sub[subs[c][t]].listed
    /\ sub' = [sub EXCEPT ![subs[c][t]].open = FALSE]
    /\ subs' = [subs EXCEPT ![c][t] = NoSub]
    /\ todo' = [todo EXCEPT ![c] = @ \ {t}]
    /\ UNCHANGED <<server, pc, open, sending, message, commands>>
-----------------------------------------------------------------------------
(* PUBLISH.                                                                 *)

\* The subscriptions on topic t that their connections know to be in effect.
InEffect(t) ==
    {i \in Sub : /\ sub[i].confirmed
                 /\ \E c \in Conn : /\ subs[c][t] = i
                                    /\ pc[c] \notin {"unsubscribe", "end"}}

\* Broker.Publish: copy the subscriptions of the topic under the lock.
ReadPublish(c, t) ==
    /\ Read(c)
    /\ \E m \in Message : message[m] = FreeMessage
    /\ LET m == CHOOSE m \in Message : message[m] = FreeMessage
       IN  /\ message' = [message EXCEPT ![m] =
                 [topic |-> t, due |-> InEffect(t),
                  left |-> {i \in Sub : sub[i].topic = t /\ sub[i].listed}]]
           /\ sending' = [sending EXCEPT ![c] = m]
    /\ Goto(c, "publish")
    /\ UNCHANGED <<open, todo, subs, sub>>

\* Faulty: a message that does not fit is not counted.
OfferSilent(s, m) ==
    IF Len(s.ch) < SubBuffer THEN [s EXCEPT !.ch = Append(@, m)] ELSE s

\* The send of Publish to one subscription, which never blocks.
Offer(s, m) ==
    IF Len(s.ch) < SubBuffer THEN [s EXCEPT !.ch = Append(@, m)]
    ELSE [s EXCEPT !.dropped = @ \cup {m}]

\* Broker.Publish: the send to one of the subscriptions copied.
Send(c, i) ==
    LET m == sending[c]
    IN  /\ pc[c] = "publish"
        /\ i \in message[m].left
        /\ sub[i].open
        /\ sub' = [sub EXCEPT ![i] = Offer(@, m)]
        /\ message' = [message EXCEPT ![m].left = @ \ {i}]
        /\ UNCHANGED <<server, connVars, commands>>

\* Broker.Publish: the channel has been closed since; the send panics, nothing
\* recovers, and the process ends with all it had.
Panic(c, i) ==
    /\ pc[c] = "publish"
    /\ i \in message[sending[c]].left
    /\ ~sub[i].open
    /\ server' = "crashed"
    /\ pc' = [d \in Conn |-> "crashed"]
    /\ open' = [d \in Conn |-> FALSE]
    /\ todo' = [d \in Conn |-> {}]
    /\ subs' = [d \in Conn |-> [t \in Topic |-> NoSub]]
    /\ sending' = [d \in Conn |-> NoMessage]
    /\ sub' = [j \in Sub |-> FreeSub]
    /\ message' = [m \in Message |-> FreeMessage]
    /\ UNCHANGED commands

\* Publish returns, and the count is written.
Sent(c) ==
    /\ pc[c] = "publish"
    /\ message[sending[c]].left = {}
    /\ Goto(c, "loop")
    /\ sending' = [sending EXCEPT ![c] = NoMessage]
    /\ UNCHANGED <<server, open, todo, subs, brokerVars, commands>>

Written(s) ==
    [s EXCEPT !.ch = Tail(s.ch), !.written = s.written \cup {Head(s.ch)}]

\* forward: write a message to the connection; errors are ignored.
Forward(i) ==
    /\ sub[i].forward
    /\ sub[i].ch # <<>>
    /\ sub' = [sub EXCEPT ![i] = Written(@)]
    /\ UNCHANGED <<server, connVars, message, commands>>

\* forward returns: the channel is closed and empty.
ForwardEnds(i) ==
    /\ sub[i].forward
    /\ sub[i].ch = <<>>
    /\ ~sub[i].open
    /\ sub' = [sub EXCEPT ![i].forward = FALSE]
    /\ UNCHANGED <<server, connVars, message, commands>>
-----------------------------------------------------------------------------
(* Close.                                                                   *)

\* Close quit and the listener.
Quit ==
    /\ server = "open"
    /\ server' = "quit"
    /\ UNCHANGED <<connVars, brokerVars, commands>>

\* Faulty: the connections are left open.
CutNone ==
    /\ server = "quit"
    /\ server' = "cut"
    /\ UNCHANGED <<connVars, brokerVars, commands>>

\* Close the connections that are tracked.
Cut ==
    /\ server = "quit"
    /\ server' = "cut"
    /\ open' = [c \in Conn |-> pc[c] = "accepted" /\ open[c]]
    /\ UNCHANGED <<pc, todo, subs, sending, brokerVars, commands>>

\* wg.Wait returns: no goroutine of a connection runs.
Closed ==
    /\ server = "cut"
    /\ \A c \in Conn : pc[c] \in {"none", "accepted", "done"}
    /\ server' = "closed"
    /\ UNCHANGED <<connVars, brokerVars, commands>>
-----------------------------------------------------------------------------
Command(c) ==
    \/ \E T \in SUBSET Topic : T # {} /\ ReadSubscribe(c, T)
    \/ \E T \in SUBSET Topic : ReadUnsubscribe(c, T)
    \/ \E t \in Topic : ReadPublish(c, t)
    \/ ReadQuit(c)
    \/ ReadOther(c)

Step(c) ==
    \/ Start(c) \/ Loop(c) \/ ReadFails(c) \/ Return(c) \/ Finish(c)
    \/ \E t \in Topic : SubscribeTopic(c, t) \/ Confirm(c, t) \/ SkipTopic(c, t)
                            \/ Remove(c, t) \/ CloseChannel(c, t)
    \/ \E i \in Sub : Send(c, i) \/ Panic(c, i)
    \/ Sent(c)

Forwarder(i) == Forward(i) \/ ForwardEnds(i)

\* Nothing more needs to happen: the process is gone, or every goroutine
\* waits for its peer.
Rest ==
    /\ \A c \in Conn : pc[c] \in {"none", "read", "done", "crashed"}
    /\ UNCHANGED sVars

SNext ==
    \/ \E c \in Conn : Accept(c) \/ Command(c) \/ Step(c) \/ Hangup(c)
    \/ \E i \in Sub : Forwarder(i)
    \/ Quit \/ Cut \/ Closed
    \/ Rest

SSpec == SInit /\ [][SNext]_sVars

\* The goroutines run; peers need not send commands, but they read what is
\* written to them, or else are closed, so that writes return.
SFairSpec ==
    /\ SSpec
    /\ \A c \in Conn : WF_sVars(Step(c))
    /\ \A i \in Sub : WF_sVars(Forwarder(i))
    /\ WF_sVars(Cut \/ Closed)
-----------------------------------------------------------------------------
(* The broker's map and the connections' maps agree: a subscription is in   *)
(* the broker exactly while one connection holds it and has not begun to    *)
(* close it, its channel is open exactly while it is held, and a connection *)
(* that is done holds none.  Nothing leaks when connections come, go and    *)
(* are cut in the middle of a command.  (doSubscribe, doUnsubscribe,        *)
(* closeSubs, Subscription.Close.)                                          *)
SubsAccounted ==
    /\ \A i \in Sub :
          /\ sub[i].open <=> \E c \in Conn, t \in Topic : subs[c][t] = i
          /\ sub[i].listed => sub[i].open
          /\ sub[i].open /\ ~sub[i].listed =>
                \E c \in Conn : pc[c] \in {"unsubscribe", "end"}
                                /\ \E t \in todo[c] : subs[c][t] = i
    /\ \A c \in Conn : pc[c] \in {"none", "done"} => Held(c) = {}

(* A message published after a SUBSCRIBE was confirmed is written to that   *)
(* subscriber, waits in its channel or is counted as dropped, once Publish  *)
(* has returned: no message disappears between the copy of the broker's map *)
(* and the sends, whoever unsubscribes or leaves meanwhile.  A Publish that *)
(* panics ends the process, and what it owed with it: that it can is the    *)
(* subject of PublishReturns.  (Publish.)                                   *)
Delivered ==
    \A m \in Message :
        (\A c \in Conn : sending[c] # m) =>
            \A i \in message[m].due :
                \/ m \in sub[i].written \cup sub[i].dropped
                \/ \E n \in 1..Len(sub[i].ch) : sub[i].ch[n] = m

(* Once Close has returned no command is read, although a connection that   *)
(* was accepted before may start after it, and although commands may still  *)
(* be in the buffer of a closed one.  (serve looks at quit; Close waits.)   *)
QuietAfterClose == [][server = "closed" => commands' = commands]_sVars

(* Close returns, and the goroutines that forward subscriptions end too:    *)
(* each sees quit, the closed connection or the closed channel, whatever it *)
(* was doing when Close was called.  (Close, serve, closeSubs, forward.)    *)
CloseEndsAll ==
    server # "open" ~>
        \/ server = "crashed"
        \/ server = "closed" /\ \A i \in Sub : ~sub[i].forward

(* PUBLISH returns the number of subscribers reached: it always comes to    *)
(* its reply.                                                               *)
PublishReturns == \A c \in Conn : pc[c] = "publish" ~> pc[c] = "loop"
=============================================================================
