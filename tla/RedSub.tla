------------------------------- MODULE RedSub -------------------------------
(***************************************************************************)
(* A subscription to a redis channel (redsub) and its consumer: the loops  *)
(* of queue_data_sub in map-broker and of graph_sub in map-grapher.  The   *)
(* subscriber's goroutine forwards messages into the buffered channel C    *)
(* and ends with an error in E; the consumer selects between C, E and its  *)
(* stop channel, waits for the goroutine to end and subscribes anew.       *)
(***************************************************************************)
EXTENDS Integers

CONSTANTS
    Cap,        \* length of the channel C
    MaxMsg,     \* bound on the messages published
    MaxFail     \* bound on the failures of redis

ASSUME CapAssumption == Cap \in Nat \ {0}
ASSUME BoundsAssumption == MaxMsg \in Nat /\ MaxFail \in Nat

VARIABLES
    conn,       \* the connection: "up", or "down" when either side closed it
    wire,       \* messages on their way in it
    sub,        \* the goroutine: "receive", "send" a message to C, "ending" with
                \* an error in E, "done"
    buf,        \* messages in C
    user,       \* the consumer: "start", "select", "wait", "sleep", "quit"
    stop,       \* the stop channel: "no", "sent", "taken" (stop_signalled)
    published, fails

vars == <<conn, wire, sub, buf, user, stop, published, fails>>

Init ==
    /\ conn = "down" /\ wire = 0
    /\ sub = "done" /\ buf = 0
    /\ user = "start" /\ stop = "no"
    /\ published = 0 /\ fails = 0

---------------------------------------------------------------------------
(* The goroutine of a subscription                                         *)

\* Receive returns a message, which is to go to C.  What was read from the
\* connection before it went down is still returned.
Receive ==
    /\ sub = "receive"
    /\ wire > 0
    /\ wire' = wire - 1
    /\ sub' = "send"
    /\ UNCHANGED <<conn, buf, user, stop, published, fails>>

\* r.C <- message, which blocks while C is full
Send ==
    /\ sub = "send"
    /\ buf < Cap
    /\ buf' = buf + 1
    /\ sub' = "receive"
    /\ UNCHANGED <<conn, wire, user, stop, published, fails>>

\* Receive returns an error, of the connection or of redis itself; E holds
\* one, so that passing it on does not block.
Fail ==
    /\ sub = "receive"
    /\ \/ conn = "down" /\ UNCHANGED fails
       \/ fails < MaxFail /\ fails' = fails + 1
    /\ sub' = "ending"
    /\ UNCHANGED <<conn, wire, buf, user, stop, published>>

\* The deferred calls: the connection and the channels are closed, and then
\* the wait group is done.  C being closed, the consumer may take the empty
\* string from it, which it ignores.
Finish ==
    /\ sub = "ending"
    /\ sub' = "done"
    /\ conn' = "down"
    /\ UNCHANGED <<wire, buf, user, stop, published, fails>>

---------------------------------------------------------------------------
(* The consumer                                                            *)

\* redsub.New
Subscribe ==
    /\ user = "start"
    /\ \/ /\ conn' = "up" /\ wire' = 0
          /\ sub' = "receive" /\ buf' = 0
          /\ user' = "select"
          /\ UNCHANGED fails
       \/ /\ fails < MaxFail
          /\ fails' = fails + 1
          /\ user' = "sleep"
          /\ UNCHANGED <<conn, wire, sub, buf>>
    /\ UNCHANGED <<stop, published>>

\* Variant: a closed channel passes for one that holds a message.
SomeInClosed == buf > 0 \/ sub = "done"

SomeInC == buf > 0

\* A message is handled.
TakeMsg ==
    /\ user = "select"
    /\ SomeInC
    /\ buf' = buf - 1
    /\ UNCHANGED <<conn, wire, sub, user, stop, published, fails>>

\* The error in E; what is still in C is forgotten.
TakeErr ==
    /\ user = "select"
    /\ sub \in {"ending", "done"}
    /\ user' = "wait"
    /\ UNCHANGED <<conn, wire, sub, buf, stop, published, fails>>

\* Variant: the connection is left open.
CloseNot == UNCHANGED conn

\* rsub.Conn.Close()
CloseConn == conn' = "down"

TakeStop ==
    /\ user = "select"
    /\ stop = "sent"
    /\ stop' = "taken"
    /\ CloseConn
    /\ user' = "wait"
    /\ UNCHANGED <<wire, sub, buf, published, fails>>

\* Variant: the consumer ends with its subscription.
AfterWaitQuit == "quit"

AfterWait == IF stop = "taken" THEN "quit" ELSE "sleep"

\* Variant: the goroutine is thought to have ended with its connection.
EndedByClose == conn = "down"

Ended == sub = "done"

\* rsub.W.Wait()
Wait ==
    /\ user = "wait"
    /\ Ended
    /\ user' = AfterWait
    /\ UNCHANGED <<conn, wire, sub, buf, stop, published, fails>>

\* The pause after an error: it ends, or the stop channel ends it.
Wake ==
    /\ user = "sleep"
    /\ \/ user' = "start" /\ UNCHANGED stop
       \/ stop = "sent" /\ stop' = "taken" /\ user' = "quit"
    /\ UNCHANGED <<conn, wire, sub, buf, published, fails>>

---------------------------------------------------------------------------
(* Redis and the main goroutine                                            *)

Publish ==
    /\ conn = "up"
    /\ published < MaxMsg
    /\ published' = published + 1
    /\ wire' = wire + 1
    /\ UNCHANGED <<conn, sub, buf, user, stop, fails>>

Break ==
    /\ conn = "up"
    /\ fails < MaxFail
    /\ fails' = fails + 1
    /\ conn' = "down"
    /\ UNCHANGED <<wire, sub, buf, user, stop, published>>

SignalStop ==
    /\ stop = "no"
    /\ stop' = "sent"
    /\ UNCHANGED <<conn, wire, sub, buf, user, published, fails>>

Next ==
    \/ Receive \/ Send \/ Fail \/ Finish
    \/ Subscribe \/ TakeMsg \/ TakeErr \/ TakeStop \/ Wait \/ Wake
    \/ Publish \/ Break \/ SignalStop

\* Goroutines run on, timers fire, and a select that finds several of its
\* cases ready time and again takes each of them in the end.
Spec ==
    /\ Init /\ [][Next]_vars
    /\ WF_vars(Receive) /\ WF_vars(Send) /\ WF_vars(Finish)
    /\ WF_vars(Fail /\ conn = "down")
    /\ WF_vars(Subscribe) /\ WF_vars(Wait) /\ WF_vars(Wake)
    /\ WF_vars(TakeMsg) /\ SF_vars(TakeErr) /\ SF_vars(TakeStop)

---------------------------------------------------------------------------
(* Properties                                                              *)

\* The variables have their types.
TypeOK ==
    /\ conn \in {"up", "down"}
    /\ wire \in 0 .. MaxMsg
    /\ sub \in {"receive", "send", "ending", "done"}
    /\ buf \in 0 .. Cap
    /\ user \in {"start", "select", "wait", "sleep", "quit"}
    /\ stop \in {"no", "sent", "taken"}
    /\ published \in 0 .. MaxMsg
    /\ fails \in 0 .. MaxFail

\* The consumer never starts a subscription beside one that is still alive:
\* there is one goroutine, and one connection, at most.
OneSubscription == user \in {"start", "sleep", "quit"} => sub = "done" /\ conn = "down"

\* A subscription that is lost is set up again, unless the process is stopping.
Resubscribes == conn = "down" ~> conn = "up" \/ stop # "no"

\* A consumer that is told to stop ends ("to kill just close connection by
\* r.Conn.Close() and call r.W.Wait() before continue", redsub.go:12).
StopReturns == stop = "sent" ~> user = "quit"

=============================================================================
