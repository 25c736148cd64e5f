---------------------------- MODULE RedSubProofs ----------------------------
(***************************************************************************)
(* A consumer has one subscription at most, for any length of the channel  *)
(* and any number of messages and failures.                                *)
(***************************************************************************)
EXTENDS RedSub, TLAPS

\* A goroutine that is done has closed its connection.
DoneIsDown == sub = "done" => conn = "down"

IInv ==
    /\ TypeOK
    /\ wire <= published
    /\ DoneIsDown
    /\ OneSubscription

\* There is no subscription initially.
LEMMA InitIInv == Init => IInv
  BY CapAssumption, BoundsAssumption
  DEF Init, IInv, TypeOK, DoneIsDown, OneSubscription

\* A subscription is made when there is none, and the consumer leaves it only
\* when its goroutine is done.
LEMMA NextIInv == IInv /\ [Next]_vars => IInv'
  <1> SUFFICES ASSUME IInv, [Next]_vars PROVE IInv'
    OBVIOUS
  <1> USE CapAssumption, BoundsAssumption DEF IInv, TypeOK, DoneIsDown, OneSubscription
  <1>1. CASE Receive
    BY <1>1 DEF Receive
  <1>2. CASE Send
    BY <1>2 DEF Send
  <1>3. CASE Fail
    BY <1>3 DEF Fail
  <1>4. CASE Finish
    BY <1>4 DEF Finish
  <1>5. CASE Subscribe
    BY <1>5 DEF Subscribe
  <1>6. CASE TakeMsg
    BY <1>6 DEF TakeMsg, SomeInC
  <1>7. CASE TakeErr
    BY <1>7 DEF TakeErr
  <1>8. CASE TakeStop
    BY <1>8 DEF TakeStop, CloseConn
  <1>9. CASE Wait
    BY <1>9 DEF Wait, Ended, AfterWait
  <1>10. CASE Wake
    BY <1>10 DEF Wake
  <1>11. CASE Publish
    BY <1>11 DEF Publish
  <1>12. CASE Break
    BY <1>12 DEF Break
  <1>13. CASE SignalStop
    BY <1>13 DEF SignalStop
  <1>14. CASE UNCHANGED vars
    BY <1>14 DEF vars
  <1>15. QED
    BY <1>1, <1>2, <1>3, <1>4, <1>5, <1>6, <1>7, <1>8, <1>9, <1>10, <1>11,
       <1>12, <1>13, <1>14 DEF Next

\* The variables keep their types: C never holds more than its length.
THEOREM TypeCorrect == Spec => []TypeOK
  <1>1. IInv => TypeOK
    BY DEF IInv
  <1>2. QED
    BY <1>1, InitIInv, NextIInv, PTL DEF Spec

\* The consumer (queue_data_sub, graph_sub) never has a subscription beside
\* one whose goroutine or connection is still there.
THEOREM NeverTwoSubscriptions == Spec => []OneSubscription
  <1>1. IInv => OneSubscription
    BY DEF IInv
  <1>2. QED
    BY <1>1, InitIInv, NextIInv, PTL DEF Spec

=============================================================================
