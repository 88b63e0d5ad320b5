---------------------------- MODULE SongcastProofs ----------------------------
(***************************************************************************)
(* Proofs about Songcast, for any renderers, streams and lists.            *)
(***************************************************************************)
EXTENDS Songcast, TLAPS

Reading == {"connect", "sender", "transportState"}
Changing == {"setSender", "setSourceIndex", "setSourceIndex0", "play", "stop"}
Busy == pc \notin {"idle", "done"}
JoinOp == {"setReceiversFromSender", "setReceiversFromReceiver", "setReceiverPlayingUri"}
StopOp == {"stopReceivers", "stopReceiver"}

\* Where a call is says which helper it is of, and what it did until now.
Shape ==
  /\ pc = "idle" => ret /\ wrote = {} /\ reasons = {}
  /\ Busy => ret /\ Len(rcvs) >= 1
  /\ pc # "idle" /\ op \in OneOp => Len(rcvs) = 1
  /\ pc = "metadata" => i = 1 /\ op = "setReceiversFromSender" /\ wrote = {} /\ reasons = {}
  /\ pc \in Changing => i >= 1
  /\ Busy /\ i = 0 => op = "setReceiversFromReceiver" /\ wrote = {} /\ reasons = {}
  /\ Busy /\ op = "setReceiversFromReceiver" => master \in Renderers
  /\ pc = "done" /\ ret /\ Len(rcvs) >= 1 => i >= 1
  /\ pc = "setSender" => op \in JoinOp
  /\ pc \in {"setSourceIndex", "play"} => op \notin StopOp
  /\ pc \in {"stop", "setSourceIndex0"} => op \in StopOp

\* What getReceiverState() found is still true of a renderer nobody else used.
Reads ==
  /\ pc \in {"sender", "transportState"} => st.state = "GENERROR"
  /\ pc \in {"sender", "transportState"} \cup Changing =>
       st.index = receiverIndex[Current] /\ st.index # -1
  /\ pc = "transportState" => st.uri # NoUri
  /\ pc = "transportState" /\ Current \notin touched => dev[Current].uri = st.uri

\* The renderers that come later were not sent anything.
Fresh ==
  \A j \in DOMAIN rcvs : j > i \/ (j = i /\ pc \in Reading \cup {"metadata"}) => rcvs[j] \notin wrote

\* How far the change of the current renderer has come.
Progress ==
  /\ pc \in {"play", "setSourceIndex0"} => Current \in wrote
  /\ pc = "setSourceIndex" /\ op \in JoinOp => Current \in wrote
  /\ Current \notin touched =>
       /\ pc \in {"setSourceIndex", "play"} /\ op \in JoinOp => dev[Current].uri = uri
       /\ pc = "play" => dev[Current].source = receiverIndex[Current]
       /\ pc = "setSourceIndex0" => ~dev[Current].playing

\* A change of the helpers on lists begins with a renderer that asks for it.
Asked ==
  pc \in Changing /\ Current \notin wrote \cup touched =>
    /\ op = "stopReceivers" => dev[Current].uri # NoUri
    /\ op = "setReceiversFromReceiver" => dev[Current].uri = NoUri

\* The renderers that the call is done with.
Past ==
  \A j \in DOMAIN rcvs :
    /\ pc # "idle" /\ ret /\ (j < i \/ pc = "done")
    /\ j \notin reasons /\ rcvs[j] \notin touched
    => Demanded(rcvs[j])

Follows ==
  pc # "idle" /\ op = "setReceiversFromReceiver" /\ ret /\ i >= 1 /\ master \notin touched =>
    /\ dev[master].playing /\ dev[master].uri = uri
    /\ uri # NoUri /\ master \notin wrote

IInv == TypeOK /\ Shape /\ Reads /\ Fresh /\ Progress /\ Asked /\ Past /\ Follows
        /\ FalseMeansNothingDone

-----------------------------------------------------------------------------
(* Facts about the lists and the current renderer.                          *)

\* A list the program passes is a sequence of renderers without repetition.
LEMMA ListFacts ==
  ASSUME TypeOK
  PROVE  /\ Len(rcvs) \in Nat /\ DOMAIN rcvs = 1..Len(rcvs) /\ i \in Nat
         /\ \A j \in 1..Len(rcvs) : rcvs[j] \in Renderers
         /\ \A j, k \in 1..Len(rcvs) : rcvs[j] = rcvs[k] => j = k
<1>1. rcvs \in Seq(Renderers) /\ IsInjective(rcvs)
  BY SongcastAssumption DEF TypeOK
<1>2. i \in 0..Len(rcvs)
  BY DEF TypeOK
<1>3. QED
  BY <1>1, <1>2 DEF IsInjective

\* A call that is under way works on a renderer.
LEMMA CurrentFacts ==
  ASSUME TypeOK, Shape, Busy
  PROVE  /\ Current \in Renderers
         /\ dev[Current] \in Device
         /\ i >= 1 => i \in 1..Len(rcvs) /\ Current = rcvs[i]
         /\ i = 0 => Current = master
<1>1. i \in 0..Len(rcvs)
  BY DEF TypeOK
<1>2. i = 0 => Current = master /\ master \in Renderers
  BY DEF Current, Shape
<1>3. i # 0 => Current = rcvs[i] /\ i \in 1..Len(rcvs) /\ rcvs[i] \in Renderers
  BY <1>1, ListFacts DEF Current
<1>4. Current \in Renderers
  BY <1>2, <1>3
<1>5. QED
  BY <1>1, <1>2, <1>3, <1>4, ListFacts DEF TypeOK

-----------------------------------------------------------------------------
(* The end of the work on a renderer.                                       *)

\* Finish() goes to the next renderer or to the end.
LEMMA FinishMoves ==
  ASSUME i \in 1..Len(rcvs), Len(rcvs) \in Nat, NEW failed \in BOOLEAN, Finish(failed)
  PROVE  /\ i' \in 1..Len(rcvs) /\ st' = NoState
         /\ \/ i < Len(rcvs) /\ i' = i + 1 /\ pc' = "connect"
            \/ i = Len(rcvs) /\ i' = i /\ pc' = "done"
         /\ reasons \subseteq reasons' /\ reasons' \subseteq reasons \cup {i}
         /\ failed => i \in reasons'
         /\ ret' = (ret /\ ~(failed /\ op \in OneOp))
BY DEF Finish

\* No more has changed than the current renderer, nor a master that nobody else
\* used.
OnlyCurrent ==
  /\ UNCHANGED <<receiverIndex, op, rcvs, master, uri, touched, changes>>
  /\ dev' \in [Renderers -> Device]
  /\ wrote' = wrote \/ wrote' = wrote \cup {Current}
  /\ \A r \in Renderers : r # Current => dev'[r] = dev[r]
  /\ op = "setReceiversFromReceiver" /\ master \notin touched =>
       dev'[master] = dev[master] /\ (master \notin wrote => master \notin wrote')

\* Finish() keeps the invariant, if the current renderer is as demanded, or the
\* helper says that it failed.
LEMMA FinishKeeps ==
  ASSUME IInv, Busy, i >= 1, OnlyCurrent, NEW failed \in BOOLEAN, Finish(failed),
         NEW r \in Renderers, r = Current,
         failed \/ r \in touched \/ Demanded(r)'
  PROVE  IInv'
<1>0. DOMAIN rcvs = 1..Len(rcvs)
  BY ListFacts DEF IInv
<1>1. i \in 1..Len(rcvs) /\ r = rcvs[i] /\ Len(rcvs) \in Nat /\ ret
  BY ListFacts, CurrentFacts DEF IInv, Shape
<1>2. \A j \in 1..Len(rcvs) : rcvs[j] \in Renderers /\ (j # i => rcvs[j] # r)
  BY <1>1, ListFacts DEF IInv
<1>3. /\ i' \in 1..Len(rcvs) /\ st' = NoState
      /\ \/ i < Len(rcvs) /\ i' = i + 1 /\ pc' = "connect"
         \/ i = Len(rcvs) /\ i' = i /\ pc' = "done"
      /\ reasons \subseteq reasons' /\ reasons' \subseteq reasons \cup {i}
      /\ failed => i \in reasons'
      /\ ret' = (ret /\ ~(failed /\ op \in OneOp))
  BY <1>1, FinishMoves
<1>4. /\ rcvs' = rcvs /\ op' = op /\ master' = master /\ uri' = uri /\ touched' = touched
      /\ receiverIndex' = receiverIndex /\ changes' = changes
  BY DEF OnlyCurrent
<1>5. TypeOK'
  <2>1. wrote' \subseteq Renderers /\ dev' \in [Renderers -> Device]
    BY DEF TypeOK, IInv, OnlyCurrent
  <2>2. st' \in [state : SCState, index : {-1, 0, 1}, uri : Uris \cup {NoUri}]
    BY <1>3 DEF NoState, SCState
  <2>3. ret' \in BOOLEAN /\ i' \in 0..Len(rcvs')
    BY <1>1, <1>3, <1>4
  <2>4. reasons \subseteq DOMAIN rcvs /\ i \in DOMAIN rcvs
    BY <1>0, <1>1 DEF TypeOK, IInv
  <2>5. reasons' \subseteq DOMAIN rcvs'
    BY <1>3, <1>4, <2>4
  <2>6. pc' \in RemoteCall \cup {"idle", "done"}
    BY <1>3 DEF RemoteCall
  <2>7. QED
    BY <1>4, <2>1, <2>2, <2>3, <2>5, <2>6 DEF TypeOK, IInv
<1>6. Shape'
  <2>1. op \in OneOp => Len(rcvs) = 1
    BY DEF Shape, Busy, IInv
  <2>2. pc' = "connect" => ret'
    <3>1. CASE Len(rcvs) = 1
      BY <1>1, <1>3, <3>1
    <3>2. CASE Len(rcvs) # 1
      BY <1>1, <1>3, <2>1, <3>2
    <3>3. QED
      BY <3>1, <3>2
  <2>3. op = "setReceiversFromReceiver" => master \in Renderers
    BY DEF Shape, IInv
  <2>4. pc' \in {"connect", "done"} /\ i' >= 1 /\ Len(rcvs) >= 1
    BY <1>1, <1>3
  <2>5. QED
    BY <1>4, <2>1, <2>2, <2>3, <2>4 DEF Shape, Busy, Changing
<1>7. Reads'
  BY <1>3 DEF Reads, Changing
<1>8. Fresh'
  <2> SUFFICES ASSUME NEW j \in 1..Len(rcvs), j > i' \/ (j = i' /\ pc' \in Reading \cup {"metadata"})
               PROVE  rcvs[j] \notin wrote'
    BY <1>0, <1>1, <1>4 DEF Fresh
  <2>1. j > i
    BY <1>1, <1>3 DEF Reading
  <2>2. rcvs[j] \notin wrote /\ rcvs[j] # r
    BY <1>0, <1>1, <1>2, <2>1 DEF Fresh, IInv
  <2>3. QED
    BY <2>2 DEF OnlyCurrent
<1>9. Progress' /\ Asked'
  BY <1>3 DEF Progress, Asked, Changing
<1>10. Past'
  <2> SUFFICES ASSUME NEW j \in 1..Len(rcvs), j < i' \/ pc' = "done", ret',
                      j \notin reasons', rcvs[j] \notin touched
               PROVE  Demanded(rcvs[j])'
    BY <1>0, <1>1, <1>4 DEF Past
  <2>1. CASE j = i
    <3>1. Demanded(r)'
      BY <1>1, <1>3, <2>1
    <3>2. rcvs'[j] = r
      BY <1>1, <1>4, <2>1
    <3>3. QED
      BY <3>1, <3>2 DEF Demanded, Connected
  <2>2. CASE j # i
    <3>1. j < i /\ rcvs[j] # r /\ rcvs[j] \in Renderers
      BY <2>2, <1>1, <1>2, <1>3
    <3>2. Demanded(rcvs[j])
      <4>1. Past /\ pc # "idle"
        BY DEF Busy, IInv
      <4>2. j \in DOMAIN rcvs /\ ret
        BY <1>0, <1>1
      <4>3. j \notin reasons /\ rcvs[j] \notin touched
        BY <1>3
      <4> QED  BY <3>1, <4>1, <4>2, <4>3, Zenon DEF Past
    <3>3. dev'[rcvs[j]] = dev[rcvs[j]] /\ (rcvs[j] \in wrote' <=> rcvs[j] \in wrote)
      BY <3>1 DEF OnlyCurrent
    <3>4. QED
      BY <3>2, <3>3, <1>4 DEF Demanded, Connected
  <2>3. QED
    BY <2>1, <2>2
<1>11. Follows'
  <2>1. op = "setReceiversFromReceiver" /\ master \notin touched =>
          /\ dev[master].playing /\ dev[master].uri = uri
          /\ uri # NoUri /\ master \notin wrote
    BY <1>1 DEF Follows, Busy, IInv
  <2>2. op = "setReceiversFromReceiver" /\ master \notin touched =>
          dev'[master] = dev[master] /\ master \notin wrote'
    BY <2>1 DEF OnlyCurrent
  <2>3. QED
    BY <2>1, <2>2, <1>4 DEF Follows
<1>12. FalseMeansNothingDone'
  BY <1>1, <1>3, <1>4 DEF FalseMeansNothingDone, GroupOp, OneOp
<1>13. QED
  BY <1>5, <1>6, <1>7, <1>8, <1>9, <1>10, <1>11, <1>12 DEF IInv

-----------------------------------------------------------------------------
(* The other ways a step can end.                                           *)

State == [state : SCState, index : {-1, 0, 1}, uri : Uris \cup {NoUri}]

\* GoOn() keeps the invariant, if the next remote call is one that the helper
\* makes, and what it supposes of the renderer is true.
LEMMA GoOnKeeps ==
  ASSUME IInv, Busy, OnlyCurrent, NEW call, NEW state \in State, GoOn(call, state),
         call \in {"sender", "transportState"} \cup Changing,
         call \in Changing => i >= 1,
         call \in Reading => pc \in Reading /\ wrote' = wrote,
         call = "setSender" => op \in JoinOp,
         call \in {"setSourceIndex", "play"} => op \notin StopOp,
         call \in {"stop", "setSourceIndex0"} => op \in StopOp,
         i = 0 => wrote' = wrote,
         pc # "metadata",
         Reads', Progress', Asked'
  PROVE  IInv'
<1>0. DOMAIN rcvs = 1..Len(rcvs) /\ i \in Nat /\ Len(rcvs) \in Nat
  BY ListFacts DEF IInv
<1>1. /\ rcvs' = rcvs /\ op' = op /\ master' = master /\ uri' = uri /\ touched' = touched
      /\ receiverIndex' = receiverIndex /\ changes' = changes
      /\ pc' = call /\ st' = state /\ i' = i /\ reasons' = reasons /\ ret' = ret
  BY DEF OnlyCurrent, GoOn, resultVars
<1>2. pc' \in {"sender", "transportState"} \cup Changing
  BY <1>1
<1>3. TypeOK'
  <2>1. wrote' \subseteq Renderers /\ dev' \in [Renderers -> Device]
    BY CurrentFacts DEF TypeOK, IInv, OnlyCurrent
  <2>2. pc' \in RemoteCall \cup {"idle", "done"}
    BY <1>2 DEF RemoteCall, Changing
  <2>3. QED
    BY <1>1, <2>1, <2>2 DEF TypeOK, IInv, State
<1>4. Shape'
  <2>1. pc' \notin {"idle", "done", "metadata"}
    BY <1>2 DEF Changing
  <2>2. QED
    BY <1>1, <2>1 DEF Shape, IInv, Busy
<1>5. Fresh'
  <2> SUFFICES ASSUME NEW j \in 1..Len(rcvs), j > i \/ (j = i /\ call \in Reading)
               PROVE  rcvs[j] \notin wrote'
    BY <1>0, <1>1, <1>2 DEF Fresh, Changing
  <2>1. rcvs[j] \notin wrote
    BY <1>0 DEF Fresh, IInv, Reading
  <2>2. CASE wrote' = wrote
    BY <2>1, <2>2
  <2>3. CASE wrote' # wrote
    <3>1. j > i /\ i >= 1
      BY <2>3, <1>0
    <3>2. Current = rcvs[i] /\ i \in 1..Len(rcvs)
      BY <3>1, CurrentFacts DEF IInv
    <3>3. rcvs[j] # rcvs[i]
      BY <3>1, <3>2, <1>0, ListFacts DEF IInv
    <3>4. QED
      BY <2>1, <3>2, <3>3 DEF OnlyCurrent
  <2>4. QED
    BY <2>2, <2>3
<1>6. Past'
  <2> SUFFICES ASSUME NEW j \in 1..Len(rcvs), j < i, ret, j \notin reasons, rcvs[j] \notin touched
               PROVE  Demanded(rcvs[j])'
    BY <1>0, <1>1, <1>2 DEF Past, Changing
  <2>1. Demanded(rcvs[j])
    BY <1>0 DEF Past, IInv, Busy
  <2>2. Current = rcvs[i] /\ i \in 1..Len(rcvs) /\ j # i
    BY <1>0, CurrentFacts DEF IInv
  <2>3. rcvs[j] # Current /\ rcvs[j] \in Renderers
    BY <2>2, ListFacts DEF IInv
  <2>4. dev'[rcvs[j]] = dev[rcvs[j]] /\ (rcvs[j] \in wrote' <=> rcvs[j] \in wrote)
    BY <2>3 DEF OnlyCurrent
  <2>5. QED
    BY <2>1, <2>4, <1>1 DEF Demanded, Connected
<1>7. Follows'
  <2>1. op = "setReceiversFromReceiver" /\ ret /\ i >= 1 /\ master \notin touched =>
          /\ dev[master].playing /\ dev[master].uri = uri
          /\ uri # NoUri /\ master \notin wrote
    BY DEF Follows, Busy, IInv
  <2>2. op = "setReceiversFromReceiver" /\ ret /\ i >= 1 /\ master \notin touched =>
          dev'[master] = dev[master] /\ master \notin wrote'
    BY <2>1 DEF OnlyCurrent
  <2>3. QED
    BY <2>1, <2>2, <1>1 DEF Follows
<1>8. FalseMeansNothingDone'
  BY <1>2 DEF FalseMeansNothingDone, Changing
<1>9. QED
  BY <1>3, <1>4, <1>5, <1>6, <1>7, <1>8 DEF IInv

\* InitialError keeps the invariant, if nothing was sent to a renderer.
LEMMA InitialErrorKeeps ==
  ASSUME IInv, Busy, wrote = {}, InitialError,
         UNCHANGED <<receiverIndex, dev, op, rcvs, master, touched, changes, wrote>>
  PROVE  IInv'
<1>0. DOMAIN rcvs = 1..Len(rcvs) /\ Len(rcvs) \in Nat /\ Len(rcvs) >= 1
  BY ListFacts DEF IInv, Shape
<1>1. /\ rcvs' = rcvs /\ op' = op /\ master' = master /\ uri' = uri /\ touched' = touched
      /\ receiverIndex' = receiverIndex /\ changes' = changes /\ dev' = dev /\ wrote' = {}
      /\ pc' = "done" /\ st' = st /\ i' = i /\ reasons' = {1} /\ ret' = FALSE
  BY DEF InitialError
<1>2. TypeOK'
  <2>1. 1 \in DOMAIN rcvs
    BY <1>0
  <2>2. QED
    BY <1>1, <2>1 DEF TypeOK, IInv
<1>3. Shape' /\ Reads' /\ Progress' /\ Asked'
  BY <1>1 DEF Shape, Reads, Progress, Asked, Changing, Busy, IInv
<1>4. Fresh' /\ Past' /\ Follows' /\ FalseMeansNothingDone'
  BY <1>1 DEF Fresh, Past, Follows, FalseMeansNothingDone
<1>5. QED
  BY <1>2, <1>3, <1>4 DEF IInv

-----------------------------------------------------------------------------
(* What getReceiverState() found.                                           *)

Unchanged == UNCHANGED <<receiverIndex, dev, callVars, othersVars, wrote>>

LEMMA UnchangedFacts ==
  ASSUME IInv, Unchanged, UNCHANGED uri
  PROVE  OnlyCurrent
BY DEF Unchanged, OnlyCurrent, callVars, othersVars, IInv, TypeOK

\* The facts that the state found stands for.
TrueOf(new, live) ==
  /\ live => new.index = receiverIndex[Current] /\ new.index # -1
  /\ new.state \notin {"GENERROR", "NOOH"} => live
  /\ new.state = "NOTRECEIVER" => dev[Current].uri = NoUri
  /\ new.state \in {"STOPPED", "PLAYING"} =>
       new.uri # NoUri /\ (Current \notin touched => dev[Current].uri = new.uri)
  /\ new.state = "PLAYING" => dev[Current].playing

\* The master: the program is told, or the slaves are next.
LEMMA MasterFoundKeeps ==
  ASSUME IInv, pc \in Reading, i = 0, Unchanged,
         NEW new \in State, TrueOf(new, TRUE) \/ new.state \in {"GENERROR", "NOOH"},
         MasterFound(new)
  PROVE  IInv'
<1>1. /\ Busy /\ wrote = {} /\ op = "setReceiversFromReceiver" /\ reasons = {}
      /\ Current = master /\ ret /\ Len(rcvs) >= 1
  BY CurrentFacts DEF Reading, Busy, Shape, IInv
<1>2. CASE new.state # "PLAYING"
  BY <1>1, <1>2, InitialErrorKeeps DEF MasterFound, Unchanged, callVars, othersVars
<1>3. CASE new.state = "PLAYING"
  <2>1. /\ pc' = "connect" /\ i' = 1 /\ uri' = new.uri /\ st' = NoState
        /\ reasons' = reasons /\ ret' = ret /\ rcvs' = rcvs /\ op' = op /\ master' = master
        /\ touched' = touched /\ wrote' = wrote /\ dev' = dev
        /\ receiverIndex' = receiverIndex /\ changes' = changes
    BY <1>3 DEF MasterFound, Unchanged, callVars, othersVars, resultVars
  <2>2. TypeOK'
    <3>1. i' \in 0..Len(rcvs)
      BY <1>1, <2>1, ListFacts DEF IInv
    <3>2. st' \in State /\ uri' \in Uris \cup {NoUri} /\ pc' \in RemoteCall
      BY <2>1 DEF NoState, State, SCState, RemoteCall
    <3>3. QED
      BY <2>1, <3>1, <3>2 DEF TypeOK, IInv, State
  <2>3. Shape'
    <3>1. master \in Renderers
      BY <1>1 DEF Shape, IInv
    <3>2. QED
      BY <1>1, <2>1, <3>1 DEF Shape, Busy, Changing, OneOp
  <2>4. Reads' /\ Progress' /\ Asked'
    BY <2>1 DEF Reads, Progress, Asked, Changing
  <2>5. Fresh'
    BY <1>1, <2>1 DEF Fresh
  <2>6. Past'
    <3>1. \A j \in 1..Len(rcvs) : ~(j < 1)
      BY ListFacts DEF IInv
    <3>2. DOMAIN rcvs = 1..Len(rcvs)
      BY ListFacts DEF IInv
    <3>3. QED
      BY <2>1, <3>1, <3>2 DEF Past
  <2>7. Follows'
    BY <1>1, <1>3, <2>1 DEF Follows, TrueOf
  <2>8. FalseMeansNothingDone'
    BY <2>1 DEF FalseMeansNothingDone
  <2>9. QED
    BY <2>2, <2>3, <2>4, <2>5, <2>6, <2>7, <2>8 DEF IInv
<1>4. QED
  BY <1>2, <1>3

\* A slave: the helper leaves it alone, reports an error, or goes on to the
\* first change, which the renderer asks for.
LEMMA SlaveFoundKeeps ==
  ASSUME IInv, pc \in Reading, i >= 1, Unchanged,
         NEW new \in State, NEW live \in BOOLEAN, TrueOf(new, live),
         SlaveFound(new, live)
  PROVE  IInv'
<1>1. /\ Busy /\ pc # "metadata" /\ OnlyCurrent /\ UNCHANGED uri
      /\ Current \in Renderers /\ i # 0
  BY UnchangedFacts, CurrentFacts DEF Reading, Busy, SlaveFound, IInv
<1>2. i \in DOMAIN rcvs /\ Current = rcvs[i] /\ Current \notin wrote
  <2>1. i \in DOMAIN rcvs /\ Current = rcvs[i]
    BY <1>1, CurrentFacts, ListFacts DEF IInv
  <2>2. QED
    BY <2>1 DEF Fresh, IInv
<1>3. CASE Finish(TRUE)
  BY <1>1, <1>3, FinishKeeps
<1>4. CASE LeavesAlone(new.state) /\ Finish(FALSE)
  <2>1. Current \in touched \/ IF op = "stopReceivers" THEN dev[Current].uri = NoUri
                                                       ELSE dev[Current].uri # NoUri
    BY <1>4 DEF LeavesAlone, TrueOf
  <2> DEFINE r == Current
  <2>2. /\ op \in {"stopReceivers", "setReceiversFromReceiver"}
        /\ op' = op /\ wrote' = wrote /\ dev' = dev
    BY <1>4 DEF LeavesAlone, Unchanged, callVars
  <2>3. \A q \in Renderers : q = Current => q \in touched \/ Demanded(q)'
    BY <1>2, <2>1, <2>2 DEF Demanded
  <2>4. QED
    BY <1>1, <1>4, <2>3, FinishKeeps
<1>5. CASE /\ live /\ GoOn(FirstChange(op), new)
           /\ \/ op \in OneOp
              \/ new.state \notin {"GENERROR", "NOOH"} /\ ~LeavesAlone(new.state)
  <2>1. /\ FirstChange(op) \in Changing
        /\ FirstChange(op) = "setSender" => op \in JoinOp
        /\ FirstChange(op) = "setSourceIndex" => op \notin JoinOp \cup StopOp
        /\ FirstChange(op) = "stop" => op \in StopOp
        /\ FirstChange(op) \in {"setSender", "setSourceIndex", "stop"}
    BY DEF FirstChange, Changing, JoinOp, StopOp, IInv, TypeOK, GroupOp, OneOp
  <2>2. /\ pc' = FirstChange(op) /\ st' = new /\ wrote' = wrote /\ dev' = dev /\ uri' = uri
        /\ receiverIndex' = receiverIndex /\ touched' = touched /\ op' = op
        /\ Current' = Current
    BY <1>1, <1>5 DEF GoOn, Unchanged, callVars, othersVars, Current
  <2>3. Reads'
    BY <1>5, <2>1, <2>2 DEF Reads, TrueOf
  <2>4. Progress'
    BY <2>1, <2>2 DEF Progress
  <2>5. Asked'
    <3>1. op = "stopReceivers" => new.state \in {"STOPPED", "PLAYING"}
      BY <1>5 DEF OneOp, LeavesAlone, State, SCState
    <3>2. op = "setReceiversFromReceiver" => new.state = "NOTRECEIVER"
      BY <1>5 DEF OneOp, LeavesAlone, State, SCState
    <3>3. QED
      BY <2>2, <3>1, <3>2 DEF Asked, TrueOf
  <2>6. FirstChange(op) \notin Reading
    BY <2>1 DEF Reading
  <2>7. QED
    BY <1>1, <1>5, <2>1, <2>2, <2>3, <2>4, <2>5, <2>6, GoOnKeeps
<1>6. live \/ new.state \in {"GENERROR", "NOOH"}
  BY DEF TrueOf
<1>7. QED
  BY <1>3, <1>4, <1>5, <1>6 DEF SlaveFound

-----------------------------------------------------------------------------
(* Each action keeps the invariant.                                         *)

LEMMA FoundKeeps ==
  ASSUME IInv, pc \in Reading, Unchanged,
         NEW new \in State, NEW live \in BOOLEAN, TrueOf(new, live), Found(new, live)
  PROVE  IInv'
<1>1. i \in Nat
  BY ListFacts DEF IInv
<1>2. CASE i = 0
  <2>1. TrueOf(new, TRUE) \/ new.state \in {"GENERROR", "NOOH"}
    BY DEF TrueOf
  <2>2. QED
    BY <1>2, <2>1, MasterFoundKeeps DEF Found
<1>3. CASE i >= 1
  BY <1>3, SlaveFoundKeeps DEF Found
<1>4. QED
  BY <1>1, <1>2, <1>3

LEMMA ConnectKeeps ==
  ASSUME IInv, Connect
  PROVE  IInv'
<1>1. pc \in Reading /\ Unchanged /\ Busy /\ pc # "metadata"
  BY DEF Connect, Reading, Unchanged, Busy
<1>2. NoState \in State /\ [NoState EXCEPT !.state = "NOOH"] \in State
  BY DEF NoState, State, SCState
<1>3. CASE Found(NoState, FALSE)
  <2>1. TrueOf(NoState, FALSE)
    BY DEF TrueOf, NoState
  <2>2. QED
    BY <1>1, <1>2, <1>3, <2>1, FoundKeeps
<1>4. CASE Found([NoState EXCEPT !.state = "NOOH"], FALSE)
  <2>1. TrueOf([NoState EXCEPT !.state = "NOOH"], FALSE)
    BY DEF TrueOf, NoState
  <2>2. QED
    BY <1>1, <1>2, <1>4, <2>1, FoundKeeps
<1>5. CASE /\ receiverIndex[Current] # -1
           /\ GoOn("sender", [NoState EXCEPT !.index = receiverIndex[Current]]) /\ UNCHANGED uri
  <2> DEFINE state == [NoState EXCEPT !.index = receiverIndex[Current]]
  <2>1. Current \in Renderers /\ OnlyCurrent
    BY <1>1, <1>5, CurrentFacts, UnchangedFacts DEF IInv
  <2>2. receiverIndex[Current] \in {-1, 0, 1}
    BY <2>1, SongcastAssumption DEF IInv, TypeOK
  <2>3. state \in State /\ state.state = "GENERROR" /\ state.index = receiverIndex[Current]
    BY <2>2 DEF NoState, State, SCState
  <2>4. /\ pc' = "sender" /\ st' = state /\ Current' = Current
        /\ receiverIndex' = receiverIndex /\ wrote' = wrote /\ receiverIndex[Current] # -1
    BY <1>1, <1>5 DEF GoOn, Unchanged, callVars, Current
  <2>5. Reads' /\ Progress' /\ Asked'
    BY <2>3, <2>4 DEF Reads, Progress, Asked, Changing
  <2>6. "sender" \notin Changing /\ "sender" \in Reading
    BY DEF Changing, Reading
  <2>7. QED
    BY <1>1, <1>5, <2>1, <2>3, <2>4, <2>5, <2>6, GoOnKeeps
<1>6. QED
  BY <1>3, <1>4, <1>5 DEF Connect

LEMMA SenderKeeps ==
  ASSUME IInv, Sender
  PROVE  IInv'
<1>1. /\ pc \in Reading /\ Unchanged /\ Busy /\ pc # "metadata" /\ st \in State
      /\ st.state = "GENERROR" /\ st.index = receiverIndex[Current] /\ st.index # -1
  BY DEF Sender, Reading, Unchanged, Busy, IInv, TypeOK, State, Reads
<1>2. CASE Found(st, TRUE)
  <2>1. TrueOf(st, TRUE)
    BY <1>1 DEF TrueOf
  <2>2. QED
    BY <1>1, <1>2, <2>1, FoundKeeps
<1>3. CASE dev[Current].uri = NoUri /\ Found([st EXCEPT !.state = "NOTRECEIVER"], TRUE)
  <2> DEFINE new == [st EXCEPT !.state = "NOTRECEIVER"]
  <2>1. new \in State /\ TrueOf(new, TRUE)
    BY <1>1, <1>3 DEF State, SCState, TrueOf
  <2>2. QED
    BY <1>1, <1>3, <2>1, FoundKeeps
<1>4. CASE /\ dev[Current].uri # NoUri
           /\ GoOn("transportState", [st EXCEPT !.uri = dev[Current].uri]) /\ UNCHANGED uri
  <2> DEFINE state == [st EXCEPT !.uri = dev[Current].uri]
  <2>1. Current \in Renderers /\ dev[Current] \in Device /\ OnlyCurrent
    BY <1>1, <1>4, CurrentFacts, UnchangedFacts DEF IInv
  <2>2. /\ state \in State /\ state.state = "GENERROR" /\ state.index = receiverIndex[Current]
        /\ state.uri = dev[Current].uri /\ state.index # -1
    BY <1>1, <2>1 DEF State, Device
  <2>3. /\ pc' = "transportState" /\ st' = state /\ Current' = Current /\ dev' = dev
        /\ receiverIndex' = receiverIndex /\ wrote' = wrote
    BY <1>1, <1>4 DEF GoOn, Unchanged, callVars, Current
  <2>4. Reads' /\ Progress' /\ Asked'
    BY <1>4, <2>2, <2>3 DEF Reads, Progress, Asked, Changing
  <2>5. "transportState" \notin Changing /\ "transportState" \in Reading
    BY DEF Changing, Reading
  <2>6. QED
    BY <1>1, <1>4, <2>1, <2>2, <2>3, <2>4, <2>5, GoOnKeeps
<1>5. QED
  BY <1>2, <1>3, <1>4 DEF Sender

LEMMA TransportStateKeeps ==
  ASSUME IInv, TransportState
  PROVE  IInv'
<1> DEFINE new == [st EXCEPT !.state = IF dev[Current].playing THEN "PLAYING" ELSE "STOPPED"]
<1>1. /\ pc \in Reading /\ Unchanged /\ st \in State
      /\ st.state = "GENERROR" /\ st.uri # NoUri
      /\ st.index = receiverIndex[Current] /\ st.index # -1
      /\ Current \notin touched => dev[Current].uri = st.uri
  BY DEF TransportState, Reading, Unchanged, IInv, TypeOK, State, Reads
<1>2. TrueOf(st, TRUE)
  BY <1>1 DEF TrueOf
<1>3. new \in State /\ TrueOf(new, TRUE)
  <2>1. new \in State /\ new.index = st.index /\ new.uri = st.uri
    BY <1>1 DEF State, SCState
  <2>2. new.state = IF dev[Current].playing THEN "PLAYING" ELSE "STOPPED"
    BY <1>1 DEF State
  <2>3. QED
    BY <1>1, <2>1, <2>2 DEF TrueOf
<1>4. Found(st, TRUE) \/ Found(new, TRUE)
  BY DEF TransportState
<1>5. QED
  BY <1>1, <1>2, <1>3, <1>4, FoundKeeps

LEMMA MetadataKeeps ==
  ASSUME IInv, Metadata
  PROVE  IInv'
<1>1. /\ Busy /\ wrote = {} /\ i = 1 /\ op = "setReceiversFromSender" /\ reasons = {}
      /\ ret /\ Len(rcvs) >= 1
  BY DEF Metadata, Busy, Shape, IInv
<1>2. CASE InitialError
  BY <1>1, <1>2, InitialErrorKeeps DEF Metadata, callVars, othersVars
<1>3. CASE \E u \in Uris : uri' = u /\ pc' = "connect" /\ UNCHANGED <<i, st, resultVars>>
  <2>1. /\ uri' \in Uris /\ pc' = "connect" /\ i' = i /\ st' = st
        /\ reasons' = reasons /\ ret' = ret /\ rcvs' = rcvs /\ op' = op /\ master' = master
        /\ touched' = touched /\ wrote' = wrote /\ dev' = dev
        /\ receiverIndex' = receiverIndex /\ changes' = changes
    BY <1>3 DEF Metadata, callVars, othersVars, resultVars
  <2>2. TypeOK'
    BY <2>1 DEF TypeOK, IInv, RemoteCall
  <2>3. Shape'
    BY <1>1, <2>1 DEF Shape, IInv, Busy, Changing, OneOp
  <2>4. Reads' /\ Progress' /\ Asked' /\ Follows' /\ FalseMeansNothingDone'
    BY <1>1, <2>1 DEF Reads, Progress, Asked, Follows, FalseMeansNothingDone, Changing
  <2>5. Fresh'
    BY <1>1, <2>1 DEF Fresh
  <2>6. Past'
    <3>1. \A j \in 1..Len(rcvs) : ~(j < 1)
      BY ListFacts DEF IInv
    <3>2. DOMAIN rcvs = 1..Len(rcvs)
      BY ListFacts DEF IInv
    <3>3. QED
      BY <1>1, <2>1, <3>1, <3>2 DEF Past
  <2>7. QED
    BY <2>2, <2>3, <2>4, <2>5, <2>6 DEF IInv
<1>4. QED
  BY <1>2, <1>3 DEF Metadata

\* setReceiversFromReceiver() sends nothing to its master, which it found playing.
LEMMA MasterSpared ==
  ASSUME IInv, pc \in Changing, op = "setReceiversFromReceiver", master \notin touched
  PROVE  Current # master
<1>1. dev[master].uri # NoUri /\ master \notin wrote
  BY DEF Follows, Shape, Changing, Busy, IInv
<1>2. QED
  BY <1>1 DEF Asked, IInv

LEMMA ChangeKeeps ==
  ASSUME IInv, Change
  PROVE  IInv'
<1>1. pc \in Changing /\ Busy /\ pc # "metadata" /\ i >= 1 /\ wrote' = wrote \cup {Current}
  BY DEF Change, Changing, Busy, Shape, IInv
<1>2. /\ Current \in Renderers /\ dev[Current] \in Device
      /\ st \in State /\ st.index = receiverIndex[Current] /\ st.index \in {0, 1}
  BY <1>1, CurrentFacts DEF IInv, Reads, TypeOK, State
<1>3. Effect(dev[Current]) \in Device
  BY <1>1, <1>2 DEF Effect, Changing, Device, IInv, TypeOK
<1>4. /\ dev' \in {dev, [dev EXCEPT ![Current] = Effect(dev[Current])]}
      /\ receiverIndex' = receiverIndex /\ op' = op /\ rcvs' = rcvs /\ master' = master
      /\ uri' = uri /\ touched' = touched /\ changes' = changes
  BY DEF Change, CallSucceeds, CallFails, callVars, othersVars
<1>5. OnlyCurrent
  <2>1. /\ dev' \in [Renderers -> Device]
        /\ \A q \in Renderers : q # Current => dev'[q] = dev[q]
    BY <1>2, <1>3, <1>4 DEF IInv, TypeOK
  <2>2. op = "setReceiversFromReceiver" /\ master \notin touched =>
          dev'[master] = dev[master] /\ (master \notin wrote => master \notin wrote')
    <3>1. op = "setReceiversFromReceiver" /\ master \notin touched =>
            Current # master /\ master \in Renderers
      BY <1>1, MasterSpared DEF Shape, IInv
    <3>2. QED
      BY <1>1, <2>1, <3>1
  <2>3. QED
    BY <1>1, <1>4, <2>1, <2>2 DEF OnlyCurrent
<1>6. CASE CallFails
  BY <1>1, <1>2, <1>5, <1>6, FinishKeeps DEF CallFails
<1>7. CASE CallSucceeds /\ Following = "none"
  <2>1. /\ pc \in {"play", "setSourceIndex0"} /\ Finish(FALSE)
        /\ dev'[Current] = Effect(dev[Current])
    BY <1>1, <1>2, <1>7 DEF CallSucceeds, Following, Changing, IInv, TypeOK
  <2>2. CASE pc = "play"
    <3>1. op \notin StopOp
      BY <2>2 DEF Shape, IInv
    <3>2. dev'[Current] = [dev[Current] EXCEPT !.playing = TRUE]
      BY <2>1, <2>2 DEF Effect
    <3>3. Current \notin touched =>
            /\ dev'[Current].playing /\ dev'[Current].source = receiverIndex[Current]
            /\ op \in JoinOp => dev'[Current].uri = uri
      BY <1>2, <2>2, <3>2 DEF Progress, IInv, Device
    <3>4. \A q \in Renderers : q = Current => q \in touched \/ Demanded(q)'
      BY <1>1, <1>4, <3>1, <3>3
         DEF Demanded, Connected, JoinOp, StopOp, IInv, TypeOK, GroupOp, OneOp
    <3>5. QED
      BY <1>1, <1>2, <1>5, <2>1, <3>4, FinishKeeps
  <2>3. CASE pc = "setSourceIndex0"
    <3>1. op \in StopOp
      BY <2>3 DEF Shape, IInv
    <3>2. dev'[Current] = [dev[Current] EXCEPT !.source = 0]
      BY <2>1, <2>3 DEF Effect
    <3>3. Current \notin touched => ~dev'[Current].playing /\ dev'[Current].source = 0
      BY <1>2, <2>3, <3>2 DEF Progress, IInv, Device
    <3>4. \A q \in Renderers : q = Current => q \in touched \/ Demanded(q)'
      BY <1>1, <1>4, <3>1, <3>3 DEF Demanded, StopOp
    <3>5. QED
      BY <1>1, <1>2, <1>5, <2>1, <3>4, FinishKeeps
  <2>4. QED
    BY <2>1, <2>2, <2>3
<1>8. CASE CallSucceeds /\ Following # "none"
  <2>1. /\ GoOn(Following, st) /\ pc \in {"setSender", "setSourceIndex", "stop"}
        /\ dev'[Current] = Effect(dev[Current])
    BY <1>1, <1>2, <1>8 DEF CallSucceeds, Following, Changing, IInv, TypeOK
  <2>2. pc' = Following /\ st' = st /\ i' = i /\ Current' = Current
    BY <1>4, <2>1 DEF GoOn, Current
  <2>3. /\ Following \in Changing /\ Following \notin Reading /\ Following # "setSender"
        /\ Following \in {"setSourceIndex", "play"} => op \notin StopOp
        /\ Following \in {"stop", "setSourceIndex0"} => op \in StopOp
    BY <2>1 DEF Following, Changing, Reading, Shape, IInv, JoinOp, StopOp
  <2>4. Reads'
    BY <1>2, <1>4, <2>2, <2>3 DEF Reads, Changing
  <2>5. Asked'
    BY <1>1, <2>2 DEF Asked
  <2>6. Progress'
    <3>1. CASE pc = "setSender"
      <4>1. Following = "setSourceIndex" /\ dev'[Current].uri = uri
        BY <1>2, <2>1, <3>1 DEF Following, Effect, Device
      <4>2. QED
        BY <1>1, <1>4, <2>2, <4>1 DEF Progress
    <3>2. CASE pc = "setSourceIndex"
      <4>1. /\ Following = "play" /\ dev'[Current].source = receiverIndex[Current]
            /\ dev'[Current].uri = dev[Current].uri
        BY <1>2, <2>1, <3>2 DEF Following, Effect, Device
      <4>2. Current \notin touched /\ op \in JoinOp => dev[Current].uri = uri
        BY <3>2 DEF Progress, IInv
      <4>3. QED
        BY <1>1, <1>4, <2>2, <4>1, <4>2 DEF Progress
    <3>3. CASE pc = "stop"
      <4>1. Following = "setSourceIndex0" /\ ~dev'[Current].playing
        BY <1>2, <2>1, <3>3 DEF Following, Effect, Device
      <4>2. QED
        BY <1>1, <1>4, <2>2, <4>1 DEF Progress
    <3>4. QED
      BY <2>1, <3>1, <3>2, <3>3
  <2>7. QED
    BY <1>1, <1>2, <1>5, <2>1, <2>3, <2>4, <2>5, <2>6, GoOnKeeps
<1>9. QED
  BY <1>6, <1>7, <1>8 DEF Change

LEMMA OthersKeep ==
  ASSUME IInv, NEW r \in Renderers, Others(r)
  PROVE  IInv'
<1>1. /\ Busy /\ touched' = touched \cup {r}
      /\ receiverIndex' = receiverIndex /\ pc' = pc /\ op' = op /\ rcvs' = rcvs
      /\ master' = master /\ i' = i /\ st' = st /\ uri' = uri /\ reasons' = reasons
      /\ ret' = ret /\ wrote' = wrote /\ Current' = Current
  BY DEF Others, Busy, callVars, resultVars, Current
<1>2. dev' \in [Renderers -> Device] /\ \A q \in Renderers : q \notin touched' => dev'[q] = dev[q]
  <2>1. dev \in [Renderers -> Device]
    BY DEF IInv, TypeOK
  <2>2. CASE \E n \in {0, 1} : dev' = [dev EXCEPT ![r].source = n]
    BY <1>1, <2>1, <2>2 DEF Device
  <2>3. CASE \E u \in Uris \cup {NoUri} : dev' = [dev EXCEPT ![r].uri = u]
    BY <1>1, <2>1, <2>3 DEF Device
  <2>4. CASE \E b \in BOOLEAN : dev' = [dev EXCEPT ![r].playing = b]
    BY <1>1, <2>1, <2>4 DEF Device
  <2>5. QED
    BY <2>2, <2>3, <2>4 DEF Others
<1>3. Current \in Renderers
  BY <1>1, CurrentFacts DEF IInv
<1>4. TypeOK'
  <2>1. changes' \in 0..MaxChanges
    BY SongcastAssumption DEF Others, IInv, TypeOK
  <2>2. touched' \subseteq Renderers
    BY <1>1 DEF IInv, TypeOK
  <2>3. QED
    BY <1>1, <1>2, <2>1, <2>2 DEF IInv, TypeOK
<1>5. Shape' /\ Fresh' /\ FalseMeansNothingDone'
  BY <1>1 DEF IInv, Shape, Fresh, FalseMeansNothingDone, Busy
<1>6. Reads' /\ Progress' /\ Asked'
  BY <1>1, <1>2, <1>3 DEF IInv, Reads, Progress, Asked
<1>7. Past'
  <2> SUFFICES ASSUME NEW j \in DOMAIN rcvs, ret, j < i, j \notin reasons, rcvs[j] \notin touched'
               PROVE  Demanded(rcvs[j])'
    BY <1>1 DEF Past, Busy
  <2>1. rcvs[j] \in Renderers /\ Demanded(rcvs[j])
    BY <1>1, ListFacts DEF IInv, Past, Busy
  <2>2. dev'[rcvs[j]] = dev[rcvs[j]]
    BY <1>2, <2>1
  <2>3. QED
    BY <1>1, <2>1, <2>2 DEF Demanded, Connected
<1>8. Follows'
  <2>1. op = "setReceiversFromReceiver" => master \in Renderers
    BY <1>1 DEF IInv, Shape
  <2>2. QED
    BY <1>1, <1>2, <2>1 DEF IInv, Follows
<1>9. QED
  BY <1>4, <1>5, <1>6, <1>7, <1>8 DEF IInv

\* A call that has not begun, or had nothing to do.
LEMMA EmptyFacts ==
  /\ <<>> \in Lists /\ Len(<<>>) = 0 /\ DOMAIN <<>> = {}
  /\ \A l \in Lists : l # <<>> => Len(l) >= 1
  /\ NoState \in State
BY SongcastAssumption DEF NoState, State, SCState

LEMMA InitInv == Init => IInv
<1> SUFFICES ASSUME Init PROVE IInv
  OBVIOUS
<1>1. TypeOK
  BY SongcastAssumption, EmptyFacts DEF Init, TypeOK, State, GroupOp, OneOp
<1>2. Shape /\ Reads /\ Progress /\ Asked /\ Follows /\ FalseMeansNothingDone
  BY DEF Init, Shape, Busy, Reads, Progress, Asked, Follows, FalseMeansNothingDone, Changing
<1>3. Fresh /\ Past
  BY DEF Init, Fresh, Past
<1>4. QED
  BY <1>1, <1>2, <1>3 DEF IInv

LEMMA ReturnKeeps ==
  ASSUME IInv, Return
  PROVE  IInv'
<1>1. TypeOK'
  BY SongcastAssumption, EmptyFacts DEF Return, IInv, TypeOK, State, GroupOp, OneOp
<1>2. Shape' /\ Reads' /\ Progress' /\ Asked' /\ Follows' /\ FalseMeansNothingDone'
  BY DEF Return, Shape, Busy, Reads, Progress, Asked, Follows, FalseMeansNothingDone, Changing
<1>3. Fresh' /\ Past'
  BY DEF Return, Fresh, Past
<1>4. QED
  BY <1>1, <1>2, <1>3 DEF IInv

LEMMA CallKeeps ==
  ASSUME IInv, NEW o \in GroupOp \cup OneOp, NEW l \in Lists, NEW m \in Renderers,
         NEW u \in Uris, Call(o, l, m, u)
  PROVE  IInv'
<1>1. /\ op' = o /\ rcvs' = l /\ ret' /\ reasons' = {} /\ wrote' = {}
      /\ receiverIndex' = receiverIndex /\ dev' = dev /\ touched' = touched
      /\ changes' = changes /\ ret' = ret
      /\ master' = IF o = "setReceiversFromReceiver" THEN m ELSE NoRenderer
      /\ uri' \in Uris \cup {NoUri}
      /\ o \in OneOp => Len(l) = 1
  BY DEF Call, IInv, Shape, resultVars, othersVars
<1>2. /\ Len(l) \in Nat /\ DOMAIN l = 1..Len(l)
      /\ \A j \in DOMAIN l : j >= 1
  <2>1. l \in Seq(Renderers)
    BY SongcastAssumption
  <2>2. QED
    BY <2>1
<1>3. \/ l = <<>> /\ pc' = "done" /\ i' = 0
      \/ /\ l # <<>> /\ Len(l) >= 1
         /\ \/ o = "setReceiversFromSender" /\ pc' = "metadata" /\ i' = 1
            \/ o = "setReceiversFromReceiver" /\ pc' = "connect" /\ i' = 0
            \/ /\ o \notin {"setReceiversFromSender", "setReceiversFromReceiver"}
               /\ pc' = "connect" /\ i' = 1
         /\ st' = st
      \/ /\ o \in OneOp /\ l # <<>> /\ Len(l) = 1 /\ l[1] \in Renderers
         /\ pc' \in Changing /\ i' = 1
         /\ receiverIndex[l[1]] # -1 /\ receiverIndex[l[1]] \in {0, 1}
         /\ st' = [NoState EXCEPT !.index = receiverIndex[l[1]]]
         /\ o = "stopReceiver" => pc' = "stop"
         /\ o = "setReceiverPlaying" => pc' = "setSourceIndex"
         /\ o = "setReceiverPlayingUri" => pc' = "setSender"
  <2>1. o \in OneOp /\ l # <<>> => Len(l) = 1 /\ l[1] \in Renderers
    BY <1>1, <1>2, SongcastAssumption
  <2>2. \A r \in Renderers : receiverIndex[r] \in {-1, 0, 1}
    BY SongcastAssumption DEF IInv, TypeOK
  <2>3. o \in OneOp => /\ FirstChange(o) \in Changing
                       /\ o = "stopReceiver" => FirstChange(o) = "stop"
                       /\ o = "setReceiverPlaying" => FirstChange(o) = "setSourceIndex"
                       /\ o = "setReceiverPlayingUri" => FirstChange(o) = "setSender"
    BY DEF FirstChange, OneOp, Changing
  <2>4. l # <<>> => Len(l) >= 1
    BY EmptyFacts
  <2>5. Len(l) = 1 => l # <<>>
    BY EmptyFacts
  <2>6. QED
    BY <1>1, <2>1, <2>2, <2>3, <2>4, <2>5 DEF Call, Begin, Entry, FirstRenderer
<1>4. TypeOK'
  <2>1. i' \in 0..Len(l)
    BY <1>2, <1>3, EmptyFacts
  <2>2. pc' \in RemoteCall \cup {"idle", "done"}
    BY <1>3 DEF RemoteCall, Changing
  <2>3. st' \in State
    <3>1. [NoState EXCEPT !.index = receiverIndex[l[1]]]
            = [state |-> "GENERROR", index |-> receiverIndex[l[1]], uri |-> NoUri]
      BY DEF NoState
    <3>2. CASE st' = st
      BY <3>2 DEF IInv, TypeOK, State
    <3>3. CASE st' # st
      BY <3>1, <3>3, <1>1, <1>3 DEF State, SCState, Call, Begin
    <3>4. QED
      BY <3>2, <3>3
  <2>4. QED
    BY <1>1, <2>1, <2>2, <2>3 DEF IInv, TypeOK, State
<1>5. Shape'
  <2>1. l = <<>> => Len(l) = 0
    BY EmptyFacts
  <2>2. pc' # "idle" /\ (pc' \in Changing => o \in OneOp /\ i' = 1 /\ Len(l) = 1)
    BY <1>3 DEF Changing
  <2>3. pc' # "done" => Len(l) >= 1
    BY <1>3 DEF Changing
  <2>4. /\ pc' = "setSender" => o \in JoinOp
        /\ pc' \in {"setSourceIndex", "play"} => o \notin StopOp
        /\ pc' \in {"stop", "setSourceIndex0"} => o \in StopOp
        /\ i' = 0 /\ pc' # "done" => o = "setReceiversFromReceiver"
        /\ pc' = "metadata" => i' = 1 /\ o = "setReceiversFromSender"
        /\ pc' = "done" => Len(l) = 0
    BY <1>3, <2>1 DEF Changing, JoinOp, StopOp, OneOp
  <2>5. QED
    BY <1>1, <2>2, <2>3, <2>4 DEF Shape, Busy
<1>6. Reads' /\ Progress' /\ Asked'
  <2>1. CASE pc' \in Changing
    <3>1. /\ pc' \in {"stop", "setSourceIndex", "setSender"} /\ o \in OneOp
          /\ pc' = "setSourceIndex" => o = "setReceiverPlaying"
          /\ i' = 1 /\ st'.index = receiverIndex[l[1]] /\ st'.index # -1
      BY <1>3, <2>1 DEF Changing, OneOp, NoState
    <3>2. Current' = l[1]
      BY <1>1, <3>1 DEF Current
    <3>3. Reads'
      BY <1>1, <3>1, <3>2 DEF Reads
    <3>4. Progress' /\ Asked'
      BY <1>1, <3>1 DEF Progress, Asked, OneOp, JoinOp
    <3>5. QED
      BY <3>3, <3>4
  <2>2. CASE pc' \notin Changing
    BY <1>3, <2>2 DEF Reads, Progress, Asked, Changing
  <2>3. QED
    BY <2>1, <2>2
<1>7. Fresh' /\ FalseMeansNothingDone'
  BY <1>1 DEF Fresh, FalseMeansNothingDone
<1>8. Past'
  <2>1. CASE l = <<>>
    BY <1>1, <2>1, EmptyFacts DEF Past
  <2>2. CASE l # <<>>
    <3>1. pc' # "done" /\ (i' = 0 \/ i' = 1)
      BY <1>3, <2>2 DEF Changing
    <3>2. \A j \in DOMAIN l : ~(j < i')
      BY <1>2, <3>1
    <3>3. QED
      BY <1>1, <3>1, <3>2 DEF Past
  <2>3. QED
    BY <2>1, <2>2
<1>9. Follows'
  BY <1>1, <1>3 DEF Follows, OneOp
<1>10. QED
  BY <1>4, <1>5, <1>6, <1>7, <1>8, <1>9 DEF IInv

LEMMA StutterKeeps == IInv /\ UNCHANGED vars => IInv'
<1> SUFFICES ASSUME IInv, UNCHANGED vars PROVE IInv'
  OBVIOUS
<1>1. UNCHANGED <<receiverIndex, dev, pc, op, rcvs, master, i, st, uri, reasons, ret, touched,
                  wrote, changes>>
  BY DEF vars, callVars, resultVars, othersVars
<1>2. Current' = Current
  BY <1>1 DEF Current
<1>3. TypeOK' /\ Shape' /\ Fresh' /\ Follows' /\ FalseMeansNothingDone'
  BY <1>1 DEF IInv, TypeOK, Shape, Fresh, Follows, FalseMeansNothingDone, Busy
<1>4. Reads' /\ Progress' /\ Asked'
  BY <1>1, <1>2 DEF IInv, Reads, Progress, Asked
<1>5. Past'
  BY <1>1 DEF IInv, Past, Demanded, Connected
<1>6. QED
  BY <1>3, <1>4, <1>5 DEF IInv

LEMMA StepKeeps == IInv /\ [Next]_vars => IInv'
<1> SUFFICES ASSUME IInv, [Next]_vars PROVE IInv'
  OBVIOUS
<1>1. ASSUME NEW o \in GroupOp \cup OneOp, NEW l \in Lists, NEW m \in Renderers, NEW u \in Uris,
             Call(o, l, m, u)
      PROVE  IInv'
  BY <1>1, CallKeeps
<1>2. CASE Return
  BY <1>2, ReturnKeeps
<1>3. CASE Metadata
  BY <1>3, MetadataKeeps
<1>4. CASE Connect
  BY <1>4, ConnectKeeps
<1>5. CASE Sender
  BY <1>5, SenderKeeps
<1>6. CASE TransportState
  BY <1>6, TransportStateKeeps
<1>7. CASE Change
  BY <1>7, ChangeKeeps
<1>8. ASSUME NEW r \in Renderers, Others(r)
      PROVE  IInv'
  BY <1>8, OthersKeep
<1>9. CASE UNCHANGED vars
  BY <1>9, StutterKeeps
<1>10. QED
  BY <1>1, <1>2, <1>3, <1>4, <1>5, <1>6, <1>7, <1>8, <1>9 DEF Next, Step

LEMMA Invariant == Spec => []IInv
BY InitInv, StepKeeps, PTL DEF Spec

-----------------------------------------------------------------------------
(* The results.                                                             *)

\* Every variable keeps its type: in particular the helpers never leave their
\* list of renderers.
THEOREM TypeCorrect == Spec => []TypeOK
<1>1. IInv => TypeOK
  BY DEF IInv
<1>2. QED
  BY <1>1, Invariant, PTL

\* A call that returns true with no reason for a renderer that nobody else used
\* has done to it all that was asked.
THEOREM SilentMeansDoneHolds == Spec => []SilentMeansDone
<1>1. IInv => SilentMeansDone
  BY DEF IInv, Past, SilentMeansDone
<1>2. QED
  BY <1>1, Invariant, PTL

\* A helper on a list that returns false has sent no change to any renderer.
THEOREM FalseMeansNothingDoneHolds == Spec => []FalseMeansNothingDone
<1>1. IInv => FalseMeansNothingDone
  BY DEF IInv
<1>2. QED
  BY <1>1, Invariant, PTL

\* The slaves are connected to the sender that the master still plays.
THEOREM FollowsMasterHolds == Spec => []FollowsMaster
<1>1. IInv => FollowsMaster
  <2> SUFFICES ASSUME IInv, rcvs # <<>>, pc = "done", ret PROVE i >= 1
    BY DEF IInv, Follows, FollowsMaster
  <2>1. Len(rcvs) >= 1
    BY EmptyFacts DEF IInv, TypeOK
  <2>2. QED
    BY <2>1 DEF IInv, Shape
<1>2. QED
  BY <1>1, Invariant, PTL

\* A helper begins to change a renderer that nobody else used only if it asks
\* for that.
THEOREM LeavesOthersAloneHolds == Spec => LeavesOthersAlone
<1> DEFINE Leaves == (Current \in wrote' \ (wrote \cup touched)) =>
                       /\ op = "stopReceivers" => dev[Current].uri # NoUri
                       /\ op = "setReceiversFromReceiver" => dev[Current].uri = NoUri
<1>1. IInv /\ [Next]_vars => [Leaves]_vars
  <2> SUFFICES ASSUME IInv, Next, Current \in wrote', Current \notin wrote PROVE pc \in Changing
    BY DEF IInv, Asked
  <2>1. CASE Change
    BY <2>1 DEF Change, Changing
  <2>2. CASE Return
    BY <2>2 DEF Return
  <2>3. CASE ~Change /\ ~Return
    <3>1. wrote' = wrote
      BY <2>3 DEF Next, Step, Call, Metadata, Connect, Sender, TransportState, Others
    <3>2. QED
      BY <3>1
  <2>4. QED
    BY <2>1, <2>2, <2>3
<1>2. QED
  BY <1>1, Invariant, PTL DEF Spec, LeavesOthersAlone

\* The answer of a helper tells what it has done.
THEOREM AnswerTellsHolds == Spec => []AnswerTells
<1>1. SilentMeansDone /\ FalseMeansNothingDone => AnswerTells
  BY DEF AnswerTells
<1>2. QED
  BY <1>1, SilentMeansDoneHolds, FalseMeansNothingDoneHolds, PTL
=============================================================================
