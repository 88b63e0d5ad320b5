------------------------------- MODULE Songcast -------------------------------
(***************************************************************************)
(* The Songcast helpers, libupnpp/control/linnsongcast.cxx: a program      *)
(* connects renderers to a sender, or to the sender that a master renderer *)
(* already plays, disconnects them, or has them play.  Each is a sequence  *)
(* of calls to the Product and Receiver services of one renderer after the *)
(* other, of which every one can fail, while other control points use the  *)
(* renderers too.                                                          *)
(*                                                                         *)
(* One call of the helpers is modelled at a time, with one step for each   *)
(* remote call that reads or changes what matters here.  A helper has no   *)
(* state of its own: another thread of the same program is another control *)
(* point.  The program does not name a renderer twice in a list.           *)
(*                                                                         *)
(* A definition named Operation_Fault is a mutated form of Operation: the  *)
(* properties are tested by checking that they fail with it.               *)
(***************************************************************************)
EXTENDS Functions, Integers, Sequences

CONSTANTS
  Renderers,   \* the renderers the program names
  Uris,        \* the streams of the senders
  NoUri,       \* the sender of a receiver that is not connected: ""
  Lists,       \* the lists of renderers that the program passes
  NoRenderer,  \* no master
  Places,      \* the places of the Receiver in the sources, -1 for none
  MaxChanges   \* bound: what other control points do while a call executes

ASSUME SongcastAssumption ==
  /\ NoUri \notin Uris /\ NoRenderer \notin Renderers
  /\ Places \subseteq {-1, 0, 1}
  /\ Lists \subseteq Seq(Renderers) /\ <<>> \in Lists
  /\ \A l \in Lists : IsInjective(l)
  /\ MaxChanges \in Nat

VARIABLES
  receiverIndex, \* the place of the Receiver in the sources of a renderer
  dev,           \* what each renderer does: its source, its sender, is it playing?
  pc,            \* the remote call to be made next
  op,            \* the helper that executes
  rcvs,          \* its list of renderers
  master,        \* the renderer that setReceiversFromReceiver() copies
  i,             \* the renderer that it is at, or 0: the master
  st,            \* what getReceiverState() found of that one
  uri,           \* the stream to connect to
  reasons,       \* the renderers whose reason is set
  ret,           \* what it returned
  touched,       \* history: the renderers that others changed in the meantime
  wrote,         \* history: the renderers that it sent a change to itself
  changes        \* what others did so far

callVars == <<op, rcvs, master>>
resultVars == <<reasons, ret>>
othersVars == <<touched, changes>>
vars == <<receiverIndex, dev, pc, callVars, i, st, uri, resultVars, othersVars, wrote>>

GroupOp == {"setReceiversFromSender", "setReceiversFromReceiver", "stopReceivers",
            "setReceiversPlaying"}
OneOp == {"setReceiverPlaying", "setReceiverPlayingUri", "stopReceiver"}
SCState == {"GENERROR", "NOOH", "NOTRECEIVER", "STOPPED", "PLAYING"}
RemoteCall == {"metadata", "connect", "sender", "transportState", "setSender",
               "setSourceIndex", "play", "stop", "setSourceIndex0"}
Device == [source : {0, 1}, uri : Uris \cup {NoUri}, playing : BOOLEAN]
NoState == [state |-> "GENERROR", index |-> -1, uri |-> NoUri]

TypeOK ==
  /\ receiverIndex \in [Renderers -> Places]
  /\ dev \in [Renderers -> Device]
  /\ pc \in RemoteCall \cup {"idle", "done"}
  /\ op \in GroupOp \cup OneOp
  /\ rcvs \in Lists
  /\ master \in Renderers \cup {NoRenderer}
  /\ i \in 0..Len(rcvs)
  /\ st \in [state : SCState, index : {-1, 0, 1}, uri : Uris \cup {NoUri}]
  /\ uri \in Uris \cup {NoUri}
  /\ reasons \subseteq DOMAIN rcvs
  /\ ret \in BOOLEAN
  /\ touched \subseteq Renderers /\ wrote \subseteq Renderers
  /\ changes \in 0..MaxChanges

\* The renderers are as other control points and their users left them.
Init ==
  /\ receiverIndex \in [Renderers -> Places]
  /\ dev \in [Renderers -> Device]
  /\ pc = "idle"
  /\ op = "stopReceiver" /\ rcvs = <<>> /\ master = NoRenderer
  /\ i = 0 /\ st = NoState /\ uri = NoUri
  /\ reasons = {} /\ ret = TRUE
  /\ touched = {} /\ wrote = {} /\ changes = 0

-----------------------------------------------------------------------------
(* The calls of the program.                                                *)

\* The first thing that each of them does.
Entry(o) == IF o = "setReceiversFromSender" THEN "metadata" ELSE "connect"
FirstRenderer(o) == IF o = "setReceiversFromReceiver" THEN 0 ELSE 1

FirstChange(o) ==
  CASE o \in {"stopReceivers", "stopReceiver"} -> "stop"
    [] o \in {"setReceiversPlaying", "setReceiverPlaying"} -> "setSourceIndex"
    [] OTHER -> "setSender"

\* getReceiverState() is called unless the program passes a state that has the
\* handles of the services already, from a call of its own.
Begin(o, l) ==
  \/ l = <<>> /\ pc' = "done" /\ i' = 0 /\ UNCHANGED st
  \/ l # <<>> /\ pc' = Entry(o) /\ i' = FirstRenderer(o) /\ UNCHANGED st
  \/ /\ o \in OneOp /\ receiverIndex[l[1]] # -1
     /\ pc' = FirstChange(o) /\ i' = 1
     /\ st' = [NoState EXCEPT !.index = receiverIndex[l[1]]]

Call(o, l, m, u) ==
  /\ pc = "idle"
  /\ o \in OneOp => Len(l) = 1
  /\ op' = o /\ rcvs' = l
  /\ master' = IF o = "setReceiversFromReceiver" THEN m ELSE NoRenderer
  /\ uri' = IF o = "setReceiverPlayingUri" THEN u ELSE NoUri
  /\ Begin(o, l)
  /\ UNCHANGED <<receiverIndex, dev, resultVars, othersVars, wrote>>

\* The program has seen what the call returned: nothing else is left of it.
Return ==
  /\ pc = "done"
  /\ pc' = "idle"
  /\ op' = "stopReceiver" /\ rcvs' = <<>> /\ master' = NoRenderer
  /\ i' = 0 /\ st' = NoState /\ uri' = NoUri
  /\ reasons' = {} /\ ret' = TRUE
  /\ touched' = {} /\ wrote' = {} /\ changes' = 0
  /\ UNCHANGED <<receiverIndex, dev>>

InitialError ==
  /\ pc' = "done" /\ ret' = FALSE /\ reasons' = {1}
  /\ UNCHANGED <<i, uri, st>>

\* getSender() and OHSender::metadata().
Metadata ==
  /\ pc = "metadata"
  /\ \/ InitialError
     \/ \E u \in Uris : uri' = u /\ pc' = "connect" /\ UNCHANGED <<i, st, resultVars>>
  /\ UNCHANGED <<receiverIndex, dev, callVars, othersVars, wrote>>

-----------------------------------------------------------------------------
(* The end of the work on a renderer.                                       *)

Finish_Beyond(failed) ==
  /\ reasons' = IF failed THEN reasons \cup {i} ELSE reasons
  /\ ret' = (ret /\ ~(failed /\ op \in OneOp))
  /\ st' = NoState
  /\ IF i <= Len(rcvs) THEN i' = i + 1 /\ pc' = "connect"
                       ELSE i' = i /\ pc' = "done"

Finish_ReturnsFalse(failed) ==
  /\ reasons' = IF failed THEN reasons \cup {i} ELSE reasons
  /\ ret' = (ret /\ ~failed)
  /\ st' = NoState
  /\ IF i < Len(rcvs) THEN i' = i + 1 /\ pc' = "connect"
                      ELSE i' = i /\ pc' = "done"

\* setReceiverPlaying() and stopReceiver() return whether they could.
Finish(failed) ==
  /\ reasons' = IF failed THEN reasons \cup {i} ELSE reasons
  /\ ret' = (ret /\ ~(failed /\ op \in OneOp))
  /\ st' = NoState
  /\ IF i < Len(rcvs) THEN i' = i + 1 /\ pc' = "connect"
                      ELSE i' = i /\ pc' = "done"

GoOn(call, state) ==
  pc' = call /\ st' = state /\ UNCHANGED <<i, resultVars>>

-----------------------------------------------------------------------------
(* getReceiverState(), and what is done with what it found.                 *)

Current == IF i = 0 THEN master ELSE rcvs[i]

LeavesAlone_OnlyPlaying(state) ==
  \/ op = "stopReceivers" /\ state = "NOTRECEIVER"
  \/ op = "setReceiversFromReceiver" /\ state = "PLAYING"

\* The renderers in this state that the helper leaves as they are.
LeavesAlone(state) ==
  \/ op = "stopReceivers" /\ state = "NOTRECEIVER"
  \/ op = "setReceiversFromReceiver" /\ state \in {"STOPPED", "PLAYING"}

MasterFound_Connected(new) ==
  IF new.state \notin {"STOPPED", "PLAYING"}
    THEN InitialError
    ELSE pc' = "connect" /\ i' = 1 /\ uri' = new.uri /\ st' = NoState /\ UNCHANGED resultVars

MasterFound(new) ==
  IF new.state # "PLAYING"
    THEN InitialError
    ELSE pc' = "connect" /\ i' = 1 /\ uri' = new.uri /\ st' = NoState /\ UNCHANGED resultVars

\* live: the handles of the services are there, whatever the state.
SlaveFound(new, live) ==
  /\ IF op \in OneOp /\ live THEN GoOn(FirstChange(op), new)
     ELSE IF new.state \in {"GENERROR", "NOOH"} THEN Finish(TRUE)
     ELSE IF LeavesAlone(new.state) THEN Finish(FALSE)
     ELSE GoOn(FirstChange(op), new)
  /\ UNCHANGED uri

Found(new, live) == IF i = 0 THEN MasterFound(new) ELSE SlaveFound(new, live)

\* From the look up in the directory to the creation of the OHReceiver.
Connect ==
  /\ pc = "connect"
  /\ \/ Found(NoState, FALSE)
     \/ /\ receiverIndex[Current] = -1
        /\ Found([NoState EXCEPT !.state = "NOOH"], FALSE)
     \/ /\ receiverIndex[Current] # -1
        /\ GoOn("sender", [NoState EXCEPT !.index = receiverIndex[Current]])
        /\ UNCHANGED uri
  /\ UNCHANGED <<receiverIndex, dev, callVars, othersVars, wrote>>

Sender ==
  /\ pc = "sender"
  /\ \/ Found(st, TRUE)
     \/ /\ dev[Current].uri = NoUri
        /\ Found([st EXCEPT !.state = "NOTRECEIVER"], TRUE)
     \/ /\ dev[Current].uri # NoUri
        /\ GoOn("transportState", [st EXCEPT !.uri = dev[Current].uri])
        /\ UNCHANGED uri
  /\ UNCHANGED <<receiverIndex, dev, callVars, othersVars, wrote>>

TransportState ==
  /\ pc = "transportState"
  /\ \/ Found(st, TRUE)
     \/ Found([st EXCEPT !.state = IF dev[Current].playing THEN "PLAYING" ELSE "STOPPED"], TRUE)
  /\ UNCHANGED <<receiverIndex, dev, callVars, othersVars, wrote>>

-----------------------------------------------------------------------------
(* setReceiverPlaying() and stopReceiver().                                 *)

\* What the renderer does with the call.
Effect(d) ==
  CASE pc = "setSender" -> [d EXCEPT !.uri = uri]
    [] pc = "setSourceIndex" -> [d EXCEPT !.source = st.index]
    [] pc = "setSourceIndex0" -> [d EXCEPT !.source = 0]
    [] pc = "play" -> [d EXCEPT !.playing = TRUE]
    [] pc = "stop" -> [d EXCEPT !.playing = FALSE]

Following ==
  CASE pc = "setSender" -> "setSourceIndex"
    [] pc = "setSourceIndex" -> "play"
    [] pc = "stop" -> "setSourceIndex0"
    [] OTHER -> "none"

CallSucceeds ==
  /\ dev' = [dev EXCEPT ![Current] = Effect(@)]
  /\ IF Following = "none" THEN Finish(FALSE) ELSE GoOn(Following, st)

CallFails_NotTold ==
  /\ dev' \in {dev, [dev EXCEPT ![Current] = Effect(@)]}
  /\ Finish(pc # "setSourceIndex0")

\* A call that fails may have been executed: only the response was lost.
CallFails ==
  /\ dev' \in {dev, [dev EXCEPT ![Current] = Effect(@)]}
  /\ Finish(TRUE)

Change ==
  /\ pc \in {"setSender", "setSourceIndex", "setSourceIndex0", "play", "stop"}
  /\ CallSucceeds \/ CallFails
  /\ wrote' = wrote \cup {Current}
  /\ UNCHANGED <<receiverIndex, callVars, uri, othersVars>>

-----------------------------------------------------------------------------
(* Other control points, and the users of the renderers.                    *)

Others(r) ==
  /\ pc \notin {"idle", "done"}
  /\ changes < MaxChanges
  /\ \/ \E n \in {0, 1} : dev' = [dev EXCEPT ![r].source = n]
     \/ \E u \in Uris \cup {NoUri} : dev' = [dev EXCEPT ![r].uri = u]
     \/ \E b \in BOOLEAN : dev' = [dev EXCEPT ![r].playing = b]
  /\ touched' = touched \cup {r}
  /\ changes' = changes + 1
  /\ UNCHANGED <<receiverIndex, pc, callVars, i, st, uri, resultVars, wrote>>

Step == Metadata \/ Connect \/ Sender \/ TransportState \/ Change

Next ==
  \/ \E o \in GroupOp \cup OneOp, l \in Lists, m \in Renderers, u \in Uris : Call(o, l, m, u)
  \/ Return
  \/ Step
  \/ \E r \in Renderers : Others(r)

Spec == Init /\ [][Next]_vars

-----------------------------------------------------------------------------
(* Properties.                                                              *)

Connected(r) ==
  /\ dev[r].playing
  /\ dev[r].source = receiverIndex[r]
  /\ dev[r].uri = uri

\* What the program asked of a renderer of its list.
Demanded(r) ==
  CASE op = "stopReceivers" ->
         IF r \in wrote THEN ~dev[r].playing /\ dev[r].source = 0 ELSE dev[r].uri = NoUri
    [] op = "setReceiversFromReceiver" ->
         IF r \in wrote THEN Connected(r) ELSE dev[r].uri # NoUri
    [] op = "stopReceiver" -> ~dev[r].playing /\ dev[r].source = 0
    [] op \in {"setReceiversPlaying", "setReceiverPlaying"} ->
         dev[r].playing /\ dev[r].source = receiverIndex[r]
    [] OTHER -> Connected(r)

\* Errors are indicated by a reason (linnsongcast.hxx): when a call has
\* returned true, each renderer of its list without a reason, unless somebody
\* else used it in the meantime, does all that was asked: it plays the stream
\* from its Receiver source, or is stopped and back to its first source,
\* whichever of the remote calls failed for this renderer or for another one.
\* The helpers on lists may leave it as it was: one that is no receiver is not
\* to be stopped, and one that is a receiver already keeps its sender.
SilentMeansDone ==
  pc = "done" /\ ret =>
    \A j \in DOMAIN rcvs : j \notin reasons /\ rcvs[j] \notin touched => Demanded(rcvs[j])

\* False is for an initial error: setReceiversFromSender() and
\* setReceiversFromReceiver() have then sent no change to any renderer, and said
\* why in the first reason.
FalseMeansNothingDone ==
  pc = "done" /\ op \in GroupOp /\ ~ret => wrote = {} /\ reasons = {1}

\* What the helpers answer tells what they have done, by renderer and as a whole.
AnswerTells == SilentMeansDone /\ FalseMeansNothingDone

\* setReceiversFromReceiver() connects the slaves to the sender that the master
\* plays, which it reads with two calls, before the slaves: unless somebody else
\* used the master, it still plays that sender when the call returns, even if
\* it is in the list of the slaves.
FollowsMaster ==
  pc = "done" /\ op = "setReceiversFromReceiver" /\ ret /\ rcvs # <<>> /\ master \notin touched =>
    dev[master].playing /\ dev[master].uri = uri

\* What a helper finds when it reads the state is not changed when it should be
\* left alone: stopReceivers() does not stop a renderer that is no receiver,
\* and may play something else, and setReceiversFromReceiver() does not take a
\* receiver from the sender it is connected to, unless somebody else used the
\* renderer between the call of the helper and this change.
LeavesOthersAlone ==
  [][(Current \in wrote' \ (wrote \cup touched)) =>
       /\ op = "stopReceivers" => dev[Current].uri # NoUri
       /\ op = "setReceiversFromReceiver" => dev[Current].uri = NoUri]_vars
=============================================================================
