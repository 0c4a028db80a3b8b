----------------------------- MODULE ChatQueue -----------------------------
(***************************************************************************)
(* What LAWS/CHAT.md promises of one chat's message queue: messages enter  *)
(* it in the order they are accepted, keep their places, and leave it from *)
(* the front as one user turn each, or because the user removed them.      *)
(* Nothing is said of who dispatches a message, how often that is tried,   *)
(* or which component is mounted.  ComposerQueue implements this.          *)
(*                                                                         *)
(* Messages are numbered in the order in which they were accepted.         *)
(***************************************************************************)
EXTENDS Naturals, SequencesExt

CONSTANT Texts  \* what a message, as last edited, may say

VARIABLES queue,     \* messages not yet dispatched
          turns,     \* the user turns of the session, in order
          accepted,  \* how many messages were accepted
          removed,   \* messages the user removed
          ready      \* the session can begin processing a message

vars == <<queue, turns, accepted, removed, ready>>

Messages == Nat \ {0}
\* A held message is being edited, or its workspace is not ready yet.
Entry == [id : Messages, text : Texts, held : BOOLEAN]
Turn  == [id : Messages, text : Texts]

TypeOK ==
  /\ queue \in Seq(Entry)
  /\ turns \in Seq(Turn)
  /\ accepted \in Nat
  /\ removed \in SUBSET Messages
  /\ ready \in BOOLEAN
-----------------------------------------------------------------------------
\* The queue a previous run of the program left behind may not be empty.
Init ==
  /\ accepted \in Nat
  /\ queue \in [1..accepted -> Entry]
  /\ \A i \in 1..accepted : queue[i].id = i
  /\ turns = <<>>
  /\ removed = {}
  /\ ready \in BOOLEAN

\* "MUST queue accepted messages into the selected chat's queue in their
\* acceptance order"
Accept(text, held) ==
  /\ accepted' = accepted + 1
  /\ queue' = Append(queue, [id |-> accepted + 1, text |-> text, held |-> held])
  /\ UNCHANGED <<turns, removed, ready>>

\* "A user edit to a message in a chat's queue MUST NOT change that message's
\* position in the queue"
Revise(i, text, held) ==
  /\ queue' = [queue EXCEPT ![i] = [id |-> @.id, text |-> text, held |-> held]]
  /\ UNCHANGED <<turns, accepted, removed, ready>>

\* "MUST remove only the selected message from that queue"
Withdraw(i) ==
  /\ queue' = RemoveAt(queue, i)
  /\ removed' = removed \cup {queue[i].id}
  /\ UNCHANGED <<turns, accepted, ready>>

\* The first message becomes a user turn.
Deliver ==
  /\ queue # <<>>
  /\ queue' = Tail(queue)
  /\ turns' = Append(turns, [id |-> Head(queue).id, text |-> Head(queue).text])
  /\ UNCHANGED <<accepted, removed>>

\* "A message MUST NOT be dispatched from the queue until its session is ready"
Dispatch ==
  /\ ready /\ queue # <<>> /\ ~Head(queue).held
  /\ Deliver
  /\ ready' = FALSE

\* A steered message joins the turn that is running.
Steer == Deliver /\ UNCHANGED ready

SetReady ==
  /\ ready' = ~ready
  /\ UNCHANGED <<queue, turns, accepted, removed>>

Next ==
  \/ \E text \in Texts, held \in BOOLEAN : Accept(text, held)
  \/ \E i \in DOMAIN queue, text \in Texts, held \in BOOLEAN : Revise(i, text, held)
  \/ \E i \in DOMAIN queue : Withdraw(i)
  \/ Dispatch \/ Steer \/ SetReady

Spec == Init /\ [][Next]_vars
-----------------------------------------------------------------------------
Ids(s) == {s[i].id : i \in DOMAIN s}

\* "MUST NOT dispatch a message before every message ahead of it" and "MUST NOT
\* dispatch a message in a way that creates more than one user turn": turns and
\* queue, read one after the other, are in the order of acceptance.
InOrder ==
  /\ \A i, j \in DOMAIN turns : i < j => turns[i].id < turns[j].id
  /\ \A i, j \in DOMAIN queue : i < j => queue[i].id < queue[j].id
  /\ \A i \in DOMAIN turns, j \in DOMAIN queue : turns[i].id < queue[j].id

\* "MUST NOT dequeue a message before that chat's session begins processing it":
\* an accepted message is queued, or it is a user turn, or the user removed it.
NothingLost ==
  /\ Ids(queue) \cup Ids(turns) \cup removed = 1..accepted
  /\ removed \cap (Ids(queue) \cup Ids(turns)) = {}
=============================================================================
