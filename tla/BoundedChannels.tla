-------------------------- MODULE BoundedChannels ---------------------------
(***************************************************************************)
(* What queuing ports and buffers promise: each is a FIFO of at most       *)
(* Capacity[c] messages.  A message that does not fit is offered until it  *)
(* is accepted, once, or withdrawn, never both; a message that is accepted *)
(* is received once, in the order of acceptance.                           *)
(***************************************************************************)
EXTENDS Integers, Sequences

CONSTANTS Channel, Process, Message, Nothing, Capacity

VARIABLES
  queue,  \* per channel, the messages accepted and not received
  offer,  \* the message that each process waits to have accepted, or Nothing
  taken   \* the message received last and by which process, or Nothing

None == [i \in Process |-> Nothing]

Took(i, m) == [by |-> i, message |-> m]

Init ==
  /\ queue = [c \in Channel |-> <<>>]
  /\ offer = [c \in Channel |-> None]
  /\ taken = [c \in Channel |-> Nothing]

Accept(c, m) ==
  /\ Len(queue[c]) < Capacity[c]
  /\ queue' = [queue EXCEPT ![c] = Append(@, m)]
  /\ UNCHANGED <<offer, taken>>

Offer(c, i, m) ==
  /\ Len(queue[c]) = Capacity[c] /\ offer[c][i] = Nothing
  /\ offer' = [offer EXCEPT ![c][i] = m]
  /\ UNCHANGED <<queue, taken>>

Withdraw(S) ==
  /\ offer' = [c \in Channel |->
                [i \in Process |-> IF i \in S THEN Nothing ELSE offer[c][i]]]
  /\ UNCHANGED <<queue, taken>>

Receive(c, i) ==
  /\ queue[c] # <<>> /\ offer[c] = None
  /\ queue' = [queue EXCEPT ![c] = Tail(@)]
  /\ taken' = [taken EXCEPT ![c] = Took(i, Head(queue[c]))]
  /\ UNCHANGED offer

\* A slot that becomes free goes to an offered message before any new one.
ReceiveAndAccept(c, i, j) ==
  /\ queue[c] # <<>> /\ offer[c][j] # Nothing
  /\ queue' = [queue EXCEPT ![c] = Append(Tail(@), offer[c][j])]
  /\ offer' = [offer EXCEPT ![c][j] = Nothing]
  /\ taken' = [taken EXCEPT ![c] = Took(i, Head(queue[c]))]

\* A message for a receiver that waits overtakes none.
PassOn(c, i, m) ==
  /\ queue[c] = <<>>
  /\ taken' = [taken EXCEPT ![c] = Took(i, m)]
  /\ UNCHANGED <<queue, offer>>

Next ==
  \/ \E c \in Channel, i \in Process :
       \/ Receive(c, i)
       \/ \E j \in Process : ReceiveAndAccept(c, i, j)
       \/ \E m \in Message : Accept(c, m) \/ Offer(c, i, m) \/ PassOn(c, i, m)
  \/ \E S \in SUBSET Process : Withdraw(S)

Spec == Init /\ [][Next]_<<queue, offer, taken>>
=============================================================================
