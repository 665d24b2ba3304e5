----------------------------- MODULE EventRelay -----------------------------
(* What the webhook relay promises, whoever runs it and however often it is   *)
(* interrupted: the events of the program are settled (delivered, or given up *)
(* after bounded attempts) one after the other, in the order the chain        *)
(* recorded them, with none skipped and, in the end, none left.               *)
EXTENDS Naturals, Sequences

CONSTANTS MaxTx,     \* how many transactions of the program there will be
          MaxEvents  \* how many events a transaction emits at most

VARIABLES
  chain,   \* the program's transactions, each as the number of its events
  settled  \* the events <<transaction, index>> a receiver has been offered

relayVars == <<chain, settled>>

Events == {e \in (1..Len(chain)) \X (1..MaxEvents) : e[2] <= chain[e[1]]}

Earlier(e, f) == e[1] < f[1] \/ (e[1] = f[1] /\ e[2] < f[2])

Init == chain = <<>> /\ settled = {}

Publish(n) ==
  /\ Len(chain) < MaxTx
  /\ chain' = Append(chain, n)
  /\ UNCHANGED settled

(* The oldest event that is not settled yet. *)
Settle(e) ==
  /\ e \in Events \ settled
  /\ \A f \in Events : Earlier(f, e) => f \in settled
  /\ settled' = settled \cup {e}
  /\ UNCHANGED chain

Next ==
  \/ \E n \in 0..MaxEvents : Publish(n)
  \/ \E e \in Events : Settle(e)

Spec == Init /\ [][Next]_relayVars /\ WF_relayVars(\E e \in Events : Settle(e))
=============================================================================
