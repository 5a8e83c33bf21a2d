------------------------- MODULE EventStreamContract -------------------------
(***************************************************************************)
(* What one subscription promises its caller (spec.md sections 4.3, 4.4,  *)
(* 5 and 8), independent of channels, tasks and frames:                   *)
(*   - the caller is handed the events the broker published on this       *)
(*     connection, in publish order, each once;                           *)
(*   - the sequence ends only after the connection is gone and every      *)
(*     event published on it has been handed over;                        *)
(*   - the ack/nack frames written to the broker are the caller's         *)
(*     decisions, in the order they were made (a suffix may be lost).    *)
(* EventStream is checked to implement this module.                      *)
(***************************************************************************)
EXTENDS Naturals, Sequences, SequencesExt

CONSTANTS EventIds,     \* identifiers the broker may assign to events
          DecisionKinds \* {"ack", "nack"}

VARIABLES published,    \* event ids the broker sent on this connection
          delivered,    \* event ids handed to the caller, in order
          connOpen,     \* the broker may still send on this connection
          streamEnded,  \* the caller has seen the end of the sequence
          decisions,    \* the caller's ack/nack decisions, in order
          ackFrames     \* ack/nack frames written to the broker, in order

vars == <<published, delivered, connOpen, streamEnded, decisions, ackFrames>>

Decision == [kind : DecisionKinds, id : EventIds]

Init ==
    /\ published = <<>>
    /\ delivered = <<>>
    /\ connOpen = TRUE
    /\ streamEnded = FALSE
    /\ decisions = <<>>
    /\ ackFrames = <<>>

Publish(e) ==
    /\ connOpen
    /\ published' = Append(published, e)
    /\ UNCHANGED <<delivered, connOpen, streamEnded, decisions, ackFrames>>

CloseConnection ==
    /\ connOpen
    /\ connOpen' = FALSE
    /\ UNCHANGED <<published, delivered, streamEnded, decisions, ackFrames>>

\* The next published event is handed to the caller.
Deliver ==
    /\ ~streamEnded
    /\ Len(delivered) < Len(published)
    /\ delivered' = Append(delivered, published[Len(delivered) + 1])
    /\ UNCHANGED <<published, connOpen, streamEnded, decisions, ackFrames>>

\* The sequence ends: nothing more can arrive and nothing is left over.
EndStream ==
    /\ ~streamEnded
    /\ ~connOpen
    /\ delivered = published
    /\ streamEnded' = TRUE
    /\ UNCHANGED <<published, delivered, connOpen, decisions, ackFrames>>

\* The caller decides about an event it was handed.
Decide(d) ==
    /\ d.id \in Range(delivered)
    /\ decisions' = Append(decisions, d)
    /\ UNCHANGED <<published, delivered, connOpen, streamEnded, ackFrames>>

\* The oldest decision not yet on the wire is written.
TransmitDecision ==
    /\ Len(ackFrames) < Len(decisions)
    /\ ackFrames' = Append(ackFrames, decisions[Len(ackFrames) + 1])
    /\ UNCHANGED <<published, delivered, connOpen, streamEnded, decisions>>

Next ==
    \/ \E e \in EventIds : Publish(e)
    \/ CloseConnection
    \/ Deliver
    \/ EndStream
    \/ \E d \in Decision : Decide(d)
    \/ TransmitDecision

Spec == Init /\ [][Next]_vars

=============================================================================
