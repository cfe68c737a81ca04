----------------------------- MODULE ReportQueue -----------------------------
(***************************************************************************)
(* What the buffer of a buffered report control block promises, without    *)
(* the memory it lives in: reports are kept and transmitted in the order   *)
(* they were made, none is transmitted twice, and a report is dropped only *)
(* from the old end, while room is made for a new one, or by a purge.      *)
(***************************************************************************)
EXTENDS Integers, Sequences

CONSTANT MaxReports     \* bound on the number of reports made

VARIABLES queue,        \* numbers of the reports that are kept, oldest first
          unsent,       \* how many of them, at the end, are to be transmitted
          made,         \* number of reports made so far
          sent,         \* number of the last report transmitted
          making        \* a report is being put into the buffer

qvars == <<queue, unsent, made, sent, making>>

Init == queue = <<>> /\ unsent = 0 /\ made = 0 /\ sent = 0 /\ making = FALSE

\* The k oldest reports are dropped.
Drop(k) ==
    /\ queue' = SubSeq(queue, k + 1, Len(queue))
    /\ unsent' = IF unsent > Len(queue) - k THEN Len(queue) - k ELSE unsent

\* A report is to be put into the buffer; only now reports may be dropped.
Begin ==
    /\ ~making /\ made < MaxReports
    /\ making' = TRUE
    /\ \E k \in 0 .. Len(queue) : Drop(k)
    /\ UNCHANGED <<made, sent>>

Overflow ==
    /\ making
    /\ \E k \in 1 .. Len(queue) : Drop(k)
    /\ UNCHANGED <<made, sent, making>>

Enqueue ==
    /\ making
    /\ queue' = Append(queue, made + 1)
    /\ unsent' = unsent + 1
    /\ made' = made + 1
    /\ making' = FALSE
    /\ UNCHANGED sent

\* A report larger than the whole buffer is not kept.
Skip ==
    /\ ~making /\ made < MaxReports
    /\ made' = made + 1
    /\ UNCHANGED <<queue, unsent, sent, making>>

Transmit ==
    /\ ~making /\ unsent > 0
    /\ sent' = queue[Len(queue) - unsent + 1]
    /\ unsent' = unsent - 1
    /\ UNCHANGED <<queue, made, making>>

Purge ==
    /\ ~making
    /\ queue' = <<>> /\ unsent' = 0
    /\ UNCHANGED <<made, sent, making>>

Next == Begin \/ Overflow \/ Enqueue \/ Skip \/ Transmit \/ Purge

Spec == Init /\ [][Next]_qvars
=============================================================================
