-------------------------------- MODULE Inbox --------------------------------
(***************************************************************************)
(* What complete_upload (crates/transport/src/file_transfer.rs) promises   *)
(* of the Inbox, whatever happens between its awaits: a completed upload   *)
(* appears in one step, whole, under the first free name, at most once,    *)
(* and is counted after it is there and never twice.                       *)
(***************************************************************************)
EXTENDS Naturals, FiniteSets

CONSTANTS Files,   \* staging files
          Whole,   \* the content of a completed upload
          Slots,   \* Inbox paths of one name, in the order they are tried
          None

VARIABLES inbox,      \* slot -> the file there
          delivered,  \* the staging files that were delivered
          completed   \* uploads_completed

Init ==
    /\ inbox = [d \in Slots |-> None]
    /\ delivered = {}
    /\ completed = 0

FirstFree(d) ==
    /\ inbox[d] = None
    /\ \A e \in Slots : inbox[e] = None => d <= e

Deliver(f, d) ==
    /\ f \notin delivered
    /\ FirstFree(d)
    /\ inbox' = [inbox EXCEPT ![d] = [ino |-> f, data |-> Whole]]
    /\ delivered' = delivered \cup {f}
    /\ UNCHANGED completed

Acknowledge ==
    /\ completed < Cardinality(delivered)
    /\ completed' = completed + 1
    /\ UNCHANGED <<inbox, delivered>>

Next == Acknowledge \/ \E f \in Files, d \in Slots : Deliver(f, d)

Spec == Init /\ [][Next]_<<inbox, delivered, completed>>
==============================================================================
