--------------------------- MODULE RevisionedRecord ---------------------------
(***************************************************************************)
(* What the session repository promises of one record: a register that is  *)
(* created once at revision 1, whose every committed change adds an entry  *)
(* to the previous commit and exactly one to its revision, and that, once  *)
(* purged, is never back.                                                  *)
(***************************************************************************)
EXTENDS Integers

CONSTANT Entry   \* the changes callers ask for

VARIABLES
    record,      \* the committed content
    gone         \* was the record purged?

vars == <<record, gone>>

Absent == [state |-> "missing", rev |-> 0, entries |-> {}, purged |-> {}]

Init == record = Absent /\ gone = FALSE

Create ==
    /\ record = Absent /\ ~gone
    /\ \E e \in Entry :
          record' = [state |-> "valid", rev |-> 1, entries |-> {e}, purged |-> {}]
    /\ UNCHANGED gone

Changed(added, tombstones) ==
    [state |-> "valid", rev |-> record.rev + 1,
     entries |-> record.entries \cup added, purged |-> record.purged \cup tombstones]

Commit ==
    /\ record.state = "valid"
    /\ \E e \in Entry :
          \/ record' = Changed({e}, {})
          \/ e \in record.entries /\ record' = Changed({}, {e})
    /\ UNCHANGED gone

Purge ==
    /\ record.state = "valid"
    /\ record' = Absent
    /\ gone' = TRUE

Next == Create \/ Commit \/ Purge

Spec == Init /\ [][Next]_vars
=============================================================================
