----------------------------- MODULE BackupLedger -----------------------------
(***************************************************************************)
(* What the backup queue promises, without workers, timers, statements or  *)
(* faults: every job is an entry of a ledger.  An entry is sent by at most *)
(* one sender, only an entry in flight can become stored, and stored is    *)
(* final.  Requests, failures and restarts move entries between queued,    *)
(* sending and parked, but never reopen one that is still in flight.       *)
(***************************************************************************)
CONSTANT Entries

VARIABLES
    entry,      \* the state of each entry
    flight      \* the entries a sender is working on

vars == <<entry, flight>>

\* noted: a mirror's completion without a verified copy
States == {"absent", "queued", "sending", "parked", "noted", "stored"}

TypeOK ==
    /\ entry \in [Entries -> States]
    /\ flight \subseteq Entries

Init ==
    /\ entry = [e \in Entries |-> "absent"]
    /\ flight = {}

\* New jobs, pause, resume, retry, cancel, opt-out, reconcile: any number of
\* entries at once.
Requested(e) ==
    \/ entry[e] = "absent"  /\ entry'[e] \in {"queued", "parked"}
    \/ entry[e] = "queued"  /\ entry'[e] = "parked"
    \/ entry[e] = "parked"  /\ entry'[e] = "queued" /\ e \notin flight
    \/ entry[e] = "sending" /\ entry'[e] = "parked"

Request ==
    /\ entry' \in [Entries -> States]
    /\ \A e \in Entries : entry'[e] = entry[e] \/ Requested(e)
    /\ UNCHANGED flight

\* A sender takes a queued entry, or takes it and is lost.
Dispatch(e) ==
    /\ entry[e] = "queued"
    /\ entry' = [entry EXCEPT ![e] = "sending"]
    /\ flight' \in {flight, flight \cup {e}}

Deliver(e) ==
    /\ e \in flight
    /\ entry' = [entry EXCEPT ![e] = "stored"]
    /\ flight' = flight \ {e}

DeliverUnverified(e) ==
    /\ e \in flight
    /\ entry' = [entry EXCEPT ![e] = "noted"]
    /\ flight' \in {flight, flight \ {e}}

\* The sender is done with the entry: nothing more to do, failed, or sent back.
LetGo(e) ==
    /\ e \in flight
    /\ flight' = flight \ {e}
    /\ \/ UNCHANGED entry
       \/ entry' = [entry EXCEPT ![e] = "parked"]
       \/ entry[e] = "sending" /\ entry' = [entry EXCEPT ![e] = "queued"]

\* All senders are gone.
Break ==
    /\ flight' = {}
    /\ UNCHANGED entry

Recover ==
    /\ flight = {}
    /\ entry' = [e \in Entries |-> IF entry[e] = "sending" THEN "queued" ELSE entry[e]]
    /\ UNCHANGED flight

Next ==
    \/ Request
    \/ \E e \in Entries : Dispatch(e) \/ Deliver(e) \/ DeliverUnverified(e) \/ LetGo(e)
    \/ Break
    \/ Recover

Spec == Init /\ [][Next]_vars
=============================================================================
