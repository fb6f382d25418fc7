------------------------------- MODULE Archive -------------------------------
(***************************************************************************)
(* What an import promises of the library, without sessions, steps,        *)
(* faults or retries.  A catalog entry is made once, of a file that is     *)
(* there, and is for good: what it says is never changed, only a missing   *)
(* full hash is filled in from the file.  The disk is worked on and loses  *)
(* what was not made durable, but the file of an entry is never touched -  *)
(* nor lost, if the import put it where it is.                             *)
(***************************************************************************)
CONSTANTS
    Entries,
    Places,
    Contents,
    HashOf,     \* the quick hash of a content
    Absent

VARIABLES
    entry,      \* what is said of a file: its content, its place, whether it was
                \* put there, and its full hash
    held,       \* the content at each place
    durable,    \* the places no loss of power can take
    cut         \* the power was lost

vars == <<entry, held, durable, cut>>

Blank == [content |-> Absent, place |-> Absent, put |-> FALSE, full |-> Absent]

Used == {e \in Entries : entry[e].content # Absent}

\* The places nothing may touch: of a file found where it is, while the power stays.
Guarded == {entry[e].place : e \in {u \in Used : entry[u].put \/ ~cut}}

\* The files at the places; a content stands for its full hash.
Disks == [Places -> Contents \cup {Absent}]

Init ==
    /\ entry = [e \in Entries |-> Blank]
    /\ held \in Disks
    /\ durable \subseteq Places
    /\ cut = FALSE

\* A file is entered that is there like the content it was read as; one that was
\* put there is there for good, and no other entry's.
Register(e, content, place, put, full) ==
    /\ e \notin Used
    /\ held[place] # Absent
    /\ HashOf[held[place]] = HashOf[content]
    /\ full \in {Absent, held[place]}
    /\ full = Absent => put
    /\ put => place \in durable \ Guarded
    /\ entry' = [entry EXCEPT ![e] = [content |-> content, place |-> place,
                                      put |-> put, full |-> full]]
    /\ UNCHANGED <<held, durable, cut>>

\* Missing hashes are taken of the files the entries stand for.
FillIn(some) ==
    /\ \A e \in some : entry[e].full = Absent /\ entry[e].place \in Guarded
    /\ entry' = [e \in Entries |-> IF e \in some
                                   THEN [entry[e] EXCEPT !.full = held[entry[e].place]]
                                   ELSE entry[e]]
    /\ UNCHANGED <<held, durable, cut>>

\* Files are written, named, moved and removed, anywhere else.
Work ==
    /\ held' \in Disks
    /\ durable' \subseteq Places
    /\ \A p \in Guarded : held'[p] = held[p] /\ (p \in durable => p \in durable')
    /\ UNCHANGED <<entry, cut>>

PowerLoss ==
    /\ \A p \in Places : held'[p] \in IF p \in durable THEN {held[p]} ELSE {held[p], Absent}
    /\ held' \in Disks
    /\ durable' \subseteq Places
    /\ durable \subseteq durable'
    /\ cut' = TRUE
    /\ UNCHANGED entry

Next ==
    \/ \E e \in Entries, content \in Contents, place \in Places, put \in BOOLEAN,
          full \in Contents \cup {Absent} : Register(e, content, place, put, full)
    \/ \E some \in SUBSET Used : FillIn(some)
    \/ Work
    \/ PowerLoss

Spec == Init /\ [][Next]_vars

\* What follows: a file put where its entry says is there for good, with the hashes of
\* the entry; one that was found there is, while the power stays.
Kept ==
    \A e \in Used :
       LET p == entry[e].place
       IN  /\ entry[e].put => p \in durable
           /\ entry[e].put \/ ~cut =>
                 /\ held[p] # Absent
                 /\ HashOf[held[p]] = HashOf[entry[e].content]
                 /\ entry[e].full # Absent => held[p] = entry[e].full
=============================================================================
