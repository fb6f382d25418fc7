---------------------------- MODULE SourceIdentity ----------------------------
(***************************************************************************)
(* Recognising the volume at a mount point: what the volume says of itself *)
(* (volumes/collector.go), a fingerprint of its media                      *)
(* (source/fingerprint.go), the sources known so far (repo/source.go) and  *)
(* the score that picks one of them (source/identify.go); the rows and     *)
(* sessions services/sources.go writes with the answer.  An import by copy *)
(* identifies its source the same way, within five seconds                 *)
(* (services/import.go); Operations has the rest of its life.              *)
(*                                                                         *)
(* Cards are swapped, reformatted and shot again meanwhile.  The digest of *)
(* a sequence is the sequence.                                             *)
(***************************************************************************)
EXTENDS Integers, Sequences, SequencesExt, FiniteSets

CONSTANTS
    Volume, Mount, Caller,
    Face,           \* what a volume may show: its identifiers and its media
    StartCard, StartMounted,
    ContentSample,  \* contentSampleLimit
    PathSample,     \* pathSampleLimit
    MaxEvents,      \* bound: requests of the user, swaps, new shots, timeouts, faults
    MaxRows,        \* bound: sources recorded
    None

ASSUME IdentityAssumption ==
    /\ StartCard \in [Volume -> Face]
    /\ StartMounted \in [Mount -> Volume \cup {None}]
    /\ ContentSample \in Nat \ {0} /\ PathSample \in Nat \ {0}
    /\ MaxEvents \in Nat /\ MaxRows \in Nat

VARIABLES
    mounted,         \* the volume at each mount point
    card,            \* the face of each volume
    rows,            \* import_sources
    recent,          \* the rows, last seen first
    sessions,        \* import_sessions: root, source and status
    ident,           \* the identification each caller is in
    identifyCancel,  \* SourcesService.identifyCancel: the caller it cancels
    events

catalog   == <<rows, recent, sessions>>
volumes   == <<mounted, card>>
identity  == <<catalog, volumes, ident, identifyCancel>>

Identifier == {"serial", "vol", "fs"}
Bare       == [serial |-> None, vol |-> None, fs |-> None, size |-> 0, type |-> None]
Event      == events < MaxEvents /\ events' = events + 1

(* What a volume says of itself, read or not. *)
Shows(k) == {face[k] : face \in Face}
Name     == {None} \cup UNION {Shows(k) : k \in Identifier \cup {"type"}}
Info     == [serial : Name, vol : Name, fs : Name, size : Shows("size") \cup {0}, type : Name]

-----------------------------------------------------------------------------
(* The fingerprint. *)

(* evenSampleIndexes: k elements, evenly spread. *)
Sample(s, k) ==
    IF Len(s) <= k THEN s ELSE [i \in 1..k |-> s[((i - 1) * Len(s)) \div k + 1]]

Field(s, f) == [i \in DOMAIN s |-> s[i][f]]

(* ComputeFingerprint over the media at a mount point, in order of their     *)
(* paths; files that cannot be read are left out of the content hash, and    *)
(* no file at all has a fingerprint too.                                     *)
Fingerprint(files, readable) ==
    [paths   |-> Field(Sample(files, PathSample), "name"),
     content |-> IF readable THEN Field(Sample(files, ContentSample), "hash") ELSE <<>>]

Files(m) == IF mounted[m] = None THEN <<>> ELSE card[mounted[m]].files

(* findUSBDevice: the device of the disk is listed, with its serial, or not. *)
Probed(info) == {info, [info EXCEPT !.serial = None]}

(* What Describe may come to: diskutil tells the rest. *)
Described(m) ==
    IF mounted[m] = None THEN {Bare} ELSE Probed([k \in DOMAIN Bare |-> card[mounted[m]][k]])

Prints == {Fingerprint(files, readable) :
             files \in Shows("files") \cup {<<>>}, readable \in BOOLEAN}

(* An identification: what was read, the row it comes to, how many rows    *)
(* there were when it looked.                                              *)
Attempt == [mount : Mount, step : {"describe", "walk", "look", "save", "adopt", "linked"},
            auto : BOOLEAN, info : Info, print : Prints \cup {None}, row : Nat \cup {None},
            sure : BOOLEAN, looked : Nat, cancelled : BOOLEAN]

ASSUME NoneAssumption == None \notin Caller \cup Nat \cup Attempt

-----------------------------------------------------------------------------
(* The match. *)

(* findByColumn: any of the rows with the value, by the order of their ids. *)
FindBy(field, info) ==
    LET found == {r \in DOMAIN rows : info[field] # None /\ rows[r][field] = info[field]}
    IN  IF found = {} THEN {None} ELSE found

(* The first of s that is one of good. *)
FirstIn(s, good) ==
    LET hits == {i \in DOMAIN s : s[i] \in good}
    IN  IF hits = {} THEN None ELSE s[CHOOSE i \in hits : \A j \in hits : i <= j]

(* matchByContent *)
SameContent(print) ==
    FirstIn(recent, {r \in DOMAIN rows : rows[r].print # None /\ rows[r].print.content = print.content})
SamePaths(print) ==
    FirstIn(recent, {r \in DOMAIN rows : rows[r].print # None /\ rows[r].print.paths = print.paths})

(* scoreFilesystemMatch *)
FilesystemScore(r, info) ==
    IF rows[r].size # info.size THEN 60 ELSE IF rows[r].type # info.type THEN 55 ELSE 90

(* The first of the strongest pieces of evidence. *)
Best(evidence) ==
    LET found     == {i \in DOMAIN evidence : evidence[i].row # None}
        Beats(i, j) == \/ evidence[j].score < evidence[i].score
                       \/ evidence[j].score = evidence[i].score /\ i <= j
    IN  IF found = {} THEN None
        ELSE evidence[CHOOSE i \in found : \A j \in found : Beats(i, j)].row

(* Mutant: the filesystem UUID is left to the fingerprint to confirm. *)
Mut_Matches(info, print) ==
    {[row |-> Best(<<[row |-> hw, score |-> 100], [row |-> vol, score |-> 100]>>), sure |-> FALSE] :
        hw \in FindBy("serial", info), vol \in FindBy("vol", info)}

(* Identify: what the lookups may come to, and whether the content agreed. *)
Matches(info, print) ==
    LET content == IF print = None THEN None ELSE SameContent(print)
        paths   == IF print = None \/ content # None THEN None ELSE SamePaths(print)
    IN  {[row  |-> Best(<<[row |-> hw, score |-> 100], [row |-> vol, score |-> 100],
                          [row |-> fs, score |-> IF fs = None THEN 0 ELSE FilesystemScore(fs, info)],
                          [row |-> content, score |-> 100], [row |-> paths, score |-> 70]>>),
          sure |-> content # None] :
            hw \in FindBy("serial", info), vol \in FindBy("vol", info), fs \in FindBy("fs", info)}

-----------------------------------------------------------------------------
(* One identification, by a view (auto = FALSE) or by an import. *)

Doing(c, s)  == ident[c] # None /\ ident[c].step = s
At(c)        == ident[c].mount
Step(c, rec) == ident' = [ident EXCEPT ![c] = rec]

Begin(c, m, auto) ==
    /\ ident[c] = None
    /\ Step(c, [mount |-> m, step |-> "describe", auto |-> auto, info |-> Bare, print |-> None,
                row |-> None, sure |-> FALSE, looked |-> 0, cancelled |-> FALSE])

(* A step that ends: an import takes the row along, a view's handle goes -   *)
(* whichever call it was for by now.                                         *)
End(c, r) ==
    IF ident[c].auto
    THEN Step(c, [ident[c] EXCEPT !.step = "linked", !.row = r]) /\ UNCHANGED identifyCancel
    ELSE Step(c, None) /\ identifyCancel' = None

IdentifyVolume(c, m) ==
    /\ Begin(c, m, FALSE)
    /\ identifyCancel' = c
    /\ Event
    /\ UNCHANGED <<catalog, volumes>>

(* A cancelled probe finds nothing, which is no error. *)
Describe(c) ==
    /\ Doing(c, "describe")
    /\ \E info \in IF ident[c].cancelled THEN {Bare} ELSE Described(At(c)) :
          /\ Step(c, [ident[c] EXCEPT !.step = "walk", !.info = info])
          /\ IF mounted[At(c)] = None \/ info.serial = card[mounted[At(c)]].serial \/ ident[c].cancelled
             THEN UNCHANGED events ELSE Event
    /\ UNCHANGED <<catalog, volumes, identifyCancel>>

(* A cancelled walk leaves no fingerprint, which is no error either. *)
Walk(c) ==
    /\ Doing(c, "walk")
    /\ \E readable \in BOOLEAN :
          /\ IF readable THEN UNCHANGED events ELSE Event
          /\ Step(c, [ident[c] EXCEPT !.step = "look",
                        !.print = IF ident[c].cancelled /\ mounted[At(c)] # None THEN None
                                  ELSE Fingerprint(Files(At(c)), readable)])
    /\ UNCHANGED <<catalog, volumes, identifyCancel>>

(* The lookups use the cancelled context and fail with it, but there is one *)
(* only for an identifier the volume has.                                   *)
Look(c) ==
    /\ Doing(c, "look")
    /\ LET i == ident[c]
       IN  IF i.cancelled /\ \E k \in Identifier : i.info[k] # None
           THEN End(c, None)
           ELSE \E m \in Matches(i.info, IF i.cancelled THEN None ELSE i.print) :
                   /\ Step(c, [i EXCEPT !.step = "save", !.row = m.row, !.sure = m.sure,
                                        !.looked = Len(rows)])
                   /\ UNCHANGED identifyCancel
    /\ UNCHANGED <<catalog, volumes, events>>

Saved(c, r) ==
    IF ident[c].sure /\ ~ident[c].auto
    THEN Step(c, [ident[c] EXCEPT !.step = "adopt", !.row = r]) /\ UNCHANGED identifyCancel
    ELSE End(c, r)

(* r moves to the front of s. *)
ToFront(s, r) ==
    [i \in DOMAIN s |-> IF i = 1 THEN r
                        ELSE IF \E j \in 1..(i - 1) : s[j] = r THEN s[i] ELSE s[i - 1]]

(* The fingerprint of a known source stays the one it was first seen with. *)
Update(c) ==
    /\ Doing(c, "save")
    /\ ident[c].row # None
    /\ recent' = ToFront(recent, ident[c].row)
    /\ Saved(c, ident[c].row)
    /\ UNCHANGED <<rows, sessions, volumes, events>>

Create(c) ==
    /\ Doing(c, "save")
    /\ ident[c].row = None
    /\ Len(rows) < MaxRows
    /\ LET i == ident[c]
       IN  rows' = Append(rows, [k \in DOMAIN i.info \cup {"print", "looked"} |->
                                    IF k \in DOMAIN i.info THEN i.info[k] ELSE i[k]])
    /\ recent' = <<Len(rows')>> \o recent
    /\ Saved(c, Len(rows'))
    /\ UNCHANGED <<sessions, volumes, events>>

(* AdoptOrphanSessions: the unlinked sessions of this mount point. *)
Adopt(c) ==
    /\ Doing(c, "adopt")
    /\ sessions' = [k \in DOMAIN sessions |->
                      IF sessions[k].source = None /\ sessions[k].root = At(c)
                      THEN [sessions[k] EXCEPT !.source = ident[c].row] ELSE sessions[k]]
    /\ End(c, ident[c].row)
    /\ UNCHANGED <<rows, recent, volumes, events>>

CancelIdentify ==
    /\ Event
    /\ identifyCancel # None
    /\ Step(identifyCancel, [ident[identifyCancel] EXCEPT !.cancelled = TRUE])
    /\ UNCHANGED <<catalog, volumes, identifyCancel>>

(* The five seconds of an import are over. *)
TimeOut(c) ==
    /\ Event
    /\ ident[c] # None
    /\ ident[c].auto /\ ident[c].step \in {"describe", "walk", "look"}
    /\ ~ident[c].cancelled
    /\ Step(c, [ident[c] EXCEPT !.cancelled = TRUE])
    /\ UNCHANGED <<catalog, volumes, identifyCancel>>

Identifying(c) ==
    Describe(c) \/ Walk(c) \/ Look(c) \/ Update(c) \/ Create(c) \/ Adopt(c) \/ TimeOut(c)

-----------------------------------------------------------------------------
(* The world *)

PutIn(m, v) ==
    /\ \A n \in Mount : mounted[n] # v
    /\ mounted[m] = None
    /\ mounted' = [mounted EXCEPT ![m] = v]
    /\ UNCHANGED card

TakeOut(m) ==
    /\ mounted[m] # None
    /\ mounted' = [mounted EXCEPT ![m] = None]
    /\ UNCHANGED card

(* Formatted, shot or emptied, in the camera or in the reader. *)
Alter(v, face) ==
    /\ card' = [card EXCEPT ![v] = face]
    /\ UNCHANGED mounted

Volumes ==
    /\ Event
    /\ \/ \E m \in Mount : TakeOut(m) \/ \E v \in Volume : PutIn(m, v)
       \/ \E v \in Volume, face \in Face : Alter(v, face)
    /\ UNCHANGED <<catalog, ident, identifyCancel>>

IdentityInit ==
    /\ mounted = StartMounted /\ card = StartCard
    /\ rows = <<>> /\ recent = <<>> /\ sessions = <<>>
    /\ ident = [c \in Caller |-> None]
    /\ identifyCancel = None
    /\ events = 0

-----------------------------------------------------------------------------
(* Properties *)

IdentityTypeOK ==
    /\ mounted \in [Mount -> Volume \cup {None}] /\ card \in [Volume -> Face]
    /\ ToSet(recent) = DOMAIN rows /\ Len(recent) = Len(rows)
    /\ \A k \in DOMAIN sessions : sessions[k].source \in DOMAIN rows \cup {None}
    /\ ident \in [Caller -> Attempt \cup {None}]
    /\ \A c \in Caller : ident[c] # None => ident[c].row \in DOMAIN rows \cup {None}
    /\ identifyCancel \in {c \in Caller : ident[c] # None} \cup {None}

(* Identify, Create: two sources that share a serial or a UUID were made by *)
(* identifications that overlapped, the second looking before the first was *)
(* recorded; nothing a card goes through between two identifications makes  *)
(* it a second source while one of its identifiers is still read.           *)
OneRowPerVolume ==
    \A i, j \in DOMAIN rows :
        i < j /\ (\E k \in Identifier : rows[i][k] # None /\ rows[i][k] = rows[j][k])
            => rows[j].looked < i
=============================================================================
