-------------------------------- MODULE Thumbs --------------------------------
(***************************************************************************)
(* The thumbnail cache: who renders what, and in which order.              *)
(* thumbs/thumbs.go, scheduler.go, warmer.go, handler.go and               *)
(* services/thumbnail.go.                                                  *)
(*                                                                         *)
(* A tile of the grid asks for the thumbnail of a key (size and quick      *)
(* hash).  Askers of one key share one call (flight): the first, its       *)
(* winner, checks the disk and then waits for one of `capacity' slots; the *)
(* others follow it and get its result.  The waiting winners form one      *)
(* priority queue: tiles before the warm-up, tiles newest first, the       *)
(* warm-up oldest first; a follower moves its winner to the front.  A      *)
(* request cancelled in the queue gives up; a render begun is not cancelled *)
(* and has no time limit, so it lasts until its tools end, if they ever do. *)
(*                                                                         *)
(* The heap of the code is kept here as the sequence it would be popped    *)
(* in: a new tile's or a bumped request has the newest stamp and goes to   *)
(* the front, a warm-up's to the back (see Less).                          *)
(***************************************************************************)
EXTENDS Integers, FiniteSets, Sequences, SequencesExt

CONSTANTS
    Tile,           \* requests of the window: GET /thumb/<asset>
    Worker,         \* goroutines the warm-up can have outstanding
    Key,            \* size/quickHash
    Dir,            \* the places the cache may live in
    Parallelism,    \* the values the parallelism setting takes
    MaxAsks,        \* bound: requests of tiles, with the changes
    MaxWarmups,     \* bound: warm-ups started
    MaxChanges,     \* bound: settings changed, clears and restarts
    MaxHung,        \* bound: renders that never end at one time
    None

ASSUME ThumbsAssumption ==
    /\ Tile \cap Worker = {}
    /\ Parallelism \subseteq Nat \ {0}
    /\ Parallelism # {} /\ Dir # {}
    /\ MaxAsks \in Nat /\ MaxWarmups \in Nat /\ MaxChanges \in Nat /\ MaxHung \in Nat

Asker == Tile \cup Worker

VARIABLES
    req,        \* what each asker is about; None when it asks for nothing
    call,       \* flight.calls: the winner, its hook, the result once there is one
    queue,      \* scheduler.pending, in the order it would be popped
    inUse,      \* scheduler.inUse
    capacity,   \* scheduler.capacity
    hung,       \* who renders with a tool that never returns
    dir,        \* Cache.dir
    jpg,        \* thumbnails on disk
    fail,       \* failure markers on disk
    warm,       \* the warm-up: running, cancelled or not, what is left, its bound
    asks, warmups, changes

schedVars == <<queue, inUse, capacity, hung>>
diskVars  == <<dir, jpg, fail>>
bounds    == <<asks, warmups, changes>>
vars      == <<req, call, schedVars, diskVars, warm, bounds>>

(* Where the request stands, the directory its thumbnail goes to (read     *)
(* once), its tier, and whether its context has not been cancelled.        *)
Request == [at : {"ask", "won", "joined", "acquire", "queued", "render", "leave"},
            key : Key, dst : Dir, urgent : BOOLEAN, live : BOOLEAN]

Result == {"thumbnail", "failed", "missing", "cancelled"}
Call   == [winner : Asker, hook : BOOLEAN, result : Result \cup {None}]
WarmUp == [running : BOOLEAN, live : BOOLEAN, todo : SUBSET Key, width : Nat]

ASSUME NoneAssumption == None \notin Request \cup Call \cup Result

At(p, place) == req[p] # None /\ req[p].at = place
Busy == {p \in Asker : req[p] # None}

Idle == [running |-> FALSE, live |-> FALSE, todo |-> {}, width |-> 0]

Init ==
    /\ req = [p \in Asker |-> None]
    /\ call = [k \in Key |-> None]
    /\ queue = <<>>
    /\ inUse = 0
    /\ capacity \in Parallelism
    /\ hung = {}
    /\ dir = CHOOSE d \in Dir : TRUE
    /\ jpg = {}
    /\ fail = {}
    /\ warm = Idle
    /\ asks = 0 /\ warmups = 0 /\ changes = 0

-----------------------------------------------------------------------------
(* The scheduler. *)

(* Requests in front of position i that have not been cancelled. *)
Ahead(q, i) == {j \in 1..(i - 1) : req[q[j]].live}

(* The positions pump pops when n slots are free: while one is left.  A     *)
(* cancelled request it pops is dropped and takes none.                     *)
Popped(q, n) == {i \in DOMAIN q : Cardinality(Ahead(q, i)) < n}

(* Mutant: a cancelled request is handed a slot like any other. *)
Mut_Granted(q, n) == {q[i] : i \in Popped(q, n)}

(* Who gets a slot when n of them are free, and what is left of the queue. *)
Granted(q, n) == {q[i] : i \in {j \in Popped(q, n) : req[q[j]].live}}
Rest(q, n)    == SubSeq(q, 1 + Cardinality(Popped(q, n)), Len(q))

(* heap.Push, by Less: tiles newest first, then the warm-up oldest first. *)
Enqueue(p) == IF req[p].urgent THEN <<p>> \o queue ELSE Append(queue, p)

(* heap.Remove, of a request that may have been popped. *)
Without(p) ==
    IF p \in ToSet(queue) THEN RemoveAt(queue, CHOOSE i \in DOMAIN queue : queue[i] = p) ELSE queue

(* Where bump leaves the queue: a request still waiting goes to the front.  *)
(* One not yet pushed only changes tier (its index is still the zero value, *)
(* and re-sorting the top of the heap changes nothing).                     *)
Bumped(p) == IF p \in ToSet(queue) THEN <<p>> \o Without(p) ELSE queue

(* Mutant: a slot given back is not handed on. *)
Mut_Release(granted) ==
    /\ granted = {}
    /\ inUse' = inUse - 1
    /\ UNCHANGED queue

(* release, then pump: those in granted go on. *)
Release(granted) ==
    /\ granted = Granted(queue, capacity - (inUse - 1))
    /\ queue' = Rest(queue, capacity - (inUse - 1))
    /\ inUse' = inUse - 1 + Cardinality(granted)

-----------------------------------------------------------------------------
(* One request: Cache.ensure and flight.Do. *)

Followers(k) == {q \in Asker : At(q, "joined") /\ req[q].key = k}

Open(p) == [winner |-> p, hook |-> FALSE, result |-> None]

(* The requests of `granted' now hold a slot. *)
Grant(r, granted) == [q \in Asker |-> IF q \in granted THEN [r[q] EXCEPT !.at = "render"] ELSE r[q]]

Go(p, to) == req' = [req EXCEPT ![p].at = to]

(* The winner has its result: Do stores it and wakes everybody who follows. *)
Settle(p, r, granted) ==
    LET k == req[p].key IN
    /\ call' = [call EXCEPT ![k].result = r]
    /\ req' = [q \in Asker |->
                 CASE q = p             -> [req[p] EXCEPT !.at = "leave"]
                   [] q \in Followers(k) -> None
                   [] OTHER             -> Grant(req, granted)[q]]

(* The request is resolved to a key, the place of its thumbnail is fixed,  *)
(* and a thumbnail already there answers it; so does an asset that is gone. *)
Begin(p, k) ==
    /\ req' \in {[req EXCEPT ![p] = [at |-> "ask", key |-> k, dst |-> dir,
                                    urgent |-> p \in Tile, live |-> p \in Tile \/ warm.live]]}
                 \cup {req}
    /\ <<dir, k>> \in jpg => req' = req
    /\ UNCHANGED <<call, schedVars, diskVars, warmups, changes>>

Ask(p, k) ==
    /\ p \in Tile \ Busy
    /\ asks + changes < MaxAsks
    /\ asks' = asks + 1
    /\ Begin(p, k)
    /\ UNCHANGED warm

(* The window drops a tile that scrolled away. *)
Abort(p) ==
    /\ p \in Tile \cap Busy
    /\ req[p].live
    /\ req' = [req EXCEPT ![p].live = FALSE]
    /\ UNCHANGED <<call, schedVars, diskVars, warm, bounds>>

(* Mutant: everybody who asks becomes a winner. *)
Mut_Enter(p) ==
    /\ At(p, "ask")
    /\ call' = [call EXCEPT ![req[p].key] = Open(p)]
    /\ Go(p, "won")
    /\ UNCHANGED <<schedVars, diskVars, warm, bounds>>

(* flight.Do: open a call, or follow the one there is and bump its winner, *)
(* unless it has been granted its slot or has given up.                    *)
Enter(p) ==
    LET k == req[p].key  c == call[k] IN
    /\ At(p, "ask")
    /\ \/ /\ c = None
          /\ call' = [call EXCEPT ![k] = Open(p)]
          /\ Go(p, "won")
          /\ UNCHANGED queue
       \/ /\ c # None /\ c.result # None
          /\ req' = [req EXCEPT ![p] = None]
          /\ UNCHANGED <<call, queue>>
       \/ /\ c # None /\ c.result = None
          /\ IF c.hook /\ (At(c.winner, "acquire") \/ c.winner \in ToSet(queue))
             THEN /\ req' = [req EXCEPT ![p].at = "joined", ![c.winner].urgent = TRUE]
                  /\ queue' = Bumped(c.winner)
             ELSE Go(p, "joined") /\ UNCHANGED queue
          /\ UNCHANGED call
    /\ UNCHANGED <<inUse, capacity, hung, diskVars, warm, bounds>>

(* The winner looks again, at the marker and at the source. *)
Check(p) ==
    LET k == req[p].key  published == <<req[p].dst, k>> \in jpg  marked == <<dir, k>> \in fail IN
    /\ At(p, "won")
    /\ \/ published /\ Settle(p, "thumbnail", {})
       \/ ~published /\ marked /\ Settle(p, "failed", {})
       \/ ~published /\ ~marked /\ Settle(p, "missing", {})
       \/ ~published /\ ~marked /\ Go(p, "acquire") /\ call' = [call EXCEPT ![k].hook = TRUE]
    /\ UNCHANGED <<schedVars, diskVars, warm, bounds>>

(* acquire: give up, take a free slot, or wait. *)
Acquire(p) ==
    /\ At(p, "acquire")
    /\ \/ ~req[p].live /\ Settle(p, "cancelled", {}) /\ UNCHANGED <<queue, inUse>>
       \/ /\ req[p].live
          /\ IF inUse < capacity /\ queue = <<>>
             THEN inUse' = inUse + 1 /\ Go(p, "render") /\ UNCHANGED queue
             ELSE queue' = Enqueue(p) /\ Go(p, "queued") /\ UNCHANGED inUse
          /\ UNCHANGED call
    /\ UNCHANGED <<capacity, hung, diskVars, warm, bounds>>

(* A waiting request whose context is cancelled leaves the queue. *)
GiveUp(p) ==
    /\ At(p, "queued")
    /\ ~req[p].live
    /\ queue' = Without(p)
    /\ Settle(p, "cancelled", {})
    /\ UNCHANGED <<inUse, capacity, hung, diskVars, warm, bounds>>

(* The render ends, published by a rename or failed (its directory may    *)
(* have been cleared meanwhile); the marker goes to the directory of now, *)
(* if it can be written at all.  The slot is given back.                  *)
Render(p) ==
    /\ At(p, "render")
    /\ p \notin hung
    /\ \E granted \in SUBSET ToSet(queue) :
          /\ Release(granted)
          /\ \/ /\ Settle(p, "thumbnail", granted)
                /\ jpg' = jpg \cup {<<req[p].dst, req[p].key>>}
                /\ UNCHANGED fail
             \/ /\ Settle(p, "failed", granted)
                /\ fail' \in {fail, fail \cup {<<dir, req[p].key>>}}
                /\ UNCHANGED jpg
    /\ UNCHANGED <<capacity, hung, dir, warm, bounds>>

(* The tool that renders blocks for ever: nothing in the code ends it.     *)
Hang(p) ==
    /\ At(p, "render")
    /\ p \notin hung
    /\ Cardinality(hung) < MaxHung
    /\ hung' = hung \cup {p}
    /\ UNCHANGED <<req, call, queue, inUse, capacity, diskVars, warm, bounds>>

(* The call is taken out of the table; until here it still answers others. *)
Leave(p) ==
    /\ At(p, "leave")
    /\ call' = [call EXCEPT ![req[p].key] = None]
    /\ req' = [req EXCEPT ![p] = None]
    /\ UNCHANGED <<schedVars, diskVars, warm, bounds>>

-----------------------------------------------------------------------------
(* The warm-up: ThumbnailService.start, run and Warmer.Warm. *)

Outstanding == Worker \cap Busy

StartWarmup(ids) ==
    /\ warmups < MaxWarmups
    /\ ~warm.running
    /\ ids # {}
    /\ warmups' = warmups + 1
    /\ warm' = [running |-> TRUE, live |-> TRUE, todo |-> ids, width |-> capacity]
    /\ UNCHANGED <<req, call, schedVars, diskVars, asks, changes>>

(* The next asset, if fewer than `width' of them are out. *)
Spawn(p, k) ==
    /\ p \in Worker \ Outstanding
    /\ warm.running
    /\ k \in warm.todo
    /\ Cardinality(Outstanding) < warm.width
    /\ warm' = [warm EXCEPT !.todo = @ \ {k}]
    /\ Begin(p, k)
    /\ UNCHANGED asks

CancelWarmup ==
    /\ warm.running
    /\ warm.live
    /\ warm' = [warm EXCEPT !.live = FALSE]
    /\ req' = [p \in Asker |-> IF p \in Outstanding THEN [req[p] EXCEPT !.live = FALSE] ELSE req[p]]
    /\ UNCHANGED <<call, schedVars, diskVars, bounds>>

(* A cancelled warm-up starts no more of its assets. *)
StopWarmup ==
    /\ warm.running
    /\ ~warm.live
    /\ warm.todo # {}
    /\ warm' = [warm EXCEPT !.todo = {}]
    /\ UNCHANGED <<req, call, schedVars, diskVars, bounds>>

EndWarmup ==
    /\ warm.running
    /\ warm.todo = {}
    /\ Outstanding = {}
    /\ warm' = Idle
    /\ UNCHANGED <<req, call, schedVars, diskVars, bounds>>

-----------------------------------------------------------------------------
(* Settings, and a restart. *)

Change == asks + changes < MaxAsks /\ changes < MaxChanges /\ changes' = changes + 1

In(d) == {d} \X Key

(* SetThumbnailParallelism: setCapacity pumps. *)
SetParallelism(n) ==
    LET granted == Granted(queue, n - inUse) IN
    /\ Change
    /\ n # capacity
    /\ capacity' = n
    /\ queue' = Rest(queue, n - inUse)
    /\ inUse' = inUse + Cardinality(granted)
    /\ req' = Grant(req, granted)
    /\ UNCHANGED <<call, hung, diskVars, warm, asks, warmups>>

(* SetThumbnailCacheLocation: Repoint, and the sweep of the new place. *)
Repoint(d) ==
    /\ Change
    /\ d # dir
    /\ dir' = d
    /\ fail' = fail \ In(d)
    /\ UNCHANGED <<req, call, schedVars, jpg, warm, asks, warmups>>

ClearCache ==
    /\ Change
    /\ jpg' = jpg \ In(dir)
    /\ fail' = fail \ In(dir)
    /\ UNCHANGED <<req, call, schedVars, dir, warm, asks, warmups>>

(* The app stops, or the library is closed, and is opened again. *)
Restart ==
    /\ Change
    /\ req' = [p \in Asker |-> None]
    /\ call' = [k \in Key |-> None]
    /\ queue' = <<>>
    /\ inUse' = 0
    /\ hung' = {}
    /\ fail' = fail \ In(dir)
    /\ warm' = Idle
    /\ UNCHANGED <<capacity, dir, jpg, asks, warmups>>

-----------------------------------------------------------------------------

Advance(p) == Enter(p) \/ Check(p) \/ Acquire(p) \/ GiveUp(p) \/ Render(p) \/ Leave(p)

(* What goes on by itself: goroutines run, and so do the tools that have   *)
(* not hung.                                                               *)
System ==
    \/ \E p \in Asker : Advance(p)
    \/ \E p \in Worker, k \in Key : Spawn(p, k)
    \/ StopWarmup \/ EndWarmup

Next ==
    \/ System
    \/ \E p \in Tile, k \in Key : Ask(p, k) \/ Abort(p)
    \/ \E p \in Asker : Hang(p)
    \/ \E ids \in SUBSET Key : StartWarmup(ids)
    \/ CancelWarmup
    \/ \E n \in Parallelism : SetParallelism(n)
    \/ \E d \in Dir : Repoint(d)
    \/ ClearCache \/ Restart

Spec == Init /\ [][Next]_vars /\ WF_vars(System)

-----------------------------------------------------------------------------
(* Properties. *)

TypeOK ==
    /\ req \in [Asker -> Request \cup {None}]
    /\ call \in [Key -> Call \cup {None}]
    /\ queue \in Seq(Asker) /\ ToSet(queue) \subseteq {p \in Asker : At(p, "queued")}
    /\ IsInjective(queue)
    /\ inUse \in Nat /\ capacity \in Parallelism
    /\ hung \subseteq Asker
    /\ dir \in Dir /\ jpg \subseteq Dir \X Key /\ fail \subseteq Dir \X Key
    /\ warm \in WarmUp
    /\ asks \in 0..MaxAsks /\ warmups \in 0..MaxWarmups /\ changes \in 0..MaxChanges

(* A slot is counted exactly while somebody renders with it, and no request *)
(* that still wants one waits beside a free slot: what acquire's fast path   *)
(* takes for granted ("nothing is queued when that is true"), through        *)
(* grants that race a cancellation and a parallelism that changes.           *)
SlotsConserved ==
    /\ inUse = Cardinality({p \in Asker : At(p, "render")})
    /\ inUse < capacity => queue = <<>>

(* Everybody who waits for another's result waits for a call whose winner is *)
(* still at work, and a key has one winner at a time: two renders of one     *)
(* thumbnail never write at once, and no follower is left behind.            *)
OneWinnerAtWork ==
    \A p \in Busy :
        LET c == call[req[p].key] IN
        /\ At(p, "joined") => c # None /\ c.result = None
        /\ ~At(p, "ask") /\ ~At(p, "joined") => c # None /\ c.winner = p

(* A running warm-up is the only one, and reported over when nothing of it   *)
(* is left: a quit that waits for it cuts no render off.                     *)
WarmupOwnsItsWork == Outstanding # {} => warm.running /\ Cardinality(Outstanding) <= warm.width

(* The types of the state, the slots and the warm-up's bound on its own work *)
(* (WarmUp's workers, its atomic warming flag): what the scheduler counts is *)
(* what is rendered, through every cancellation and settings change.         *)
ThumbsInv == TypeOK /\ SlotsConserved /\ WarmupOwnsItsWork

(* A slot is only handed out within the bound, to a request somebody still   *)
(* wants, and to the warm-up only when no tile is left waiting.              *)
SlotsWellSpent ==
    [][ \A p \in ToSet(queue) : req'[p] # None /\ req'[p].at = "render" =>
          /\ inUse' <= capacity'
          /\ req[p].live
          /\ req[p].urgent \/ \A q \in ToSet(queue) :
                req[q].live /\ req[q].urgent => req'[q] # None /\ req'[q].at = "render" ]_vars

(* A hung tool keeps its asker for ever, with the followers of its call, and *)
(* once every slot is held by one, whoever still wants a slot.              *)
Leading(p) == IF At(p, "joined") THEN call[req[p].key].winner ELSE p

Stuck(p) ==
    \/ Leading(p) \in hung
    \/ /\ Cardinality(hung) >= capacity
       /\ At(Leading(p), "queued") /\ req[Leading(p)].live

(* Whoever asks is answered, and a warm-up comes to its end, unless a tool   *)
(* that never returns is in the way: it costs its own thumbnail and one slot, *)
(* and everybody else goes on while a slot is left, however renders fail,     *)
(* tiles scroll away and settings change.  No slot is lost otherwise, no call *)
(* left open and no wake-up missed (schedule, release, pump, flight.Do).      *)
AnsweredUnlessHung ==
    (Busy # {} \/ warm.running) ~> /\ \A p \in Busy : Stuck(p)
                                   /\ warm.running => \E p \in Outstanding : Stuck(p)

=============================================================================
