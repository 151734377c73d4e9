----------------------------- MODULE FileTailer -----------------------------
(* A directory aggregate that follows files (events/filetailer.c with        *)
(* common/file_stat.c): the crawl timer and inotify find files with bytes    *)
(* not yet read, an open, read and close through the thread pool reads one   *)
(* slice of one file, what is left over waits in the pending set for the     *)
(* idle callback, and the offsets of state=save go to disk from time to time.*)
(*                                                                           *)
(* The variable tail holds what is in memory: the entries of ac->file_stat,  *)
(* the fields of the aggregate and the chains under way.  The operators are  *)
(* named after the functions and map a value of tail to the next.  Sizes and *)
(* offsets count slices: the FILETAILER_MAX_READ_SIZE bytes of one read.     *)
EXTENDS Integers, Sequences, FiniteSets

CONSTANTS
    N,             \* bound on the names in the directory
    MaxInodes,     \* bound on the files ever created
    MaxSize,       \* bound on the slices in one file
    Setups,        \* the aggregates looked at: state=, notify= and the names
    MaxFaults,     \* bound on moves, truncations, stops, restarts, refused opens
    WatchedFaults  \* whether moves and restarts also meet a watched directory

ASSUME FileTailerAssumption ==
    /\ {N, MaxInodes, MaxSize} \subseteq Nat \ {0}
    /\ N <= MaxInodes
    /\ MaxFaults \in Nat
    /\ Setups \subseteq [state : {"stream", "begin", "save", "forget"},
                         notify : {"false", "true", "only"}, names : SUBSET (1..N)]
    /\ WatchedFaults \in BOOLEAN

VARIABLES
    path,     \* the inode each name stands for, 0 when it stands for none
    size,     \* the slices in each inode
    tail,     \* the tailer's memory
    stats,    \* answers of uv_fs_stat on their way to the crawl
    events,   \* inotify events on their way to the watcher
    disk,     \* persistence_dir/file_stat, and the dump being written to it
    parsed,   \* slices of each inode the parser got in this run of the program,
              \* in their order (not kept for state=forget, which never ends)
    seen,     \* slices of each inode the parser ever got
    cut,      \* inodes that were emptied in place
    last,     \* the inode made last
    mark,     \* the offsets on disk when the program was last started
    faults    \* faults so far

vars == <<path, size, tail, stats, events, disk, parsed, seen, cut, last, mark, faults>>

Files == 1..N       \* in the order of the hash table
Inodes == 1..MaxInodes
None == -1
Missing == -2       \* UV_ENOENT
Refused == -1       \* UV_EPERM

\* A chain of open, read and close: step is what it is waiting for ("open",
\* "opened", "read", "done", "close"), from and n the slices asked for and read.
Chain(f, step, fd, from, n) ==
    [file |-> f, step |-> step, fd |-> fd, from |-> from, n |-> n]

\* get_file_size does not look at what stat returned: for a name that is gone
\* its answer is whatever was on the stack.
get_file_size(f) ==
    IF path[f] = 0 THEN 0..(MaxSize + 1) ELSE {size[path[f]]}

-----------------------------------------------------------------------------
(* common/file_stat.c: the entry kept for a name.                            *)

NewEntry == [known |-> FALSE, offset |-> 0, ino |-> 0, state |-> "stream",
             inflight |-> FALSE, dirty |-> FALSE]

file_stat_get_or_create(e, state, filesize) ==
    IF e.known THEN e
    ELSE [e EXCEPT !.known = TRUE,
                   !.offset = IF state = "stream" THEN filesize ELSE 0]

file_stat_add_offset(e, n) ==
    [e EXCEPT !.known = TRUE, !.offset = @ + n]

file_stat_reset_on_rotation(e, state, filesize) ==
    [e EXCEPT !.ino = 0, !.offset = IF state = "stream" THEN filesize ELSE 0]

file_stat_offset_for_read(e, state) ==
    IF state = "forget" THEN [e EXCEPT !.offset = 0] ELSE e

-----------------------------------------------------------------------------
(* events/filetailer.c: the gate of one chain for each file, the pending set *)
(* and the idle callback that drains it.                                     *)

filetailer_pending_add(t, f) == [t EXCEPT !.pending = @ \cup {f}]

Runnable(t) == {f \in t.pending : t.fst[f].dirty /\ ~t.fst[f].inflight}

\* The first runnable name behind the last one picked, if that one is itself
\* runnable, and else the first runnable name.
filetailer_pending_pick_next(t) ==
    LET ready == Runnable(t)
        behind == {f \in ready : t.rr_after \in ready /\ f > t.rr_after}
        First(S) == CHOOSE f \in S : \A g \in S : f <= g
    IN  IF behind # {} THEN First(behind) ELSE First(ready)

filetailer_arm_restart_idle(t) == [t EXCEPT !.idle = @ \/ ~t.stop]

\* Mutant: the gate is not looked at.
ungated_start(t, f) ==
    [t EXCEPT !.fst[f].dirty = FALSE, !.pending = @ \ {f},
              !.chains = @ \cup {Chain(f, "open", None, 0, 0)}]

filetailer_start_chain(t, f) ==
    IF t.stop THEN t
    ELSE IF t.fst[f].inflight
    THEN filetailer_pending_add([t EXCEPT !.fst[f].dirty = TRUE], f)
    ELSE [t EXCEPT !.fst[f].inflight = TRUE, !.fst[f].dirty = FALSE,
                   !.pending = @ \ {f},
                   !.chains = @ \cup {Chain(f, "open", None, 0, 0)}]

filetailer_mark_more_data(t, f) ==
    filetailer_pending_add([t EXCEPT !.fst[f].dirty = TRUE], f)

filetailer_schedule_restart(t, f) ==
    IF t.stop THEN t
    ELSE filetailer_arm_restart_idle(filetailer_pending_add(t, f))

\* Mutant: what came in during the chain is forgotten.
forgets_dirty(t, c, allow_restart) ==
    [t EXCEPT !.chains = @ \ {c}, !.fst[c.file].inflight = FALSE]

\* The end of a chain: the gate opens, and what came in meanwhile is started
\* from the idle callback, unless the chain ended in a way that allows no
\* restart.
filetailer_gate_release(t, c, allow_restart) ==
    LET ended == [t EXCEPT !.chains = @ \ {c}, !.fst[c.file].inflight = FALSE]
    IN  IF allow_restart /\ t.fst[c.file].dirty
        THEN filetailer_schedule_restart(ended, c.file)
        ELSE ended

filetailer_should_schedule_open(e, f, filesize) ==
    \/ filesize # e.offset
    \/ e.ino # 0 /\ path[f] # 0 /\ e.ino # path[f]

filetailer_schedule_content_read_sz(t, f, filesize, now) ==
    LET known == file_stat_get_or_create(t.fst[f], t.state, now)
        t1 == [t EXCEPT !.fst[f] = known]
        t2 == [t EXCEPT !.fst[f] = file_stat_offset_for_read(known, t.state)]
    IN  IF known.inflight
        THEN filetailer_pending_add([t1 EXCEPT !.fst[f].dirty = TRUE], f)
        ELSE IF filetailer_should_schedule_open(t2.fst[f], f, filesize)
        THEN filetailer_start_chain(t2, f)
        ELSE t2

\* Mutant: the inode is taken over without a look at the old one.
offset_of_the_name(e, state, fd) ==
    file_stat_offset_for_read(IF fd > 0 THEN [e EXCEPT !.ino = fd] ELSE e, state)

\* fstat of a descriptor that was never opened fails: the offset stays.
filetailer_sync_offset_from_fd(e, state, fd) ==
    LET moved == (e.ino # 0 /\ e.ino # fd) \/ e.offset > size[fd]
        e1 == IF moved THEN file_stat_reset_on_rotation(e, state, size[fd]) ELSE e
    IN  IF fd = Missing THEN file_stat_offset_for_read(e, state)
        ELSE file_stat_offset_for_read([e1 EXCEPT !.ino = fd], state)

-----------------------------------------------------------------------------
(* The program starts.                                                       *)

Started(state, notify, names) ==
    [state |-> state, notify |-> notify, names |-> names, fst |-> [f \in Files |-> NewEntry],
     pending |-> {}, rr_after |-> 0, idle |-> FALSE, chains |-> {},
     restored |-> FALSE, stop |-> FALSE]

NothingSaved == [f \in Files |-> None]

Init ==
    /\ \E s \in Setups :
        /\ tail = Started(s.state, s.notify, s.names)
        /\ path = [f \in Files |-> IF f \in s.names THEN f ELSE 0]
        /\ size \in {sz \in [Inodes -> 0..1] : \A i \in Inodes \ s.names : sz[i] = 0}
    /\ stats = {} /\ events = <<>>
    /\ disk = [saved |-> NothingSaved, dump |-> NothingSaved, writing |-> FALSE]
    /\ parsed = [i \in Inodes |-> <<>>]
    /\ seen = [i \in Inodes |-> {}]
    /\ cut = {} /\ last = N
    /\ mark = [f \in Files |-> 0]
    /\ faults = 0

-----------------------------------------------------------------------------
(* The event loop's callbacks.                                               *)

Directory == <<path, size, cut, last>>
History == <<parsed, seen, mark>>

\* failtailer_crawl, and directory_crawl for the one aggregate: it asks for the
\* stat of every file.  The timer's first tick is a second and a half after the
\* start, when the offsets have been read back, and a tick finds the answers to
\* the one before it handled.
directory_crawl ==
    /\ tail.restored /\ ~tail.stop /\ tail.notify # "only" /\ stats = {}
    /\ stats' = {<<f, size[path[f]]>> : f \in {g \in Files : path[g] # 0}}
    /\ UNCHANGED <<Directory, tail, events, disk, History, faults>>

file_stat_size_cb ==
    \E s \in stats : \E now \in get_file_size(s[1]) :
        /\ stats' = stats \ {s}
        /\ tail' = filetailer_schedule_content_read_sz(tail, s[1], s[2], now)
        /\ UNCHANGED <<Directory, events, disk, History, faults>>

\* The watcher of the directory reports a change or a rename of one name.  A
\* rename resets the entry at once, whether or not a chain is under way.
on_file_change ==
    /\ events # <<>> /\ ~tail.stop
    /\ \E now \in get_file_size(Head(events).file) :
        LET e == Head(events)
            f == e.file
            known == file_stat_get_or_create(tail.fst[f], tail.state, now)
            reset == file_stat_reset_on_rotation(known, tail.state,
                                    IF path[f] = 0 THEN 0 ELSE size[path[f]])
            entry == IF e.kind = "rename" THEN [reset EXCEPT !.ino = path[f]] ELSE known
        IN  /\ events' = Tail(events)
            /\ tail' = filetailer_schedule_content_read_sz(
                           [tail EXCEPT !.fst[f] = entry], f, now, now)
            /\ UNCHANGED <<Directory, stats, disk, History, faults>>

Becomes(c, d) == tail' = [tail EXCEPT !.chains = (@ \ {c}) \cup {d}]

\* The thread pool opens the name, or finds it gone.
PoolOpens ==
    \E c \in tail.chains :
        /\ c.step = "open"
        /\ Becomes(c, [c EXCEPT !.step = "opened",
                                !.fd = IF path[c.file] = 0 THEN Missing ELSE path[c.file]])
        /\ UNCHANGED <<Directory, stats, events, disk, History, faults>>

PoolRefuses ==
    \E c \in tail.chains :
        /\ c.step = "open" /\ faults < MaxFaults
        /\ Becomes(c, [c EXCEPT !.step = "opened", !.fd = Refused])
        /\ faults' = faults + 1
        /\ UNCHANGED <<Directory, stats, events, disk, History>>

\* Only -1 is taken for a failed open; with any other error the chain goes on
\* to a read that fails.
file_on_open ==
    \E c \in tail.chains :
        LET e == filetailer_sync_offset_from_fd(tail.fst[c.file], tail.state, c.fd)
            t == [tail EXCEPT !.fst[c.file] = e]
        IN  /\ c.step = "opened"
            /\ tail' = IF tail.stop \/ c.fd = Refused
                       THEN filetailer_gate_release(tail, c, FALSE)
                       ELSE [t EXCEPT !.chains = (@ \ {c}) \cup
                                {Chain(c.file, "read", c.fd, e.offset, 0)}]
            /\ UNCHANGED <<Directory, stats, events, disk, History, faults>>

PoolReads ==
    \E c \in tail.chains :
        /\ c.step = "read"
        /\ Becomes(c, [c EXCEPT !.step = "done",
                                !.n = IF c.fd = Missing THEN -1
                                      ELSE IF c.from < size[c.fd] THEN 1 ELSE 0])
        /\ UNCHANGED <<Directory, stats, events, disk, History, faults>>

\* What filetailer_on_read makes of the entry; filesize is that of the name,
\* which may by now be another file than the one that was read.
AfterRead(t, c, filesize) ==
    LET f == c.file
        added == [file_stat_add_offset(t.fst[f], c.n) EXCEPT !.state = t.state]
        more == c.from + c.n < filesize
    IN  CASE c.n < 0 -> t
          [] c.n = 0 /\ c.from > filesize ->
                [t EXCEPT !.fst[f] = file_stat_reset_on_rotation(@, t.state, filesize)]
          [] c.n = 0 /\ c.from <= filesize ->
                IF more THEN filetailer_mark_more_data(t, f) ELSE t
          [] c.n > 0 ->
                IF more THEN filetailer_mark_more_data([t EXCEPT !.fst[f] = added], f)
                ELSE [t EXCEPT !.fst[f] = added]

filetailer_on_read ==
    \E c \in tail.chains : \E filesize \in get_file_size(c.file) :
        /\ c.step = "done"
        /\ IF tail.stop
           THEN tail' = filetailer_gate_release(tail, c, FALSE)
           ELSE tail' = [AfterRead(tail, c, filesize) EXCEPT !.chains =
                            (@ \ {c}) \cup {[c EXCEPT !.step = "close"]}]
        /\ IF tail.stop \/ c.n <= 0
           THEN UNCHANGED <<parsed, seen>>
           ELSE /\ parsed' = [parsed EXCEPT ![c.fd] =
                                  IF tail.state = "forget" THEN @ ELSE Append(@, c.from)]
                /\ seen' = [seen EXCEPT ![c.fd] = @ \cup {c.from}]
        /\ UNCHANGED <<Directory, stats, events, disk, mark, faults>>

filetailer_close ==
    \E c \in tail.chains :
        /\ c.step = "close"
        /\ tail' = filetailer_gate_release(tail, c, ~tail.stop)
        /\ UNCHANGED <<Directory, stats, events, disk, History, faults>>

\* At most one chain in a turn; the handle stays armed while a name is left
\* that could be started.
filetailer_restart_idle_cb ==
    LET t == [tail EXCEPT !.idle = FALSE]
        f == filetailer_pending_pick_next(t)
        t1 == IF Runnable(t) = {} THEN t
              ELSE filetailer_start_chain([t EXCEPT !.rr_after = f], f)
    IN  /\ tail.idle /\ ~tail.stop
        /\ tail' = IF Runnable(t1) # {} THEN filetailer_arm_restart_idle(t1) ELSE t1
        /\ UNCHANGED <<Directory, stats, events, disk, History, faults>>

-----------------------------------------------------------------------------
(* Persistence.                                                              *)

\* filetailer_write_state: the entries marked state=save, and no file at all if
\* there is none.  Opening the file for writing empties it.
Saved(t) == [f \in Files |-> IF t.fst[f].state = "save" THEN t.fst[f].offset ELSE None]

filetailer_write_state ==
    /\ tail.restored /\ ~tail.stop /\ ~disk.writing /\ Saved(tail) # NothingSaved
    /\ disk' = [saved |-> NothingSaved, dump |-> Saved(tail), writing |-> TRUE]
    /\ UNCHANGED <<Directory, tail, stats, events, History, faults>>

\* A write that fails leaves the file empty; an open that fails is no step at all.
write_cb ==
    /\ disk.writing
    /\ \E saved \in {disk.dump, NothingSaved} :
          disk' = [saved |-> saved, dump |-> NothingSaved, writing |-> FALSE]
    /\ UNCHANGED <<Directory, tail, stats, events, History, faults>>

\* Mutant: the file is read and its offsets are dropped.
restore_nothing(t) == t

\* The offsets read back are added to those of the entries; neither the inode
\* nor the mark state=save comes back with them.
filestat_restore_v1(t) ==
    [t EXCEPT !.fst = [f \in Files |->
        IF disk.saved[f] = None THEN t.fst[f]
        ELSE file_stat_add_offset(t.fst[f], disk.saved[f])]]

filestat_restore ==
    /\ ~tail.restored
    /\ tail' = [filestat_restore_v1(tail) EXCEPT !.restored = TRUE]
    /\ UNCHANGED <<Directory, stats, events, disk, History, faults>>

\* alligator_stop: every callback from here on only puts away what it holds.
alligator_stop ==
    /\ ~tail.stop /\ faults < MaxFaults
    /\ tail' = [tail EXCEPT !.stop = TRUE]
    /\ faults' = faults + 1
    /\ UNCHANGED <<Directory, stats, events, disk, History>>

\* The program ends, after a stop or at any other moment, and is started again.
\* Nothing is saved on the way out.
Restart ==
    /\ faults < MaxFaults
    /\ (tail.notify = "false" \/ WatchedFaults)
    /\ tail' = Started(tail.state, tail.notify, tail.names)
    /\ stats' = {} /\ events' = <<>>
    /\ disk' = [disk EXCEPT !.dump = NothingSaved, !.writing = FALSE]
    /\ parsed' = [i \in Inodes |-> <<>>]
    /\ mark' = [f \in Files |-> IF disk.saved[f] = None THEN 0 ELSE disk.saved[f]]
    /\ faults' = faults + 1
    /\ UNCHANGED <<Directory, seen>>

-----------------------------------------------------------------------------
(* Whoever writes the files.                                                 *)

\* inotify merges an event with one just like it at the end of its queue.
Event(f, kind) ==
    LET e == [file |-> f, kind |-> kind]
    IN  IF tail.notify = "false" \/ (events # <<>> /\ events[Len(events)] = e)
        THEN events ELSE Append(events, e)

WriterAppends ==
    \E f \in Files :
        /\ path[f] # 0 /\ size[path[f]] < MaxSize
        /\ size' = [size EXCEPT ![path[f]] = @ + 1]
        /\ events' = Event(f, "change")
        /\ UNCHANGED <<path, cut, last, tail, stats, disk, History, faults>>

\* The name is moved out of the pattern (logrotate), and later made anew.
WriterMoves ==
    \E f \in Files :
        /\ path[f] # 0 /\ faults < MaxFaults
        /\ (tail.notify = "false" \/ WatchedFaults)
        /\ path' = [path EXCEPT ![f] = 0]
        /\ events' = Event(f, "rename")
        /\ faults' = faults + 1
        /\ UNCHANGED <<size, cut, last, tail, stats, disk, History>>

WriterCreates ==
    \E f \in tail.names :
        /\ path[f] = 0 /\ last < MaxInodes
        /\ last' = last + 1
        /\ path' = [path EXCEPT ![f] = last + 1]
        /\ events' = Event(f, "rename")
        /\ UNCHANGED <<size, cut, tail, stats, disk, History, faults>>

\* A file emptied in place; its slices are counted anew.
WriterTruncates ==
    \E f \in Files :
        /\ path[f] # 0 /\ size[path[f]] > 0 /\ faults < MaxFaults
        /\ size' = [size EXCEPT ![path[f]] = 0]
        /\ cut' = cut \cup {path[f]}
        /\ parsed' = [parsed EXCEPT ![path[f]] = <<>>]
        /\ seen' = [seen EXCEPT ![path[f]] = {}]
        /\ events' = Event(f, "change")
        /\ faults' = faults + 1
        /\ UNCHANGED <<path, last, tail, stats, disk, mark>>

-----------------------------------------------------------------------------
Next ==
    \/ directory_crawl
    \/ file_stat_size_cb
    \/ on_file_change
    \/ PoolOpens
    \/ PoolRefuses
    \/ file_on_open
    \/ PoolReads
    \/ filetailer_on_read
    \/ filetailer_close
    \/ filetailer_restart_idle_cb
    \/ filetailer_write_state
    \/ write_cb
    \/ filestat_restore
    \/ alligator_stop
    \/ Restart
    \/ WriterAppends
    \/ WriterMoves
    \/ WriterCreates
    \/ WriterTruncates

Spec == Init /\ [][Next]_vars

\* The loop goes round, its thread pool works through what it is given and its
\* timers fire.  Nobody has to write, stop or restart anything.
FairSpec ==
    /\ Spec
    /\ WF_vars(directory_crawl) /\ WF_vars(file_stat_size_cb)
    /\ WF_vars(on_file_change)
    /\ WF_vars(PoolOpens) /\ WF_vars(file_on_open)
    /\ WF_vars(PoolReads) /\ WF_vars(filetailer_on_read)
    /\ WF_vars(filetailer_close) /\ WF_vars(filetailer_restart_idle_cb)
    /\ WF_vars(filestat_restore)

-----------------------------------------------------------------------------
\* "... concurrent chains would read the same offset and advance it several
\* times, skipping data": in one run of the program the slices of a file reach
\* the parser one after the other, none twice and none left out, whatever the
\* crawl, the watcher and the idle callback do meanwhile, and a rotation where
\* the crawl alone finds files (WatchedFaults: a watcher that sees a rotation
\* resets the offset under the chain, and then this does not hold).  Files
\* emptied in place are left out (one that has grown past the offset again
\* cannot be told from one that has only grown), and state=forget, which reads
\* from the start every time.
InOrder ==
    tail.state # "forget" =>
        \A i \in Inodes \ cut :
            \A k \in 1..(Len(parsed[i]) - 1) : parsed[i][k + 1] = parsed[i][k] + 1

\* With state=begin and state=save nothing is skipped: whatever slice of a file
\* has reached the parser, the slices before it have as well, across rotation,
\* a refused open and a restart that reads the offsets back, also one that
\* comes while they are being written.
NothingSkipped ==
    tail.state \in {"begin", "save"} =>
        \A i \in Inodes \ cut : \A u \in seen[i] : 0..u \subseteq seen[i]

\* What state=save is for: slices below an offset that was on disk when the
\* program started are not parsed again.  What is on disk is what survived: a
\* program that ends between the open and the write of a dump, or whose write
\* failed, has left an empty file, and then starts from the beginning.
ResumesAtSaved ==
    tail.state = "save" =>
        \A f \in Files : path[f] # 0 =>
            \A k \in DOMAIN parsed[path[f]] : parsed[path[f]][k] >= mark[f]

\* With notify=only there is no crawl: a file that no event has named is not looked at.
CaughtUp(f) ==
    \/ path[f] = 0
    \/ tail.fst[f].offset = size[path[f]]
    \/ tail.notify = "only" /\ ~tail.fst[f].known

\* No wake-up is lost: once the writers rest, every file is read to its end,
\* also the slices that came in while a chain was under way and those beyond
\* one read, unless the program is told to stop.  With notify=only what a file
\* held at the start waits for an event that names it, and an open that is
\* refused, like any other fault, may leave slices behind until the next event.
EventuallyCaughtUp ==
    tail.state # "forget" =>
        <>[](\/ tail.stop
             \/ tail.notify = "only" /\ faults > 0
             \/ \A f \in Files : CaughtUp(f))
=============================================================================
