----------------------------- MODULE MemoryStore -----------------------------
(***************************************************************************)
(* The project memory: memory/store.py, the writes of memory/manager.py    *)
(* and memory/retriever.py and the retention policy, with the processes    *)
(* that share one .harness/memory/entries.json.  A process loads the file  *)
(* when its manager is made and from then on writes its own cache over it: *)
(* open and truncate the one temporary name, write, rename.  A load may    *)
(* not get at the text and a write may raise; the process goes on.  Within *)
(* a process an operation never yields, so its steps meet only those of    *)
(* other processes and crashes.                                            *)
(***************************************************************************)
EXTENDS Integers, Sequences, SequencesExt

CONSTANTS
    Procs,      \* processes of the workspace
    Contents,   \* texts that are recorded for one project
    MaxNow,     \* bound: ages that pass
    MaxIds,     \* bound: entries that are made
    MaxCrashes, \* bound: processes that are killed
    MaxFaults   \* bound: loads that cannot read the file and writes that raise

ASSUME MemoryAssumption ==
    {MaxNow, MaxIds, MaxCrashes, MaxFaults} \subseteq Nat

VARIABLES
    now,      \* the time, in the steps that the policy tells apart
    ids,      \* entries made so far
    pc,       \* process -> where its write is
    cache,    \* process -> _cache: id -> entry
    plan,     \* process -> updates its operation has still to make
    hand,     \* process -> the file it has open for writing, 0 for none
    file,     \* file -> what _load would make of its text
    disk,     \* the file named entries.json, 0 for none
    tmp,      \* the file named entries.json.tmp, 0 for none
    crashes, faults,
    \* For the properties:
    unread,   \* processes whose load did not get the text and that have not written since
    unsaved,  \* processes whose last write raised
    met       \* two processes have been up at the same time

vars == <<now, ids, pc, cache, plan, hand, file, disk, tmp, crashes, faults,
          unread, unsaved, met>>
notes == <<crashes, faults, unread, unsaved, met>>

\* RetentionConfig, should_delete and should_archive: 30 and 90 days.
Month == 1
Quarter == 2

Nothing == [i \in {} |-> 0]
Files == 1 .. 4   \* more than are ever open or named at once

\* The hash is of the text as it was recorded, or of its summary.  Whatever is
\* recorded is important enough to be archived, and stays so: 0.3 at least when
\* it is short, 0.7 at least when it can be summarised.
Entry(c, long) ==
    [hash |-> <<c, "full">>, born |-> now, long |-> long, archived |-> FALSE]

OnDisk == IF disk = 0 THEN Nothing ELSE file[disk]

Age(e) == now - e.born

Drop(m, i) == [j \in DOMAIN m \ {i} |-> m[j]]
Put(m, i, e) == [j \in DOMAIN m \cup {i} |-> IF j = i THEN e ELSE m[j]]

Init ==
    /\ now = 0 /\ ids = 0 /\ crashes = 0 /\ faults = 0
    /\ unread = {} /\ unsaved = {} /\ met = FALSE
    /\ pc = [p \in Procs |-> "down"]
    /\ cache = [p \in Procs |-> Nothing]
    /\ plan = [p \in Procs |-> <<>>]
    /\ hand = [p \in Procs |-> 0]
    /\ file = [f \in Files |-> Nothing] /\ disk = 0 /\ tmp = 0

-----------------------------------------------------------------------------
(* Which entries the policy touches.                                       *)

\* Past max_age_days.  Every recorded importance is far above
\* min_importance_to_keep, so the other rule never applies.
ShouldDelete(e) == Age(e) > Quarter

ShouldSummarise(e) == Age(e) >= Month /\ e.long

ShouldArchive(e) == Age(e) >= Month

Live(p) == {i \in DOMAIN cache[p] : ~cache[p][i].archived}

Updates(op, S) == [k \in 1 .. Len(SetToSeq(S)) |-> [op |-> op, id |-> SetToSeq(S)[k]]]

-----------------------------------------------------------------------------
(* Operations: what each means to write, one update after the other.       *)

Begin(p, updates) ==
    /\ pc[p] = "idle" /\ updates # <<>>
    /\ pc' = [pc EXCEPT ![p] = "update"]
    /\ plan' = [plan EXCEPT ![p] = updates]
    /\ UNCHANGED <<now, cache, hand, file, disk, tmp, notes>>

Same(p, c) == {i \in Live(p) : cache[p][i].hash = <<c, "full">>}

\* _record: an entry that says the same gains importance, or a new one is made.
Record(p, c, long) ==
    IF Same(p, c) # {}
    THEN /\ Begin(p, <<[op |-> "boost", id |-> CHOOSE i \in Same(p, c) : TRUE]>>)
         /\ UNCHANGED ids
    ELSE /\ ids < MaxIds /\ ids' = ids + 1
         /\ Begin(p, <<[op |-> "save", id |-> ids + 1, entry |-> Entry(c, long)]>>)

\* _search and _list_by_types count the access to each entry they return.
Retrieve(p) ==
    /\ \E S \in SUBSET Live(p) : Begin(p, Updates("access", S))
    /\ UNCHANGED ids

\* MemoryRetentionPolicy.apply: deletions, archivals, summaries.
Prune(p) ==
    LET del == {i \in Live(p) : ShouldDelete(cache[p][i])}
        sum == {i \in Live(p) \ del : ShouldSummarise(cache[p][i])}
        arc == {i \in Live(p) \ (del \cup sum) : ShouldArchive(cache[p][i])}
    IN  /\ Begin(p, Updates("delete", del) \o Updates("archive", arc)
                       \o Updates("summarise", sum))
        /\ UNCHANGED ids

\* The cache with one update made.  A boost and an access change numbers that
\* decide nothing; they are writes all the same.
Updated(m, u) ==
    CASE u.op = "save" -> Put(m, u.id, u.entry)
      [] u.op = "delete" -> Drop(m, u.id)
      [] u.op \in {"boost", "access"} -> m
      [] u.op = "archive" -> Put(m, u.id, [m[u.id] EXCEPT !.archived = TRUE])
      [] u.op = "summarise" ->
            Put(m, u.id, [m[u.id] EXCEPT !.hash = <<@[1], "summary">>, !.long = FALSE])

-----------------------------------------------------------------------------
(* save, update and delete: the cache, then _atomic_write.                 *)

Unused == CHOOSE f \in Files :
             f \notin {disk, tmp} \cup {hand[p] : p \in Procs}

\* Mutant: the file itself is opened and written.
OpenTmp_Direct(p) ==
    LET f == IF disk = 0 THEN Unused ELSE disk IN
    /\ pc[p] = "update"
    /\ cache' = [cache EXCEPT ![p] = Updated(@, Head(plan[p]))]
    /\ plan' = [plan EXCEPT ![p] = Tail(@)]
    /\ file' = [file EXCEPT ![f] = Nothing]
    /\ tmp' = f
    /\ hand' = [hand EXCEPT ![p] = f]
    /\ pc' = [pc EXCEPT ![p] = "write"]
    /\ UNCHANGED <<now, ids, disk, notes>>

\* The update is made in the cache and the temporary name opened: the file
\* that has it already, another writer's too, is cut to nothing.
OpenTmp(p) ==
    LET f == IF tmp = 0 THEN Unused ELSE tmp IN
    /\ pc[p] = "update"
    /\ cache' = [cache EXCEPT ![p] = Updated(@, Head(plan[p]))]
    /\ plan' = [plan EXCEPT ![p] = Tail(@)]
    /\ file' = [file EXCEPT ![f] = Nothing]
    /\ tmp' = f
    /\ hand' = [hand EXCEPT ![p] = f]
    /\ pc' = [pc EXCEPT ![p] = "write"]
    /\ UNCHANGED <<now, ids, disk, notes>>

\* Over what another has written into the same file meanwhile the text may be
\* too short, and then what is there is no JSON.
WriteTmp(p) ==
    /\ pc[p] = "write"
    /\ \E text \in {cache[p]} \cup (IF file[hand[p]] = Nothing THEN {} ELSE {Nothing}) :
          file' = [file EXCEPT ![hand[p]] = text]
    /\ hand' = [hand EXCEPT ![p] = 0]
    /\ pc' = [pc EXCEPT ![p] = "replace"]
    /\ UNCHANGED <<now, ids, cache, plan, disk, tmp, notes>>

\* An exception leaves save, update or delete: the update stays in the cache,
\* the rest of the plan is dropped, and whoever called goes on.
Raise(p) ==
    /\ plan' = [plan EXCEPT ![p] = <<>>]
    /\ hand' = [hand EXCEPT ![p] = 0]
    /\ pc' = [pc EXCEPT ![p] = "idle"]
    /\ unsaved' = unsaved \cup {p}
    /\ UNCHANGED <<now, ids, disk, tmp, crashes, unread, met>>

\* tmp.replace(entries.json), which raises FileNotFoundError when another has
\* renamed it.
Replace(p) ==
    /\ pc[p] = "replace"
    /\ IF tmp = 0
       THEN Raise(p) /\ UNCHANGED <<cache, file, faults>>
       ELSE /\ disk' = tmp /\ tmp' = 0
            /\ file' = [f \in Files |-> IF f = disk /\ f # tmp THEN Nothing ELSE file[f]]
            /\ unread' = unread \ {p} /\ unsaved' = unsaved \ {p}
            /\ pc' = [pc EXCEPT ![p] = IF plan[p] = <<>> THEN "idle" ELSE "update"]
            /\ UNCHANGED <<now, ids, cache, plan, hand, crashes, faults, met>>

\* The disk is full, or the system denies a call of _atomic_write: the
\* directory or the temporary name cannot be opened ...
OpenFails(p) ==
    /\ pc[p] = "update" /\ faults < MaxFaults /\ faults' = faults + 1
    /\ cache' = [cache EXCEPT ![p] = Updated(@, Head(plan[p]))]
    /\ Raise(p)
    /\ UNCHANGED file

\* ... it is written in part, or not renamed.
WriteFails(p) ==
    /\ pc[p] \in {"write", "replace"} /\ faults < MaxFaults /\ faults' = faults + 1
    /\ \/ pc[p] = "write" /\ file' = [file EXCEPT ![hand[p]] = Nothing]
       \/ UNCHANGED file
    /\ Raise(p)
    /\ UNCHANGED cache

-----------------------------------------------------------------------------
(* Processes and time.                                                     *)

\* Mutant: a new manager begins with nothing.
Start_Empty(p) ==
    /\ pc[p] = "down"
    /\ pc' = [pc EXCEPT ![p] = "idle"]
    /\ met' = (met \/ \E q \in Procs : pc[q] # "down")
    /\ UNCHANGED <<now, ids, cache, plan, hand, file, disk, tmp, crashes, faults, unread, unsaved>>

\* init_memory_manager_from_project: _load.  A file that is there and cannot
\* be read, or whose text is no JSON at that moment, leaves the cache empty.
Start(p) ==
    /\ pc[p] = "down"
    /\ pc' = [pc EXCEPT ![p] = "idle"]
    /\ \/ cache' = [cache EXCEPT ![p] = OnDisk] /\ UNCHANGED <<unread, faults>>
       \/ /\ disk # 0 /\ faults < MaxFaults /\ faults' = faults + 1
          /\ unread' = unread \cup {p}
          /\ cache' = [cache EXCEPT ![p] = Nothing]
    /\ met' = (met \/ \E q \in Procs : pc[q] # "down")
    /\ UNCHANGED <<now, ids, plan, hand, file, disk, tmp, crashes, unsaved>>

Stop(p) ==
    /\ pc' = [pc EXCEPT ![p] = "down"]
    /\ cache' = [cache EXCEPT ![p] = Nothing]
    /\ plan' = [plan EXCEPT ![p] = <<>>]
    /\ hand' = [hand EXCEPT ![p] = 0]
    /\ unread' = unread \ {p} /\ unsaved' = unsaved \ {p}
    /\ UNCHANGED <<now, ids, file, disk, tmp, faults, met>>

Exit(p) == pc[p] = "idle" /\ Stop(p) /\ UNCHANGED crashes

Crash(p) ==
    /\ pc[p] \in {"update", "write", "replace"}
    /\ crashes < MaxCrashes /\ crashes' = crashes + 1
    /\ Stop(p)

Pass ==
    /\ now < MaxNow
    /\ now' = now + 1
    /\ UNCHANGED <<ids, pc, cache, plan, hand, file, disk, tmp, notes>>

-----------------------------------------------------------------------------
Next ==
    \/ \E p \in Procs :
          \/ \E c \in Contents, long \in BOOLEAN : Record(p, c, long)
          \/ Retrieve(p) \/ Prune(p)
          \/ OpenTmp(p) \/ WriteTmp(p) \/ Replace(p)
          \/ OpenFails(p) \/ WriteFails(p)
          \/ Start(p) \/ Exit(p) \/ Crash(p)
    \/ Pass

Spec == Init /\ [][Next]_vars

-----------------------------------------------------------------------------
\* At the time t the policy lets e go.
Past(e, t) == t - e.born > Quarter /\ ~e.archived

\* Whatever m has n has too, of the same age and archived if it was, or it may go.
Kept(m, n, t) ==
    \A i \in DOMAIN m :
       IF i \in DOMAIN n
       THEN n[i].born = m[i].born /\ (m[i].archived => n[i].archived)
       ELSE Past(m[i], t)

\* While processes follow each other, killed at any step or not and whatever
\* writes raise, an entry leaves the file only when it is past the age of the
\* policy ("Writes are atomic", store.py:117), with one exception: the first
\* write of a process whose load could not read the file (store.py:139-141)
\* puts what it has made itself in the place of everything.
NothingIsLost ==
    [][~met' => \/ Kept(OnDisk, OnDisk', now)
                \/ \E p \in unread : pc[p] = "replace" /\ p \notin unread']_vars

\* ... and what a process that has read the file knows when it is idle is what
\* the file says, unless its last write raised: a record that has returned
\* survives whatever happens next, and after a failed write (the cache is
\* changed before _atomic_write) no entry of the file is missing from memory,
\* so that the next write takes none away.
CacheIsDisk ==
    ~met => \A p \in Procs : pc[p] = "idle" /\ p \notin unread =>
               /\ Kept(OnDisk, cache[p], now)
               /\ p \notin unsaved => cache[p] = OnDisk

-----------------------------------------------------------------------------
(* The inductive invariant: why processes that follow each other lose      *)
(* nothing.                                                                *)

EntryType == [hash : Contents \X {"full", "summary"}, born : Nat,
              long : BOOLEAN, archived : BOOLEAN]

\* What _load returns and what a cache holds: entries that have been made.
IsStore(m, n) == DOMAIN m \subseteq 1 .. n /\ \A i \in DOMAIN m : m[i] \in EntryType

Update(n) == [op : {"save"}, id : 1 .. n, entry : EntryType] \cup
             [op : {"delete", "boost", "access", "archive", "summarise"}, id : 1 .. n]

StoreType ==
    /\ now \in Nat /\ ids \in Nat /\ disk \in 0 .. 4 /\ tmp \in 0 .. 4
    /\ DOMAIN pc = Procs /\ DOMAIN cache = Procs
    /\ DOMAIN plan = Procs /\ DOMAIN hand = Procs
    /\ DOMAIN file = Files /\ \A f \in Files : IsStore(file[f], ids)
    /\ \A p \in Procs :
          /\ pc[p] \in {"down", "idle", "update", "write", "replace"}
          /\ hand[p] \in 0 .. 4
          /\ IsStore(cache[p], ids)
          /\ plan[p] \in Seq(Update(ids))

\* Deletions come first, of entries that may go; what is archived or
\* summarised is there when its turn comes; what is new is new to d, the file,
\* too.
PlanFits(s, m, d, t) ==
    \A k \in 1 .. Len(s) :
       /\ s[k].op = "delete" =>
             /\ \A j \in 1 .. k : s[j].op = "delete"
             /\ s[k].id \in DOMAIN m => Past(m[s[k].id], t)
       /\ s[k].op \in {"archive", "summarise"} =>
             /\ s[k].id \in DOMAIN m
             /\ \A j \in 1 .. k : s[j].op = "delete" => s[j].id # s[k].id
       /\ s[k].op = "save" => Len(s) = 1 /\ s[k].id \notin DOMAIN m \cup DOMAIN d

\* One writer: the temporary file is never the file itself, and what is in it
\* is nothing until it is the writer's cache, which lacks nothing of the file
\* if the writer has read it.
OneWriter ==
    /\ \A p, q \in Procs : pc[p] # "down" /\ pc[q] # "down" => p = q
    /\ tmp # 0 => tmp # disk
    /\ \A p \in Procs :
          /\ hand[p] # 0 <=> pc[p] = "write"
          /\ pc[p] = "down" => plan[p] = <<>> /\ p \notin unread \cup unsaved
          /\ pc[p] = "update" => plan[p] # <<>>
          /\ pc[p] \in {"idle", "update"} /\ p \notin unread \cup unsaved => cache[p] = OnDisk
          /\ pc[p] = "write" => tmp # 0 /\ hand[p] = tmp /\ file[tmp] = Nothing
          /\ pc[p] = "replace" => tmp # 0 /\ file[tmp] = cache[p]
          /\ pc[p] # "down" /\ p \notin unread => Kept(OnDisk, cache[p], now)
          /\ PlanFits(plan[p], cache[p], OnDisk, now)

StoreInv == met \in BOOLEAN /\ (~met => StoreType /\ OneWriter)
=============================================================================
