---------------------------- MODULE ProjectIndex ----------------------------
(***************************************************************************)
(* ProjectIntelligence (intelligence/__init__.py) over the symbol index,   *)
(* the dependency graph and the search cache, and the glob and grep tools  *)
(* that answer from it.  Files are source files of the workspace, one      *)
(* module each; a text is known by the modules it imports, by whether the  *)
(* pattern that is searched for occurs in it, and by whether it is too     *)
(* long to be indexed.  Every write gives a file a time stamp of its own,  *)
(* and texts that are not too long have the same size.  Of its own process *)
(* nothing runs during a scan, but an editor or a command may write a file *)
(* between its stat, the hash of its text and its turn to be indexed, and  *)
(* a file that is there may not let itself be read.                        *)
(***************************************************************************)
EXTENDS Integers

CONSTANTS
    Paths,      \* source files of the workspace; each is its module's name
    Ignored,    \* paths the engine's walk leaves out (.gitignore)
    Skipped,    \* paths that are never indexed (_SKIP_DIRS, keys, .env)
    Modules,    \* what a text may import: Paths and modules from elsewhere
    Texts,      \* path -> what may be written to it: records [imports, hit, big]
    Hooks,      \* entries of the facade that are called: see Maintain
    Ttl,        \* life of a cached search
    MaxClock    \* bound: writes and ticks

AllTexts == UNION {Texts[p] : p \in Paths}

ASSUME IndexAssumption ==
    /\ Paths \subseteq Modules /\ Ignored \subseteq Paths /\ Skipped \subseteq Paths
    /\ \A c \in AllTexts : /\ c.imports \subseteq Modules
                          /\ c.hit \in BOOLEAN /\ c.big \in BOOLEAN
    /\ Hooks \subseteq {"refresh", "force", "changed", "dropped"}
    /\ Ttl \in Nat /\ MaxClock \in Nat

VARIABLES
    clock,
    disk,      \* path -> [text, mtime], for the files that exist
    files,     \* _files: path -> [mtime, big, hash], hash {text}, or {} for none
    symbols,   \* path -> the text its symbols and imports were taken from
    edges,     \* <<importer, imported>>
    modules,   \* _module_to_file: module -> path
    todo,      \* path -> its stamp, for what a scan has still to index
    full,      \* the scan is a full one
    hashed,    \* the scan has the hashes of its files
    cache,     \* search cache: at most the entry of the one search
    torn,      \* files indexed in another text than was hashed, for the properties
    ghosts,    \* files a full scan has forgotten, for the properties
    synced     \* nothing was written or invalidated since the last scan, for the properties

index == <<files, symbols, edges, modules, todo, full, hashed, torn, ghosts>>
vars == <<clock, disk, index, cache, synced>>

NoHash == {}
None == "none"
Nothing == [p \in {} |-> None]

Restricted(f, S) == [x \in DOMAIN f \cap S |-> f[x]]
With(f, x, v) == [y \in DOMAIN f \cup {x} |-> IF y = x THEN v ELSE f[y]]

Init ==
    /\ clock = 0
    /\ \E S \in SUBSET Paths :
          \E text \in [S -> AllTexts] :
             /\ \A p \in S : text[p] \in Texts[p]
             /\ disk = [p \in S |-> [text |-> text[p], mtime |-> 0]]
    /\ files = Nothing /\ symbols = Nothing /\ edges = {} /\ modules = Nothing
    /\ todo = Nothing /\ full = FALSE /\ hashed = FALSE
    /\ cache = {}
    /\ torn = {} /\ ghosts = {} /\ synced = FALSE

-----------------------------------------------------------------------------
(* The index as a value: what one file does to it.                         *)

Index == [files |-> files, symbols |-> symbols, edges |-> edges, modules |-> modules]

Becomes(i) ==
    /\ files' = i.files /\ symbols' = i.symbols
    /\ edges' = i.edges /\ modules' = i.modules

\* _resolve_import: the registrations override the tracked files.
Resolve(i, m) ==
    IF m \in DOMAIN i.modules THEN i.modules[m]
    ELSE IF m \in DOMAIN i.files THEN m ELSE None

\* Whether p can be read: a file that is there may be locked or forbidden.
Reads(p) == IF p \in DOMAIN disk THEN BOOLEAN ELSE {FALSE}

\* _index_file: the symbols are replaced, by none when the file cannot be read,
\* and the outgoing edges rebuilt.  A module that is not found is registered as
\* the file that imports it.
IndexFile(i, p, read) ==
    LET imports == IF read THEN disk[p].text.imports ELSE {}
        found == {m \in imports : Resolve(i, m) \notin {None, p}}
    IN  [files |-> i.files,
         symbols |-> IF read THEN With(i.symbols, p, disk[p].text)
                     ELSE Restricted(i.symbols, Paths \ {p}),
         edges |-> {e \in i.edges : e[1] # p}
                      \cup {<<p, Resolve(i, m)>> : m \in found},
         modules |-> [m \in DOMAIN i.modules \cup (imports \ found) |->
                         IF m \in imports \ found THEN p ELSE i.modules[m]]]

\* Mutant: registrations outlive the files they point at.
DropFiles_Registered(i, S) ==
    [files |-> Restricted(i.files, Paths \ S),
     symbols |-> Restricted(i.symbols, Paths \ S),
     edges |-> {e \in i.edges : e[1] \notin S /\ e[2] \notin S},
     modules |-> i.modules]

\* _drop_file, one after the other: the graph loses edges of both directions.
DropFiles(i, S) ==
    [files |-> Restricted(i.files, Paths \ S),
     symbols |-> Restricted(i.symbols, Paths \ S),
     edges |-> {e \in i.edges : e[1] \notin S /\ e[2] \notin S},
     modules |-> Restricted(i.modules, {m \in DOMAIN i.modules : i.modules[m] \notin S})]

Dropped(S) ==
    /\ Becomes(DropFiles(Index, S))
    /\ torn' = torn \ S /\ ghosts' = ghosts \ S

\* Time and size of a file as they are now, before its text is read.
Stamp(p) == [mtime |-> disk[p].mtime, big |-> disk[p].text.big, hash |-> NoHash]

Tracking(p, stamp) == [Index EXCEPT !.files = With(@, p, stamp)]

\* A file is indexed under its stamp, unless that says it is too long: it keeps
\* the symbols it had.  It is torn when a later refresh may trust a hash that is
\* not of the text behind the symbols.
Track(p, stamp, read) ==
    IF stamp.big
    THEN /\ Becomes(Tracking(p, stamp))
         /\ torn' = IF \A c \in stamp.hash : c.big THEN torn \ {p} ELSE torn \cup {p}
    ELSE /\ Becomes(IndexFile(Tracking(p, stamp), p, read))
         /\ torn' = IF read /\ stamp.hash \subseteq {disk[p].text} THEN torn \ {p}
                    ELSE torn \cup {p}

\* What a walk finds and _should_track lets through; what a refresh finds gone,
\* and what is new or has another time or size.
Found == DOMAIN disk \ (Ignored \cup Skipped)
Gone == DOMAIN files \ Found
Changed ==
    {p \in Found : p \in DOMAIN files =>
                      files[p].mtime # disk[p].mtime \/ files[p].big # disk[p].text.big}

-----------------------------------------------------------------------------
(* The search cache, whose one key is a search through all files: the tool  *)
(* filters what it shows by name afterwards.                               *)

\* Results are remembered under the paths that are shown, relative to the
\* root; files are invalidated by their absolute paths.
Display(p) == <<"relative", p>>
Absolute(p) == <<"absolute", p>>

InvalidateForFiles(S) ==
    cache' = {e \in cache : \A p \in S : Absolute(p) \notin e.related}

Hits == {p \in DOMAIN disk \ Ignored : disk[p].text.hit}

\* Mutant: an empty result is remembered like any other.
Remembered_Empty(raw) ==
    {[result |-> raw, whole |-> raw = Hits, at |-> clock,
      related |-> {Display(p) : p \in raw}]}

\* An empty result is not remembered: no change of a file would end it.
Remembered(raw) ==
    IF raw = {} THEN {}
    ELSE {[result |-> raw, whole |-> raw = Hits, at |-> clock,
           related |-> {Display(p) : p \in raw}]}

-----------------------------------------------------------------------------
(* The facade.                                                             *)

Idle == DOMAIN todo = {}
Empty == DOMAIN files = {}

\* _full_scan, to its first hash: the table of files is replaced, and nothing
\* is taken from the other parts.  (A hash that raises, as the fallback in
\* Python does for a file it may not open, ends a scan that has changed nothing.)
FullScan ==
    /\ files' = [p \in Found |-> Stamp(p)]
    /\ todo' = files'
    /\ full' = (Found # {}) /\ hashed' = FALSE
    /\ ghosts' = (ghosts \cup DOMAIN files) \ Found
    /\ synced' = TRUE
    /\ UNCHANGED <<clock, disk, symbols, edges, modules, torn, cache>>

\* refresh: what is gone is dropped, what has changed is to be indexed.
Refresh ==
    /\ Dropped(Gone)
    /\ InvalidateForFiles(Gone)
    /\ todo' = [p \in Changed |-> Stamp(p)]
    /\ full' = FALSE /\ hashed' = FALSE
    /\ synced' = TRUE
    /\ UNCHANGED <<clock, disk>>

\* fast_batch_hash: a file that is gone or cannot be read has no hash.
Hash ==
    /\ ~Idle /\ ~hashed
    /\ \E read \in SUBSET (DOMAIN todo \cap DOMAIN disk) :
          todo' = [p \in DOMAIN todo |->
                     [todo[p] EXCEPT !.hash = IF p \in read THEN {disk[p].text} ELSE NoHash]]
    /\ hashed' = TRUE
    /\ UNCHANGED <<clock, disk, files, symbols, edges, modules, full, torn, ghosts, cache, synced>>

\* A refresh that finds the hash it knows.
SameHash(p) ==
    p \in DOMAIN files /\ files[p].hash # NoHash /\ files[p].hash = todo[p].hash

\* The loop of either, for the next file of the walk, in whatever order that is:
\* the same hash renews the stamp only.
IndexNext(p) ==
    /\ p \in DOMAIN todo /\ hashed
    /\ IF SameHash(p)
       THEN Becomes(Tracking(p, todo[p])) /\ UNCHANGED <<cache, torn>>
       ELSE /\ \E read \in Reads(p) : Track(p, todo[p], read)
            /\ IF full \/ todo[p].big THEN UNCHANGED cache ELSE InvalidateForFiles({p})
    /\ todo' = Restricted(todo, Paths \ {p})
    /\ full' = (full /\ DOMAIN todo' # {})
    /\ hashed' = (DOMAIN todo' # {})
    /\ UNCHANGED <<ghosts, clock, disk, synced>>

\* Mutant: the file keeps the hash it had.
OnFileChanged_KeepsHash(p) ==
    /\ IF p \notin DOMAIN disk
       THEN Dropped({p}) /\ InvalidateForFiles({p})
       ELSE IF p \in Skipped
       THEN UNCHANGED <<files, symbols, edges, modules, torn, ghosts, cache>>
       ELSE /\ \E read \in BOOLEAN :
                  LET known == IF p \in DOMAIN files THEN files[p].hash ELSE NoHash
                      i == Tracking(p, [Stamp(p) EXCEPT !.hash = known])
                  IN  /\ Becomes(IF Stamp(p).big THEN i ELSE IndexFile(i, p, read))
                      /\ torn' = IF read THEN torn \ {p} ELSE torn \cup {p}
            /\ InvalidateForFiles({p})
            /\ UNCHANGED ghosts
    /\ UNCHANGED <<todo, full, hashed, clock, disk, synced>>

\* on_file_changed: the file is indexed again, without a hash, if it is one
\* that may be tracked -- here a .gitignore is not asked.
OnFileChanged(p) ==
    /\ IF p \notin DOMAIN disk
       THEN Dropped({p}) /\ InvalidateForFiles({p})
       ELSE IF p \in Skipped
       THEN UNCHANGED <<files, symbols, edges, modules, torn, ghosts, cache>>
       ELSE /\ \E read \in BOOLEAN : Track(p, Stamp(p), read)
            /\ InvalidateForFiles({p})
            /\ UNCHANGED ghosts
    /\ UNCHANGED <<todo, full, hashed, clock, disk, synced>>

Invalidate(p) ==
    /\ Dropped({p})
    /\ InvalidateForFiles({p})
    /\ synced' = FALSE
    /\ UNCHANGED <<todo, full, hashed, clock, disk>>

InvalidateAll ==
    /\ files' = Nothing /\ symbols' = Nothing /\ edges' = {} /\ modules' = Nothing
    /\ torn' = {} /\ ghosts' = {}
    /\ cache' = {}
    /\ synced' = FALSE
    /\ UNCHANGED <<todo, full, hashed, clock, disk>>

\* Both command lines scan once when they start; the entries that keep the
\* index up are there for whoever calls them.
Maintain ==
    \/ (Empty \/ "force" \in Hooks) /\ FullScan
    \/ "refresh" \in Hooks /\ Refresh
    \/ "changed" \in Hooks /\ \E p \in Paths : OnFileChanged(p)
    \/ "dropped" \in Hooks /\ (InvalidateAll \/ \E p \in Paths : Invalidate(p))

-----------------------------------------------------------------------------
(* The tools, and whoever writes files.  Of what a tool finds it shows the  *)
(* files whose name matches, and of a walk those only that are not hidden,  *)
(* up to its limit.                                                        *)

\* GlobTool: the index, or a walk while that is empty.
Glob == IF Empty THEN DOMAIN disk ELSE DOMAIN files

\* What GrepTool shows of a result of search(): the files whose name matches
\* include, which is no part of the key of the cache.
Shown(e, include) == e.result \cap include

\* search() takes its result from the cache while that is young.
Served == {e \in cache : clock - e.at <= Ttl}

\* GrepTool: a walk while the index is empty, else search().  A new search may
\* miss files, by its limit or because they cannot be read.
Grep ==
    /\ ~Empty /\ Served = {}
    /\ \E raw \in SUBSET Hits : cache' = Remembered(raw)
    /\ UNCHANGED <<clock, disk, index, synced>>

Write(p, c) ==
    /\ clock < MaxClock
    /\ clock' = clock + 1
    /\ disk' = With(disk, p, [text |-> c, mtime |-> clock + 1])
    /\ synced' = FALSE
    /\ UNCHANGED <<index, cache>>

Delete(p) ==
    /\ p \in DOMAIN disk /\ clock < MaxClock
    /\ clock' = clock + 1
    /\ disk' = Restricted(disk, Paths \ {p})
    /\ synced' = FALSE
    /\ UNCHANGED <<index, cache>>

Tick ==
    /\ clock < MaxClock
    /\ clock' = clock + 1
    /\ UNCHANGED <<disk, index, cache, synced>>

Next ==
    \/ Idle /\ (Maintain \/ Grep)
    \/ Hash \/ Tick
    \/ \E p \in Paths : IndexNext(p) \/ Delete(p) \/ \E c \in Texts[p] : Write(p, c)

Spec == Init /\ [][Next]_vars

-----------------------------------------------------------------------------
\* A file whose stamp is that of the disk is indexed as it is now: neither the
\* hash guard of a refresh nor an event hook lets an old text through
\* ("incremental update (mtime/hash diffing)", intelligence/__init__.py:7),
\* unless the file is too long, could not be read when its turn came, or was
\* written while a scan was on its way to it.
SymbolsAreCurrent ==
    \A p \in (DOMAIN files \cap DOMAIN disk) \ (DOMAIN todo \cup torn) :
       files[p].mtime = disk[p].mtime /\ ~disk[p].text.big =>
          p \in DOMAIN symbols /\ symbols[p] = disk[p].text

\* What has been dropped is in no structure any more: symbols, edges and
\* registrations lead to files that are tracked, or to those that a full scan
\* of an index that was not empty has forgotten; no edge leads to its own file.
NothingDangles ==
    LET known == DOMAIN files \cup ghosts IN
    /\ DOMAIN symbols \subseteq known
    /\ \A e \in edges : e[1] \in known /\ e[2] \in known /\ e[1] # e[2]
    /\ \A m \in DOMAIN modules : modules[m] \in known

\* The tools answer from the index and its cache as a walk would, within what
\* the caches allow.  After a scan a glob lists what is there and may be indexed,
\* and nothing else ("the output contract is identical in both modes",
\* tools/search.py:34, is more than the code does).  A search is that of at most
\* Ttl ago: of the files that were not written since, it shows those in which
\* the pattern occurs, and all of them unless it was cut or could not read one.
\* A "no matches" is old news only when remembered hits were filtered out, as
\* negative results are not cached (intelligence/__init__.py:346).
AnswersAreHonest ==
    Idle =>
    /\ synced => Found \subseteq Glob /\ Glob \subseteq DOMAIN disk
    /\ \A e \in Served :
          /\ \A p \in DOMAIN disk : disk[p].mtime <= e.at =>
                /\ p \in e.result => p \in Hits
                /\ p \in Hits /\ e.whole => p \in e.result
          /\ \A include \in SUBSET Paths :
                Shown(e, include) = {} => e.result \ include # {}

-----------------------------------------------------------------------------
(* The inductive invariant.                                                *)

Stamps == [mtime : 0 .. clock, big : BOOLEAN, hash : SUBSET AllTexts]

TypeOK ==
    /\ clock \in Nat /\ full \in BOOLEAN /\ hashed \in BOOLEAN /\ synced \in BOOLEAN
    /\ torn \subseteq Paths /\ ghosts \subseteq Paths
    /\ DOMAIN disk \subseteq Paths
    /\ \A p \in DOMAIN disk : disk[p] \in [text : AllTexts, mtime : 0 .. clock]
    /\ DOMAIN files \subseteq Paths /\ \A p \in DOMAIN files : files[p] \in Stamps
    /\ DOMAIN todo \subseteq Paths /\ \A p \in DOMAIN todo : todo[p] \in Stamps
    /\ DOMAIN symbols \subseteq Paths
    /\ DOMAIN modules \subseteq Modules
    /\ \A e \in edges : e \in Paths \X Paths
    /\ \A e \in cache : e.at \in 0 .. clock

\* A stamp that is not yet used is that of a text that was there at its time,
\* and a full scan tracks what it has still to index.
TodoWasRead ==
    \A p \in DOMAIN todo :
       /\ p \in DOMAIN disk /\ disk[p].mtime = todo[p].mtime =>
             todo[p].hash \subseteq {disk[p].text} /\ todo[p].big = disk[p].text.big
       /\ full => p \in DOMAIN files

\* A hash that a refresh may compare is that of the text that is indexed, or of
\* one that is too long.
HashIsIndexed ==
    \A p \in DOMAIN files \ torn :
       \A c \in files[p].hash : c.big \/ (p \in DOMAIN symbols /\ symbols[p] = c)

\* What a scan has listed it has, or is about to index.
ScanIsWhole ==
    synced => LET listed == DOMAIN files \cup DOMAIN todo IN
                 Found \subseteq listed /\ listed \subseteq DOMAIN disk

\* A remembered search is right about what was not written since, and not empty.
CacheWasRight ==
    \A e \in cache :
       /\ e.result # {}
       /\ \A p \in DOMAIN disk : disk[p].mtime <= e.at =>
             /\ p \in e.result => p \in Hits
             /\ p \in Hits /\ e.whole => p \in e.result

IndexInv ==
    /\ TypeOK /\ TodoWasRead /\ HashIsIndexed /\ ScanIsWhole /\ CacheWasRight
    /\ SymbolsAreCurrent /\ NothingDangles
=============================================================================
