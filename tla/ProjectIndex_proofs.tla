------------------------- MODULE ProjectIndex_proofs -------------------------
(* The project index is right about the files it tracks, for any workspace,  *)
(* any texts and any order of scans, hooks, invalidations and writes.        *)
EXTENDS ProjectIndex, TLAPS

-----------------------------------------------------------------------------
(* What the operations on the index as a value do to its four parts.       *)

\* One file tracked: its stamp is new, and its symbols are as they were.
LEMMA TrackingStep ==
    ASSUME TypeOK, NothingDangles, NEW p \in Paths, NEW stamp,
           Becomes(Tracking(p, stamp)), UNCHANGED ghosts
    PROVE  /\ DOMAIN files' = DOMAIN files \cup {p} /\ files'[p] = stamp
           /\ \A q \in DOMAIN files \ {p} : files'[q] = files[q]
           /\ UNCHANGED <<symbols, edges, modules>>
           /\ NothingDangles'
<1>1. files' = With(files, p, stamp) /\ UNCHANGED <<symbols, edges, modules>>
  BY DEF Tracking, Becomes, Index
<1>2. /\ DOMAIN files' = DOMAIN files \cup {p} /\ files'[p] = stamp
      /\ \A q \in DOMAIN files \ {p} : files'[q] = files[q]
  BY <1>1 DEF With
<1>3. NothingDangles'
  BY <1>1, <1>2 DEF NothingDangles
<1> QED
  BY <1>1, <1>2, <1>3

\* One file indexed: its stamp and symbols are new, all else stays, and edges
\* and registrations lead to files that are known.
LEMMA IndexFileStep ==
    ASSUME TypeOK, NothingDangles, NEW p \in Paths, NEW stamp, NEW read \in Reads(p),
           Becomes(IndexFile(Tracking(p, stamp), p, read)), UNCHANGED ghosts
    PROVE  /\ DOMAIN files' = DOMAIN files \cup {p} /\ files'[p] = stamp
           /\ \A q \in DOMAIN files \ {p} : files'[q] = files[q]
           /\ \A q \in Paths \ {p} : /\ q \in DOMAIN symbols' <=> q \in DOMAIN symbols
                                     /\ q \in DOMAIN symbols => symbols'[q] = symbols[q]
           /\ read => /\ p \in DOMAIN disk /\ p \in DOMAIN symbols'
                      /\ symbols'[p] = disk[p].text
           /\ DOMAIN symbols' \subseteq Paths
           /\ DOMAIN modules' \subseteq Modules
           /\ \A e \in edges' : e \in Paths \X Paths
           /\ NothingDangles'
<1> DEFINE i == Tracking(p, stamp)
           imports == IF read THEN disk[p].text.imports ELSE {}
           found == {m \in imports : Resolve(i, m) \notin {None, p}}
<1>0. read \in BOOLEAN /\ (read => p \in DOMAIN disk)
  BY DEF Reads
<1>1. i = [files |-> With(files, p, stamp), symbols |-> symbols, edges |-> edges,
           modules |-> modules]
  BY DEF Tracking, Index
<1>2. /\ files' = With(files, p, stamp)
      /\ symbols' = IF read THEN With(symbols, p, disk[p].text)
                    ELSE Restricted(symbols, Paths \ {p})
      /\ edges' = {e \in edges : e[1] # p} \cup {<<p, Resolve(i, m)>> : m \in found}
      /\ modules' = [m \in DOMAIN modules \cup (imports \ found) |->
                        IF m \in imports \ found THEN p ELSE modules[m]]
  BY <1>1 DEF Becomes, IndexFile
<1>3. /\ DOMAIN files' = DOMAIN files \cup {p} /\ files'[p] = stamp
      /\ \A q \in DOMAIN files \ {p} : files'[q] = files[q]
  BY <1>2 DEF With
<1>4. /\ \A q \in Paths \ {p} : /\ q \in DOMAIN symbols' <=> q \in DOMAIN symbols
                                /\ q \in DOMAIN symbols => symbols'[q] = symbols[q]
      /\ read => p \in DOMAIN symbols' /\ symbols'[p] = disk[p].text
      /\ DOMAIN symbols' \subseteq DOMAIN symbols \cup {p}
  <2>1. CASE read
    BY <1>2, <2>1 DEF With
  <2>2. CASE ~read
    BY <1>2, <2>2 DEF Restricted
  <2> QED
    BY <1>0, <2>1, <2>2
<1>5. imports \subseteq Modules
  BY <1>0, IndexAssumption DEF TypeOK
<1>6. \A m \in found : /\ Resolve(i, m) \in DOMAIN files' \cup ghosts
                       /\ Resolve(i, m) \in Paths /\ Resolve(i, m) # p
  <2> SUFFICES ASSUME NEW m \in found
               PROVE  /\ Resolve(i, m) \in DOMAIN files' \cup ghosts
                      /\ Resolve(i, m) # p
    BY <1>3 DEF TypeOK
  <2>1. Resolve(i, m) = IF m \in DOMAIN modules THEN modules[m]
                        ELSE IF m \in DOMAIN files' THEN m ELSE None
    BY <1>1, <1>2 DEF Resolve
  <2>2. Resolve(i, m) # None /\ Resolve(i, m) # p
    OBVIOUS
  <2> QED
    BY <1>3, <2>1, <2>2 DEF NothingDangles
<1> HIDE DEF i, imports, found
<1>7. DOMAIN modules' \subseteq Modules
  BY <1>2, <1>5 DEF TypeOK
<1>8. \A e \in edges' : /\ e[1] \in DOMAIN files' \cup ghosts
                        /\ e[2] \in DOMAIN files' \cup ghosts /\ e[1] # e[2]
  BY <1>2, <1>3, <1>6 DEF NothingDangles
<1>9. \A e \in edges' : e \in Paths \X Paths
  BY <1>2, <1>6 DEF TypeOK
<1>10. \A m \in DOMAIN modules' : modules'[m] \in DOMAIN files' \cup ghosts
  BY <1>2, <1>3 DEF NothingDangles
<1>11. DOMAIN symbols' \subseteq DOMAIN files' \cup ghosts
  BY <1>3, <1>4 DEF NothingDangles
<1>12. NothingDangles'
  BY <1>8, <1>10, <1>11 DEF NothingDangles
<1>13. DOMAIN symbols' \subseteq Paths
  BY <1>4 DEF TypeOK
<1> QED
  BY <1>0, <1>3, <1>4, <1>7, <1>9, <1>12, <1>13

\* A file that is not torn has the symbols its hash promises, and those of its
\* text unless it is too long.
LEMMA TrackStep ==
    ASSUME TypeOK, NothingDangles, NEW p \in Paths, NEW stamp \in Stamps,
           NEW read \in Reads(p), Track(p, stamp, read), UNCHANGED ghosts
    PROVE  /\ DOMAIN files' = DOMAIN files \cup {p} /\ files'[p] = stamp
           /\ \A q \in DOMAIN files \ {p} : files'[q] = files[q]
           /\ \A q \in Paths \ {p} : /\ q \in DOMAIN symbols' <=> q \in DOMAIN symbols
                                     /\ q \in DOMAIN symbols => symbols'[q] = symbols[q]
                                     /\ q \in torn' <=> q \in torn
           /\ p \notin torn' => \A c \in stamp.hash :
                 c.big \/ (p \in DOMAIN symbols' /\ symbols'[p] = c)
           /\ p \notin torn' /\ ~stamp.big =>
                 p \in DOMAIN symbols' /\ symbols'[p] = disk[p].text
           /\ torn' \subseteq Paths
           /\ DOMAIN symbols' \subseteq Paths
           /\ DOMAIN modules' \subseteq Modules
           /\ \A e \in edges' : e \in Paths \X Paths
           /\ NothingDangles'
<1>1. CASE stamp.big
  <2>1. /\ Becomes(Tracking(p, stamp))
        /\ torn' = IF \A c \in stamp.hash : c.big THEN torn \ {p} ELSE torn \cup {p}
    BY <1>1 DEF Track
  <2>2. /\ torn' \subseteq Paths /\ (p \notin torn' => \A c \in stamp.hash : c.big)
        /\ \A q \in Paths \ {p} : q \in torn' <=> q \in torn
    BY <2>1 DEF TypeOK
  <2> QED
    BY <1>1, <2>1, <2>2, TrackingStep DEF TypeOK
<1>2. CASE ~stamp.big
  <2>1. /\ Becomes(IndexFile(Tracking(p, stamp), p, read))
        /\ torn' = IF read /\ stamp.hash \subseteq {disk[p].text} THEN torn \ {p}
                   ELSE torn \cup {p}
    BY <1>2 DEF Track
  <2>2. /\ torn' \subseteq Paths
        /\ p \notin torn' => read /\ stamp.hash \subseteq {disk[p].text}
        /\ \A q \in Paths \ {p} : q \in torn' <=> q \in torn
    BY <2>1 DEF TypeOK
  <2> QED
    BY <2>1, <2>2, IndexFileStep
<1> QED
  BY <1>1, <1>2

\* Files dropped: they are in no part any more, and nothing else has changed.
LEMMA DroppedStep ==
    ASSUME TypeOK, NothingDangles, NEW S, Dropped(S)
    PROVE  /\ DOMAIN files' = DOMAIN files \ S /\ DOMAIN symbols' = DOMAIN symbols \ S
           /\ \A q \in DOMAIN files' : files'[q] = files[q]
           /\ \A q \in DOMAIN symbols' : symbols'[q] = symbols[q]
           /\ torn' = torn \ S /\ ghosts' \subseteq Paths
           /\ DOMAIN modules' \subseteq Modules
           /\ \A e \in edges' : e \in Paths \X Paths
           /\ NothingDangles'
<1>1. /\ files' = Restricted(files, Paths \ S)
      /\ symbols' = Restricted(symbols, Paths \ S)
      /\ edges' = {e \in edges : e[1] \notin S /\ e[2] \notin S}
      /\ modules' = Restricted(modules, {m \in DOMAIN modules : modules[m] \notin S})
      /\ torn' = torn \ S /\ ghosts' = ghosts \ S
  BY DEF Dropped, Becomes, DropFiles, Index
<1>2. /\ DOMAIN files' = DOMAIN files \ S /\ DOMAIN symbols' = DOMAIN symbols \ S
      /\ \A q \in DOMAIN files' : files'[q] = files[q]
      /\ \A q \in DOMAIN symbols' : symbols'[q] = symbols[q]
  BY <1>1 DEF Restricted, TypeOK
<1>3. /\ \A m \in DOMAIN modules' : m \in DOMAIN modules /\ modules'[m] = modules[m]
                                    /\ modules[m] \notin S
  BY <1>1 DEF Restricted
<1>4. NothingDangles'
  BY <1>1, <1>2, <1>3 DEF NothingDangles
<1> QED
  BY <1>1, <1>2, <1>3, <1>4 DEF TypeOK

\* Results that are thrown away leave results that are right.
LEMMA CacheShrinks ==
    ASSUME TypeOK, CacheWasRight, UNCHANGED <<disk, clock>>,
           cache' = cache \/ \E S : InvalidateForFiles(S)
    PROVE  CacheWasRight' /\ \A e \in cache' : e.at \in 0 .. clock'
<1>1. cache' \subseteq cache
  BY DEF InvalidateForFiles
<1>2. Hits' = Hits
  BY DEF Hits
<1> QED
  BY <1>1, <1>2 DEF CacheWasRight, TypeOK

\* A stamp has the time and the size of its file, and no hash yet.
LEMMA StampOf ==
    ASSUME TypeOK, NEW p \in DOMAIN disk
    PROVE  /\ Stamp(p) \in Stamps /\ Stamp(p).hash = NoHash
           /\ Stamp(p).mtime = disk[p].mtime /\ Stamp(p).big = disk[p].text.big
BY IndexAssumption DEF TypeOK, Stamp, Stamps, NoHash

-----------------------------------------------------------------------------
(* The steps keep the invariant.                                           *)

\* A full scan forgets no part of the index but the table of files.
LEMMA FullScanKeeps ==
    ASSUME IndexInv, FullScan
    PROVE  IndexInv'
<1> USE DEF IndexInv
<1>1. /\ files' = [p \in Found |-> Stamp(p)] /\ todo' = files'
      /\ full' = (Found # {}) /\ hashed' = FALSE /\ synced' = TRUE
      /\ ghosts' = (ghosts \cup DOMAIN files) \ Found
      /\ UNCHANGED <<clock, disk, symbols, edges, modules, torn, cache>>
      /\ Stamps' = Stamps /\ Found' = Found
  BY DEF FullScan, Stamps, Found
<1>2. Found \subseteq DOMAIN disk /\ Found \subseteq Paths
  BY DEF Found, TypeOK
<1>3. \A p \in Found : /\ files'[p] \in Stamps /\ files'[p].hash = NoHash
                       /\ files'[p].mtime = disk[p].mtime
                       /\ files'[p].big = disk[p].text.big
  BY <1>1, <1>2, StampOf
<1>4. CacheWasRight' /\ \A e \in cache' : e.at \in 0 .. clock'
  BY <1>1, CacheShrinks
<1>5. ghosts' \subseteq Paths /\ DOMAIN files \cup ghosts \subseteq DOMAIN files' \cup ghosts'
  BY <1>1, <1>2 DEF TypeOK
<1>6. TypeOK'
  BY <1>1, <1>2, <1>3, <1>4, <1>5 DEF TypeOK
<1>7. TodoWasRead' /\ HashIsIndexed'
  BY <1>1, <1>3 DEF TodoWasRead, HashIsIndexed, NoHash
<1>8. ScanIsWhole' /\ SymbolsAreCurrent'
  BY <1>1, <1>2 DEF ScanIsWhole, SymbolsAreCurrent
<1>9. NothingDangles'
  BY <1>1, <1>5 DEF NothingDangles
<1> QED
  BY <1>4, <1>6, <1>7, <1>8, <1>9

\* A refresh drops what is gone and takes the stamps of what has changed.
LEMMA RefreshKeeps ==
    ASSUME IndexInv, Idle, Refresh
    PROVE  IndexInv'
<1> USE DEF IndexInv
<1>1. /\ Dropped(Gone) /\ InvalidateForFiles(Gone)
      /\ todo' = [p \in Changed |-> Stamp(p)]
      /\ full' = FALSE /\ hashed' = FALSE /\ synced' = TRUE
      /\ UNCHANGED <<clock, disk>> /\ Stamps' = Stamps /\ Found' = Found
  BY DEF Refresh, Stamps, Found
<1>2. /\ DOMAIN files' = DOMAIN files \ Gone /\ DOMAIN symbols' = DOMAIN symbols \ Gone
      /\ \A q \in DOMAIN files' : files'[q] = files[q]
      /\ \A q \in DOMAIN symbols' : symbols'[q] = symbols[q]
      /\ torn' = torn \ Gone /\ ghosts' \subseteq Paths
      /\ DOMAIN modules' \subseteq Modules
      /\ \A e \in edges' : e \in Paths \X Paths
      /\ NothingDangles'
  BY <1>1, DroppedStep
<1>3. Changed \subseteq Found /\ Found \subseteq DOMAIN disk /\ DOMAIN disk \subseteq Paths
  BY DEF Changed, Found, TypeOK
<1>4. \A p \in Changed : /\ todo'[p] \in Stamps /\ todo'[p].hash = NoHash
                         /\ todo'[p].big = disk[p].text.big
  BY <1>1, <1>3, StampOf
<1>5. CacheWasRight' /\ \A e \in cache' : e.at \in 0 .. clock'
  BY <1>1, CacheShrinks
<1>6. TypeOK'
  BY <1>1, <1>2, <1>3, <1>4, <1>5 DEF TypeOK
<1>7. TodoWasRead'
  BY <1>1, <1>4 DEF TodoWasRead, NoHash
<1>8. HashIsIndexed'
  BY <1>2 DEF HashIsIndexed, TypeOK, Gone
<1>9. ScanIsWhole'
  BY <1>1, <1>2, <1>3 DEF ScanIsWhole, Changed, Gone
<1>10. SymbolsAreCurrent'
  <2> SUFFICES ASSUME NEW p \in DOMAIN files', p \in DOMAIN disk, p \notin torn',
                      files'[p].mtime = disk[p].mtime, ~disk[p].text.big
               PROVE  p \in DOMAIN symbols' /\ symbols'[p] = disk[p].text
    BY <1>1 DEF SymbolsAreCurrent
  <2>1. p \in DOMAIN files /\ p \notin Gone /\ p \notin torn /\ files'[p] = files[p]
    BY <1>2
  <2>2. p \in DOMAIN symbols /\ symbols[p] = disk[p].text
    BY <2>1 DEF SymbolsAreCurrent, Idle
  <2> QED
    BY <1>2, <2>1, <2>2
<1> QED
  BY <1>2, <1>5, <1>6, <1>7, <1>8, <1>9, <1>10

\* The hash that is taken is that of the text that is there.
LEMMA HashKeeps ==
    ASSUME IndexInv, Hash
    PROVE  IndexInv'
<1> USE DEF IndexInv
<1>1. /\ hashed' = TRUE /\ Stamps' = Stamps
      /\ UNCHANGED <<clock, disk, files, symbols, edges, modules, full, torn, ghosts, cache, synced>>
  BY DEF Hash, Stamps
<1>2. PICK read \in SUBSET (DOMAIN todo \cap DOMAIN disk) :
        todo' = [p \in DOMAIN todo |->
                  [todo[p] EXCEPT !.hash = IF p \in read THEN {disk[p].text} ELSE NoHash]]
  BY DEF Hash
<1>3. \A p \in DOMAIN todo :
         /\ todo'[p] \in Stamps
         /\ todo'[p].mtime = todo[p].mtime /\ todo'[p].big = todo[p].big
         /\ p \in DOMAIN disk => todo'[p].hash \subseteq {disk[p].text}
  <2> SUFFICES ASSUME NEW p \in DOMAIN todo
               PROVE  /\ todo'[p] \in Stamps
                      /\ todo'[p].mtime = todo[p].mtime /\ todo'[p].big = todo[p].big
                      /\ p \in DOMAIN disk => todo'[p].hash \subseteq {disk[p].text}
    OBVIOUS
  <2> DEFINE h == IF p \in read THEN {disk[p].text} ELSE NoHash
  <2>1. todo[p] \in Stamps /\ todo'[p] = [todo[p] EXCEPT !.hash = h]
    BY <1>2 DEF TypeOK
  <2>2. h \subseteq AllTexts /\ (p \in DOMAIN disk => h \subseteq {disk[p].text})
    BY <1>2 DEF TypeOK, NoHash
  <2> HIDE DEF h
  <2> QED
    BY <2>1, <2>2 DEF Stamps
<1>4. DOMAIN todo' = DOMAIN todo
  BY <1>2
<1>5. CacheWasRight' /\ \A e \in cache' : e.at \in 0 .. clock'
  BY <1>1, CacheShrinks
<1>6. TypeOK'
  BY <1>1, <1>3, <1>4, <1>5 DEF TypeOK
<1>7. TodoWasRead'
  BY <1>1, <1>3, <1>4 DEF TodoWasRead
<1>8. HashIsIndexed' /\ SymbolsAreCurrent' /\ NothingDangles'
  BY <1>1, <1>4 DEF HashIsIndexed, SymbolsAreCurrent, NothingDangles
<1>9. ScanIsWhole'
  BY <1>1, <1>4 DEF ScanIsWhole, Found
<1> QED
  BY <1>5, <1>6, <1>7, <1>8, <1>9

\* The next file of a scan: the hash that is kept is that of the text that was
\* indexed, or the file counts as torn.
LEMMA IndexNextKeeps ==
    ASSUME IndexInv, NEW p \in Paths, IndexNext(p)
    PROVE  IndexInv'
<1> USE DEF IndexInv
<1>1. /\ p \in DOMAIN todo /\ todo[p] \in Stamps
      /\ UNCHANGED <<ghosts, clock, disk, synced>> /\ Stamps' = Stamps /\ Found' = Found
      /\ full' = (full /\ DOMAIN todo' # {}) /\ hashed' = (DOMAIN todo' # {})
      /\ todo' = Restricted(todo, Paths \ {p})
  BY DEF IndexNext, TypeOK, Stamps, Found
<1>2. /\ DOMAIN todo' = DOMAIN todo \ {p}
      /\ \A q \in DOMAIN todo' : todo'[q] = todo[q]
  BY <1>1 DEF Restricted, TypeOK
<1>3. full' \in BOOLEAN /\ hashed' \in BOOLEAN /\ (full' => full)
  BY <1>1
<1>4. CacheWasRight' /\ \A e \in cache' : e.at \in 0 .. clock'
  BY <1>1, CacheShrinks DEF IndexNext
<1>5. CASE SameHash(p)
  <2>1. /\ Becomes(Tracking(p, todo[p])) /\ UNCHANGED torn
        /\ p \in DOMAIN files /\ files[p].hash # NoHash /\ files[p].hash = todo[p].hash
    BY <1>5 DEF IndexNext, SameHash
  <2>2. /\ DOMAIN files' = DOMAIN files \cup {p} /\ files'[p] = todo[p]
        /\ \A q \in DOMAIN files \ {p} : files'[q] = files[q]
        /\ UNCHANGED <<symbols, edges, modules>>
        /\ NothingDangles'
    BY <1>1, <2>1, TrackingStep
  <2>3. TypeOK'
    BY <1>1, <1>2, <1>3, <1>4, <2>1, <2>2 DEF TypeOK
  <2>4. TodoWasRead' /\ ScanIsWhole'
    BY <1>1, <1>2, <1>3, <2>2 DEF TodoWasRead, ScanIsWhole
  <2>5. HashIsIndexed'
    BY <2>1, <2>2 DEF HashIsIndexed
  <2>6. SymbolsAreCurrent'
    <3> SUFFICES ASSUME NEW q \in DOMAIN files', q \in DOMAIN disk, q \notin DOMAIN todo',
                        q \notin torn', files'[q].mtime = disk[q].mtime, ~disk[q].text.big
                 PROVE  q \in DOMAIN symbols' /\ symbols'[q] = disk[q].text
      BY <1>1 DEF SymbolsAreCurrent
    <3>1. CASE q # p
      BY <1>2, <2>1, <2>2, <3>1 DEF SymbolsAreCurrent
    <3>2. CASE q = p
      <4>1. todo[p].hash \subseteq {disk[p].text}
        BY <1>1, <2>2, <3>2 DEF TodoWasRead
      <4>2. disk[p].text \in files[p].hash
        BY <2>1, <4>1 DEF NoHash
      <4> QED
        BY <2>1, <2>2, <3>2, <4>2 DEF HashIsIndexed
    <3> QED
      BY <3>1, <3>2
  <2> QED
    BY <1>4, <2>2, <2>3, <2>4, <2>5, <2>6
<1>6. CASE ~SameHash(p)
  <2>1. PICK read \in Reads(p) : Track(p, todo[p], read)
    BY <1>6 DEF IndexNext
  <2>2. /\ DOMAIN files' = DOMAIN files \cup {p} /\ files'[p] = todo[p]
        /\ \A q \in DOMAIN files \ {p} : files'[q] = files[q]
        /\ \A q \in Paths \ {p} : /\ q \in DOMAIN symbols' <=> q \in DOMAIN symbols
                                  /\ q \in DOMAIN symbols => symbols'[q] = symbols[q]
                                  /\ q \in torn' <=> q \in torn
        /\ p \notin torn' => \A c \in todo[p].hash :
              c.big \/ (p \in DOMAIN symbols' /\ symbols'[p] = c)
        /\ p \notin torn' /\ ~todo[p].big =>
              p \in DOMAIN symbols' /\ symbols'[p] = disk[p].text
        /\ torn' \subseteq Paths
        /\ DOMAIN symbols' \subseteq Paths
        /\ DOMAIN modules' \subseteq Modules
        /\ \A e \in edges' : e \in Paths \X Paths
        /\ NothingDangles'
    BY <1>1, <2>1, TrackStep
  <2>3. TypeOK'
    BY <1>1, <1>2, <1>3, <1>4, <2>2 DEF TypeOK
  <2>4. TodoWasRead' /\ ScanIsWhole'
    BY <1>1, <1>2, <1>3, <2>2 DEF TodoWasRead, ScanIsWhole
  <2>5. HashIsIndexed'
    BY <2>2 DEF HashIsIndexed, TypeOK
  <2>6. SymbolsAreCurrent'
    <3> SUFFICES ASSUME NEW q \in DOMAIN files', q \in DOMAIN disk, q \notin DOMAIN todo',
                        q \notin torn', files'[q].mtime = disk[q].mtime, ~disk[q].text.big
                 PROVE  q \in DOMAIN symbols' /\ symbols'[q] = disk[q].text
      BY <1>1 DEF SymbolsAreCurrent
    <3>1. CASE q # p
      BY <1>2, <2>2, <3>1 DEF SymbolsAreCurrent, TypeOK
    <3>2. CASE q = p
      <4>1. todo[p].big = disk[p].text.big
        BY <1>1, <2>2, <3>2 DEF TodoWasRead
      <4> QED
        BY <2>2, <3>2, <4>1
    <3> QED
      BY <3>1, <3>2
  <2> QED
    BY <1>4, <2>2, <2>3, <2>4, <2>5, <2>6
<1> QED
  BY <1>5, <1>6

\* Dropping one file takes nothing from the others.
LEMMA DropKeeps ==
    ASSUME IndexInv, Idle, NEW p \in Paths, Dropped({p}), InvalidateForFiles({p}),
           UNCHANGED <<todo, full, hashed, clock, disk>>,
           synced' = FALSE \/ (synced' = synced /\ p \notin DOMAIN disk)
    PROVE  IndexInv'
<1> USE DEF IndexInv
<1>1. Stamps' = Stamps /\ Found' = Found /\ DOMAIN todo = {} /\ synced' \in BOOLEAN
  BY DEF Stamps, Found, Idle, TypeOK
<1>2. /\ DOMAIN files' = DOMAIN files \ {p} /\ DOMAIN symbols' = DOMAIN symbols \ {p}
      /\ \A q \in DOMAIN files' : files'[q] = files[q]
      /\ \A q \in DOMAIN symbols' : symbols'[q] = symbols[q]
      /\ torn' = torn \ {p} /\ ghosts' \subseteq Paths
      /\ DOMAIN modules' \subseteq Modules
      /\ \A e \in edges' : e \in Paths \X Paths
      /\ NothingDangles'
  BY DroppedStep
<1>3. CacheWasRight' /\ \A e \in cache' : e.at \in 0 .. clock'
  BY CacheShrinks
<1>4. TypeOK'
  BY <1>1, <1>2, <1>3 DEF TypeOK
<1>5. TodoWasRead' /\ HashIsIndexed' /\ SymbolsAreCurrent'
  BY <1>1, <1>2 DEF TodoWasRead, HashIsIndexed, SymbolsAreCurrent
<1>6. ScanIsWhole'
  BY <1>1, <1>2 DEF ScanIsWhole, Found
<1> QED
  BY <1>2, <1>3, <1>4, <1>5, <1>6

\* The hook gives the file no hash, so that no refresh is misled by it.
LEMMA ChangedKeeps ==
    ASSUME IndexInv, Idle, NEW p \in Paths, OnFileChanged(p)
    PROVE  IndexInv'
<1> USE DEF IndexInv
<1>1. /\ UNCHANGED <<todo, full, hashed, clock, disk, synced>>
      /\ Stamps' = Stamps /\ Found' = Found /\ DOMAIN todo = {}
  BY DEF OnFileChanged, Stamps, Found, Idle
<1>2. CASE p \notin DOMAIN disk
  BY <1>1, <1>2, DropKeeps DEF OnFileChanged
<1>3. CASE p \in DOMAIN disk /\ p \in Skipped
  <2>1. UNCHANGED <<files, symbols, edges, modules, torn, ghosts, cache>>
    BY <1>3 DEF OnFileChanged
  <2> QED
    BY <1>1, <2>1, CacheShrinks
       DEF TypeOK, TodoWasRead, HashIsIndexed, ScanIsWhole, SymbolsAreCurrent, NothingDangles
<1>4. CASE p \in DOMAIN disk /\ p \notin Skipped
  <2>1. PICK read \in BOOLEAN : Track(p, Stamp(p), read)
    BY <1>4 DEF OnFileChanged
  <2>2. InvalidateForFiles({p}) /\ UNCHANGED ghosts /\ read \in Reads(p)
    BY <1>4 DEF OnFileChanged, Reads
  <2> DEFINE stamp == Stamp(p)
  <2>3. /\ stamp \in Stamps /\ stamp.hash = {} /\ stamp.big = disk[p].text.big
    BY <1>4, StampOf DEF NoHash
  <2> HIDE DEF stamp
  <2>4. /\ DOMAIN files' = DOMAIN files \cup {p} /\ files'[p] = stamp
        /\ \A q \in DOMAIN files \ {p} : files'[q] = files[q]
        /\ \A q \in Paths \ {p} : /\ q \in DOMAIN symbols' <=> q \in DOMAIN symbols
                                  /\ q \in DOMAIN symbols => symbols'[q] = symbols[q]
                                  /\ q \in torn' <=> q \in torn
        /\ p \notin torn' /\ ~stamp.big =>
              p \in DOMAIN symbols' /\ symbols'[p] = disk[p].text
        /\ torn' \subseteq Paths
        /\ DOMAIN symbols' \subseteq Paths
        /\ DOMAIN modules' \subseteq Modules
        /\ \A e \in edges' : e \in Paths \X Paths
        /\ NothingDangles'
    BY <2>1, <2>2, <2>3, TrackStep DEF stamp
  <2>5. CacheWasRight' /\ \A e \in cache' : e.at \in 0 .. clock'
    BY <1>1, <2>2, CacheShrinks
  <2>6. TypeOK'
    BY <1>1, <2>2, <2>3, <2>4, <2>5 DEF TypeOK
  <2>7. TodoWasRead' /\ ScanIsWhole'
    BY <1>1, <1>4, <2>4 DEF TodoWasRead, ScanIsWhole
  <2>8. HashIsIndexed'
    BY <2>3, <2>4 DEF HashIsIndexed, TypeOK
  <2>9. SymbolsAreCurrent'
    BY <1>1, <2>3, <2>4 DEF SymbolsAreCurrent, TypeOK
  <2> QED
    BY <2>4, <2>5, <2>6, <2>7, <2>8, <2>9
<1> QED
  BY <1>2, <1>3, <1>4

\* What is invalidated is gone from every part.
LEMMA InvalidateKeeps ==
    ASSUME IndexInv, Idle, InvalidateAll \/ \E p \in Paths : Invalidate(p)
    PROVE  IndexInv'
<1> USE DEF IndexInv
<1>1. CASE \E p \in Paths : Invalidate(p)
  BY <1>1, DropKeeps DEF Invalidate
<1>2. CASE InvalidateAll
  <2>1. /\ files' = Nothing /\ symbols' = Nothing /\ edges' = {} /\ modules' = Nothing
        /\ torn' = {} /\ ghosts' = {} /\ cache' = {} /\ synced' = FALSE
        /\ UNCHANGED <<todo, full, hashed, clock, disk>> /\ DOMAIN todo = {}
        /\ Stamps' = Stamps
    BY <1>2 DEF InvalidateAll, Idle, Stamps
  <2>2. DOMAIN Nothing = {}
    BY DEF Nothing
  <2> QED
    BY <2>1, <2>2
       DEF TypeOK, TodoWasRead, HashIsIndexed, ScanIsWhole, CacheWasRight,
           SymbolsAreCurrent, NothingDangles
<1> QED
  BY <1>1, <1>2

\* Only what is not empty is remembered, and it is of the files as they are.
LEMMA GrepKeeps ==
    ASSUME IndexInv, Grep
    PROVE  IndexInv'
<1> USE DEF IndexInv
<1>1. UNCHANGED <<clock, disk, files, symbols, edges, modules, todo, full, hashed, torn,
                  ghosts, synced>> /\ Stamps' = Stamps /\ Hits' = Hits /\ Found' = Found
  BY DEF Grep, index, Stamps, Hits, Found
<1>2. PICK raw \in SUBSET Hits : cache' = Remembered(raw)
  BY DEF Grep
<1>3. \A e \in cache' : /\ e.result = raw /\ e.at = clock /\ raw # {}
                        /\ e.whole = (raw = Hits)
  BY <1>2 DEF Remembered
<1>4. clock \in 0 .. clock
  BY DEF TypeOK
<1>5. TypeOK'
  BY <1>1, <1>3, <1>4 DEF TypeOK
<1>6. CacheWasRight'
  BY <1>1, <1>3 DEF CacheWasRight
<1>7. /\ TodoWasRead' /\ HashIsIndexed' /\ ScanIsWhole'
      /\ SymbolsAreCurrent' /\ NothingDangles'
  BY <1>1 DEF TodoWasRead, HashIsIndexed, ScanIsWhole, SymbolsAreCurrent, NothingDangles
<1> QED
  BY <1>5, <1>6, <1>7

\* A write gives the file a time that no stamp and no search has.
LEMMA WritersKeep ==
    ASSUME IndexInv,
           Tick \/ \E p \in Paths : Delete(p) \/ \E c \in Texts[p] : Write(p, c)
    PROVE  IndexInv'
<1> USE DEF IndexInv
<1>1. /\ clock \in Nat /\ clock' = clock + 1
      /\ UNCHANGED <<files, symbols, edges, modules, todo, full, hashed, torn, ghosts, cache>>
      /\ synced' = FALSE \/ (synced' = synced /\ disk' = disk)
  BY DEF Write, Delete, Tick, index, TypeOK
<1>2. 0 .. clock \subseteq 0 .. clock' /\ clock' \notin 0 .. clock /\ clock' \in 0 .. clock'
  BY <1>1
<1>3. Stamps \subseteq Stamps'
  BY <1>2 DEF Stamps
<1>4. \A q \in DOMAIN disk' :
         \/ q \in DOMAIN disk /\ disk'[q] = disk[q]
         \/ q \in Paths /\ \E c \in AllTexts : disk'[q] = [text |-> c, mtime |-> clock']
  <2>1. CASE \E p \in Paths : \E c \in Texts[p] : Write(p, c)
    BY <1>1, <2>1 DEF Write, With, AllTexts
  <2>2. CASE \E p \in Paths : Delete(p)
    BY <2>2 DEF Delete, Restricted
  <2>3. CASE Tick
    BY <2>3 DEF Tick
  <2> QED
    BY <2>1, <2>2, <2>3
<1>5. \A q \in DOMAIN disk' : disk'[q] \in [text : AllTexts, mtime : 0 .. clock']
  <2> SUFFICES ASSUME NEW q \in DOMAIN disk'
               PROVE  disk'[q] \in [text : AllTexts, mtime : 0 .. clock']
    OBVIOUS
  <2>1. CASE q \in DOMAIN disk /\ disk'[q] = disk[q]
    BY <1>2, <2>1 DEF TypeOK
  <2>2. CASE \E c \in AllTexts : disk'[q] = [text |-> c, mtime |-> clock']
    BY <1>2, <2>2
  <2> QED
    BY <1>4, <2>1, <2>2
<1>6. TypeOK'
  <2>1. DOMAIN disk' \subseteq Paths
    BY <1>4 DEF TypeOK
  <2>2. /\ \A p \in DOMAIN files' : files'[p] \in Stamps'
        /\ \A p \in DOMAIN todo' : todo'[p] \in Stamps'
    BY <1>1, <1>3 DEF TypeOK
  <2>3. clock' \in Nat /\ \A e \in cache' : e.at \in 0 .. clock'
    BY <1>1, <1>2 DEF TypeOK
  <2>4. synced' \in BOOLEAN /\ full' \in BOOLEAN /\ hashed' \in BOOLEAN
    BY <1>1, Zenon DEF TypeOK
  <2> QED
    BY <1>1, <1>5, <2>1, <2>2, <2>3, <2>4 DEF TypeOK
<1>7. \A s \in Stamps : s.mtime # clock'
  BY <1>2 DEF Stamps
<1>8. \A q \in DOMAIN disk', s \in Stamps : disk'[q].mtime = s.mtime =>
         q \in DOMAIN disk /\ disk'[q] = disk[q]
  BY <1>4, <1>7
<1>9. TodoWasRead'
  BY <1>1, <1>8 DEF TodoWasRead, TypeOK
<1>10. SymbolsAreCurrent'
  BY <1>1, <1>8 DEF SymbolsAreCurrent, TypeOK
<1>11. CacheWasRight'
  <2> SUFFICES ASSUME NEW e \in cache, NEW p \in DOMAIN disk', disk'[p].mtime <= e.at
               PROVE  /\ p \in e.result => p \in Hits'
                      /\ p \in Hits' /\ e.whole => p \in e.result
    BY <1>1 DEF CacheWasRight
  <2>1. disk'[p].mtime # clock'
    BY <1>1 DEF TypeOK
  <2>2. p \in DOMAIN disk /\ disk'[p] = disk[p]
    BY <1>4, <2>1
  <2>3. p \in Hits' <=> p \in Hits
    BY <2>2 DEF Hits
  <2> QED
    BY <2>2, <2>3 DEF CacheWasRight
<1>12. HashIsIndexed' /\ ScanIsWhole' /\ NothingDangles'
  BY <1>1 DEF HashIsIndexed, ScanIsWhole, NothingDangles, Found
<1> QED
  BY <1>6, <1>9, <1>10, <1>11, <1>12

-----------------------------------------------------------------------------
(* The theorems.                                                           *)

\* The inductive invariant holds in every state.
THEOREM IndexInvariant == Spec => []IndexInv
<1>1. ASSUME Init PROVE IndexInv
  <2>1. DOMAIN Nothing = {}
    BY DEF Nothing
  <2>2. PICK S \in SUBSET Paths : \E text \in [S -> AllTexts] :
           disk = [p \in S |-> [text |-> text[p], mtime |-> 0]]
    BY <1>1 DEF Init
  <2>3. DOMAIN disk \subseteq Paths
        /\ \A p \in DOMAIN disk : disk[p] \in [text : AllTexts, mtime : 0 .. 0]
    BY <2>2
  <2>4. TypeOK
    BY <1>1, <2>1, <2>3 DEF Init, TypeOK
  <2> QED
    BY <1>1, <2>1, <2>4
       DEF Init, IndexInv, TodoWasRead, HashIsIndexed, ScanIsWhole, CacheWasRight,
           SymbolsAreCurrent, NothingDangles
<1>2. ASSUME IndexInv, [Next]_vars PROVE IndexInv'
  <2>1. CASE Idle /\ Maintain
    BY <1>2, <2>1, FullScanKeeps, RefreshKeeps, ChangedKeeps, InvalidateKeeps DEF Maintain
  <2>2. CASE Idle /\ Grep
    BY <1>2, <2>2, GrepKeeps
  <2>3. CASE Tick \/ \E p \in Paths : Delete(p) \/ \E c \in Texts[p] : Write(p, c)
    BY <1>2, <2>3, WritersKeep
  <2>4. CASE \E p \in Paths : IndexNext(p)
    BY <1>2, <2>4, IndexNextKeeps
  <2>5. CASE Hash
    BY <1>2, <2>5, HashKeeps
  <2>6. CASE UNCHANGED vars
    BY <1>2, <2>6
       DEF vars, index, IndexInv, TypeOK, Stamps, TodoWasRead, HashIsIndexed, ScanIsWhole,
           CacheWasRight, SymbolsAreCurrent, NothingDangles, Found, Hits
  <2> QED
    BY <1>2, <2>1, <2>2, <2>3, <2>4, <2>5, <2>6 DEF Next
<1> QED
  BY <1>1, <1>2, PTL DEF Spec

\* A tracked file whose stamp is that of the disk is indexed as it is now,
\* through every mix of full scans, refreshes, hooks and invalidations, unless
\* it is too long, was not read or was written on the way.
THEOREM IndexIsCurrent == Spec => []SymbolsAreCurrent
<1>1. IndexInv => SymbolsAreCurrent
  BY DEF IndexInv
<1> QED
  BY <1>1, IndexInvariant, PTL

\* Symbols, edges and registrations lead to no file that _drop_file has taken
\* away, only to tracked ones and to those a full scan has forgotten.
THEOREM IndexNeverDangles == Spec => []NothingDangles
<1>1. IndexInv => NothingDangles
  BY DEF IndexInv
<1> QED
  BY <1>1, IndexInvariant, PTL

\* glob lists what a scan found; grep answers for what was not written since a
\* search at most Ttl ago, and never from a remembered search that found nothing.
THEOREM ToolsAreHonest == Spec => []AnswersAreHonest
<1>1. IndexInv => AnswersAreHonest
  <2> SUFFICES ASSUME IndexInv, Idle
               PROVE  /\ synced => Found \subseteq Glob /\ Glob \subseteq DOMAIN disk
                      /\ \A e \in Served :
                            /\ \A p \in DOMAIN disk : disk[p].mtime <= e.at =>
                                  /\ p \in e.result => p \in Hits
                                  /\ p \in Hits /\ e.whole => p \in e.result
                            /\ \A include \in SUBSET Paths :
                                  Shown(e, include) = {} => e.result \ include # {}
    BY DEF AnswersAreHonest
  <2>1. synced => Found \subseteq Glob /\ Glob \subseteq DOMAIN disk
    BY DEF IndexInv, ScanIsWhole, Idle, Glob, Found
  <2>2. \A e \in Served : e \in cache
    BY DEF Served
  <2>3. \A e \in cache, include \in SUBSET Paths :
           Shown(e, include) = {} => e.result \ include # {}
    BY DEF IndexInv, CacheWasRight, Shown
  <2> QED
    BY <2>1, <2>2, <2>3 DEF IndexInv, CacheWasRight
<1> QED
  BY <1>1, IndexInvariant, PTL
=============================================================================
