---------------------------- MODULE PmemdsProofs ----------------------------
(***************************************************************************)
(* An acknowledged update of a persistent structure is found by every      *)
(* later lookup that is answered, for every number of partitions and       *)
(* every set of keys and structures (Pmemds.tla).                          *)
(*                                                                         *)
(* The property speaks of the last answer only.  What makes it inductive   *)
(* is a relation between the files and the two volatile things that may    *)
(* write to them: an engine in the map, and an engine under construction.  *)
(***************************************************************************)
EXTENDS Pmemds, TLAPS

\* Every file is a pool, and a partition with keys has a map.
FilesInv ==
    \A d \in DOMAIN file :
        /\ file[d] = [maps |-> file[d].maps, data |-> file[d].data]
        /\ file[d].maps \subseteq Nat
        /\ \A e \in file[d].data : e[1] \in file[d].maps
        /\ d = "SHARDED_HASHMAP" /\ 0 \notin file[d].maps => file[d].maps = {}

\* An engine whose file is linked has a file with all of its partitions.
EnginesInv ==
    \A d \in DOMAIN engine_map :
        /\ engine_map[d] = [stale |-> engine_map[d].stale, linked |-> engine_map[d].linked,
                            own |-> engine_map[d].own]
        /\ engine_map[d].linked =>
            d \in DOMAIN file /\ Partitions(d) \subseteq file[d].maps

\* An engine under construction has passed the partitions below the next one,
\* and a sharded map that is past its first has no others.
CreatingInv ==
    creating # <<>> =>
        \E d \in DOMAIN file, i \in Nat :
            /\ creating = <<d, i>>
            /\ \A j \in Nat : j < i => j \in file[d].maps
            /\ d = "SHARDED_HASHMAP" /\ i > 0 => \A j \in file[d].maps : j < i

\* What was acknowledged is in its file.
AckedInv ==
    \A a \in acked : a[1] \in DOMAIN file /\ <<a[2], a[3]>> \in file[a[1]].data

IInv == FilesInv /\ EnginesInv /\ CreatingInv /\ AckedInv /\ AckedPutsFound

-----------------------------------------------------------------------------
\* The initial state, with no file, satisfies the invariant.
LEMMA InitInv == Init => IInv
<1> SUFFICES ASSUME Init PROVE IInv
  OBVIOUS
<1>1. DOMAIN file = {} /\ DOMAIN engine_map = {}
  BY DEF Init
<1>2. AckedPutsFound
  BY DEF Init, NoAnswer, AckedPutsFound
<1> QED
  BY <1>1, <1>2 DEF Init, IInv, FilesInv, EnginesInv, CreatingInv, AckedInv

\* The end of the process leaves the files and the acknowledged updates.
LEMMA DieInv == ASSUME IInv, Die PROVE IInv'
<1>1. DOMAIN engine_map' = {}
  BY DEF Die
<1>2. AckedPutsFound'
  BY DEF Die, NoAnswer, AckedPutsFound
<1> QED
  BY <1>1, <1>2 DEF Die, IInv, FilesInv, EnginesInv, CreatingInv, AckedInv

\* Closing engines leaves the others as they are.
LEMMA ClosedInv ==
    ASSUME IInv, NEW open \in SUBSET DOMAIN engine_map, engine_map' = Restrict(engine_map, open),
           answer' = NoAnswer, UNCHANGED <<file, creating, acked>>
    PROVE  IInv'
<1>1. DOMAIN engine_map' = open /\ \A d \in open : engine_map'[d] = engine_map[d]
  BY DEF Restrict
<1>2. AckedPutsFound'
  BY DEF NoAnswer, AckedPutsFound
<1>3. EnginesInv'
  BY <1>1 DEF IInv, EnginesInv
<1> QED
  BY <1>2, <1>3 DEF IInv, FilesInv, CreatingInv, AckedInv

\* Insert of an engine whose file has all partitions.
LEMMA InsertInv ==
    ASSUME FilesInv', AckedInv', AckedPutsFound, NEW d, NEW stale, Insert(d, stale),
           EnginesInv, DOMAIN file' = DOMAIN file,
           \A e \in DOMAIN file : file[e].maps \subseteq file'[e].maps,
           d \in DOMAIN file, Partitions(d) \subseteq file'[d].maps
    PROVE  IInv'
<1>1. AckedPutsFound' /\ CreatingInv'
  BY DEF Insert, AckedPutsFound, CreatingInv
<1>2. ASSUME NEW e \in DOMAIN engine_map'
      PROVE  /\ engine_map'[e] = [stale |-> engine_map'[e].stale, linked |-> engine_map'[e].linked,
                                  own |-> engine_map'[e].own]
             /\ engine_map'[e].linked =>
                    e \in DOMAIN file' /\ Partitions(e) \subseteq file'[e].maps
  <2>1. CASE e \in DOMAIN engine_map
    <3>1. engine_map'[e] = engine_map[e]
      BY <2>1 DEF Insert, Added
    <3> QED
      BY <2>1, <3>1 DEF EnginesInv
  <2>2. CASE e \notin DOMAIN engine_map
    <3>1. e = d /\ engine_map'[e] = [stale |-> stale, linked |-> TRUE, own |-> {}]
      BY <2>2 DEF Insert, Added
    <3> QED
      BY <3>1
  <2> QED
    BY <2>1, <2>2
<1>3. EnginesInv'
  BY <1>2 DEF EnginesInv, Partitions
<1> QED
  BY <1>1, <1>3 DEF IInv

\* CREATE_DS on a path that is not open: the pool is opened, or made empty.
LEMMA CreateInv == ASSUME IInv, NEW d, Create(d) PROVE IInv'
<1>1. CASE d \in DOMAIN file /\ d \in held
  BY <1>1, DieInv DEF Create
<1>2. CASE ~(d \in DOMAIN file /\ d \in held)
  <2>1. /\ creating' = <<d, 0>> /\ file' = Added(file, d, [maps |-> {}, data |-> {}])
        /\ answer' = NoAnswer /\ UNCHANGED <<engine_map, acked>>
    BY <1>2 DEF Create
  <2>2. /\ DOMAIN file' = DOMAIN file \cup {d}
        /\ \A e \in DOMAIN file : file'[e] = file[e]
        /\ d \notin DOMAIN file => file'[d] = [maps |-> {}, data |-> {}]
    BY <2>1 DEF Added
  <2>3. AckedPutsFound'
    BY <2>1 DEF NoAnswer, AckedPutsFound
  <2>4. FilesInv'
    BY <2>2 DEF IInv, FilesInv
  <2>5. EnginesInv'
    BY <2>1, <2>2 DEF IInv, EnginesInv, Partitions
  <2>6. CreatingInv'
    BY <2>1, <2>2 DEF CreatingInv
  <2>7. AckedInv'
    BY <2>1, <2>2 DEF IInv, AckedInv
  <2> QED
    BY <2>3, <2>4, <2>5, <2>6, <2>7 DEF IInv
<1> QED
  BY <1>1, <1>2

\* The partitions up to one without a successor are all of them.
LEMMA LastPartition ==
    ASSUME NEW d, NEW i \in Nat, NEW maps, i + 1 \notin Partitions(d),
           \A j \in Nat : j < i + 1 => j \in maps
    PROVE  Partitions(d) \subseteq maps
  BY PmemdsAssumption DEF Partitions

\* A step of an engine's construction.
LEMMA RecoverInv == ASSUME IInv, Recover PROVE IInv'
<1>1. PICK d \in DOMAIN file, i \in Nat :
            /\ creating = <<d, i>>
            /\ \A j \in Nat : j < i => j \in file[d].maps
            /\ d = "SHARDED_HASHMAP" /\ i > 0 => \A j \in file[d].maps : j < i
  BY DEF IInv, CreatingInv, Recover
<1>2. IF Reopens(d, i) THEN Reopen(d, i) ELSE MakePersistent(d, i)
  BY <1>1 DEF Recover
<1>3. file[d].maps \subseteq Nat
  BY DEF IInv, FilesInv
<1>4. CASE Reopens(d, i)
  <2>1. i \in file[d].maps /\ Reopen(d, i)
    BY <1>2, <1>4 DEF Reopens
  <2>2. \A j \in Nat : j < i + 1 => j \in file[d].maps
    BY <1>1, <2>1
  <2>3. CASE d = "SHARDED_PRIORITY_QUEUE" /\ i + 1 \in Partitions(d)
    <3>1. creating' = <<d, i + 1>> /\ UNCHANGED <<file, engine_map, held, alive, acked, answer, requests>>
      BY <2>1, <2>3 DEF Reopen
    <3>2. CreatingInv'
      BY <2>2, <2>3, <3>1 DEF CreatingInv
    <3> QED
      BY <3>1, <3>2 DEF IInv, FilesInv, EnginesInv, AckedInv, AckedPutsFound, Partitions
  <2>4. CASE d = "SHARDED_HASHMAP" /\ ~(Partitions(d) \subseteq file[d].maps)
    BY <2>1, <2>4, DieInv DEF Reopen
  <2>5. CASE /\ ~(d = "SHARDED_PRIORITY_QUEUE" /\ i + 1 \in Partitions(d))
             /\ ~(d = "SHARDED_HASHMAP" /\ ~(Partitions(d) \subseteq file[d].maps))
    <3>1. Insert(d, Stale(d)) /\ UNCHANGED file
      BY <2>1, <2>5 DEF Reopen
    <3>2. Partitions(d) \subseteq file[d].maps
      <4>1. CASE d = "SHARDED_HASHMAP"
        BY <2>5, <4>1
      <4>2. CASE d = "SHARDED_PRIORITY_QUEUE"
        BY <2>2, <2>5, <4>2, LastPartition
      <4>3. CASE d # "SHARDED_HASHMAP" /\ d # "SHARDED_PRIORITY_QUEUE"
        BY <2>2, <4>3 DEF Partitions
      <4> QED
        BY <4>1, <4>2, <4>3
    <3>3. FilesInv' /\ AckedInv'
      BY <3>1 DEF IInv, FilesInv, AckedInv, Insert
    <3> QED
      BY <3>1, <3>2, <3>3, InsertInv DEF IInv
  <2> QED
    BY <2>3, <2>4, <2>5
<1>5. CASE ~Reopens(d, i)
  <2>1. MakePersistent(d, i)
    BY <1>2, <1>5
  <2>2. i \notin file[d].maps
    <3>1. CASE d = "SHARDED_HASHMAP" /\ i > 0
      BY <1>1, <3>1
    <3>2. CASE ~(d = "SHARDED_HASHMAP" /\ i > 0)
      BY <1>5, <3>2 DEF Reopens
    <3> QED
      BY <3>1, <3>2
  <2>3. {e \in file[d].data : e[1] # i} = file[d].data
    BY <2>2 DEF IInv, FilesInv
  <2>4. file[d] = [maps |-> file[d].maps, data |-> file[d].data]
    BY DEF IInv, FilesInv
  <2>5. /\ DOMAIN file' = DOMAIN file
        /\ \A e \in DOMAIN file \ {d} : file'[e] = file[e]
        /\ file'[d] = [maps |-> file[d].maps \cup {i}, data |-> file[d].data]
    BY <2>1, <2>3, <2>4 DEF MakePersistent
  <2>6. \A j \in Nat : j < i + 1 => j \in file'[d].maps
    BY <1>1, <2>5
  <2>7. d = "SHARDED_HASHMAP" => \A j \in file'[d].maps : j < i + 1
    <3>1. ASSUME d = "SHARDED_HASHMAP", i = 0 PROVE file[d].maps = {}
      BY <2>2, <3>1 DEF IInv, FilesInv
    <3>2. ASSUME d = "SHARDED_HASHMAP", NEW j \in file'[d].maps PROVE j < i + 1
      BY <1>1, <1>3, <2>5, <3>1, <3>2
    <3> QED
      BY <3>2
  <2>8. FilesInv'
    <3>1. ASSUME NEW e \in DOMAIN file, e # d
          PROVE  /\ file'[e] = [maps |-> file'[e].maps, data |-> file'[e].data]
                 /\ file'[e].maps \subseteq Nat
                 /\ \A x \in file'[e].data : x[1] \in file'[e].maps
                 /\ e = "SHARDED_HASHMAP" /\ 0 \notin file'[e].maps => file'[e].maps = {}
      BY <2>5, <3>1 DEF IInv, FilesInv
    <3>2. /\ file'[d] = [maps |-> file'[d].maps, data |-> file'[d].data]
          /\ file'[d].maps \subseteq Nat
          /\ \A x \in file'[d].data : x[1] \in file'[d].maps
      BY <1>3, <2>5 DEF IInv, FilesInv
    <3>3. 0 \in file'[d].maps
      BY <2>6, 0 \in Nat, 0 < i + 1
    <3> QED
      BY <2>5, <3>1, <3>2, <3>3 DEF FilesInv
  <2>9. AckedInv'
    <3>1. acked' = acked
      BY <2>1 DEF MakePersistent, Insert
    <3>2. \A e \in DOMAIN file : file'[e].data = file[e].data
      BY <2>5
    <3> QED
      BY <2>5, <3>1, <3>2 DEF IInv, AckedInv
  <2>10. \A e \in DOMAIN file : file[e].maps \subseteq file'[e].maps
    BY <2>5
  <2>11. CASE i + 1 \in Partitions(d)
    <3>1. creating' = <<d, i + 1>> /\ UNCHANGED <<engine_map, held, alive, acked, answer, requests>>
      BY <2>1, <2>11 DEF MakePersistent
    <3>2. CreatingInv'
      BY <2>5, <2>6, <2>7, <3>1 DEF CreatingInv
    <3>3. EnginesInv'
      BY <2>5, <2>10, <3>1 DEF IInv, EnginesInv, Partitions
    <3> QED
      BY <2>8, <2>9, <3>1, <3>2, <3>3 DEF IInv, AckedPutsFound
  <2>12. CASE i + 1 \notin Partitions(d)
    <3>1. Insert(d, Stale(d) \ {i})
      BY <2>1, <2>12 DEF MakePersistent
    <3>2. Partitions(d) \subseteq file'[d].maps
      BY <2>6, <2>12, LastPartition
    <3> QED
      BY <2>5, <2>8, <2>9, <2>10, <3>1, <3>2, InsertInv DEF IInv
  <2> QED
    BY <2>11, <2>12
<1> QED
  BY <1>4, <1>5

\* REMOVE_DS: what was acknowledged of the file is forgotten with the file, and
\* an engine open on it is no longer linked.
LEMMA RemoveInv == ASSUME IInv, NEW d, Remove(d) PROVE IInv'
<1>1. AckedPutsFound'
  BY DEF Remove, NoAnswer, AckedPutsFound
<1>2. creating = <<>> /\ creating' = <<>>
  BY DEF Remove, Request
<1>3. CreatingInv'
  BY <1>2 DEF CreatingInv
<1>4. CASE d = "SHARDED_PRIORITY_QUEUE" \/ d \notin DOMAIN file
  <2>1. UNCHANGED <<file, engine_map, acked>>
    BY <1>4 DEF Remove
  <2> QED
    BY <1>1, <1>3, <2>1 DEF IInv, FilesInv, EnginesInv, AckedInv, Partitions
<1>5. CASE ~(d = "SHARDED_PRIORITY_QUEUE" \/ d \notin DOMAIN file)
  <2>1. /\ file' = Restrict(file, DOMAIN file \ {d})
        /\ engine_map' = [e \in DOMAIN engine_map |->
                IF e = d /\ engine_map[d].linked
                THEN [stale |-> engine_map[d].stale, linked |-> FALSE, own |-> file[d].data]
                ELSE engine_map[e]]
        /\ acked' = {a \in acked : a[1] # d}
    BY <1>5 DEF Remove
  <2>2. DOMAIN file' = DOMAIN file \ {d} /\ \A e \in DOMAIN file' : file'[e] = file[e]
    BY <2>1 DEF Restrict
  <2>3. FilesInv'
    BY <2>2 DEF IInv, FilesInv
  <2>4. AckedInv'
    BY <2>1, <2>2 DEF IInv, AckedInv
  <2>5. ASSUME NEW e \in DOMAIN engine_map'
        PROVE  /\ engine_map'[e] = [stale |-> engine_map'[e].stale, linked |-> engine_map'[e].linked,
                                    own |-> engine_map'[e].own]
               /\ engine_map'[e].linked =>
                    e \in DOMAIN file' /\ Partitions(e) \subseteq file'[e].maps
    <3>1. e \in DOMAIN engine_map
      BY <2>1
    <3>2. CASE e = d /\ engine_map[d].linked
      <4>1. engine_map'[e] = [stale |-> engine_map[d].stale, linked |-> FALSE, own |-> file[d].data]
        BY <2>1, <3>1, <3>2
      <4> QED
        BY <4>1
    <3>3. CASE ~(e = d /\ engine_map[d].linked)
      <4>1. engine_map'[e] = engine_map[e]
        BY <2>1, <3>1, <3>3
      <4> QED
        BY <2>2, <3>1, <3>3, <4>1 DEF IInv, EnginesInv
    <3> QED
      BY <3>2, <3>3
  <2>6. EnginesInv'
    BY <2>5 DEF EnginesInv, Partitions
  <2> QED
    BY <1>1, <1>3, <2>3, <2>4, <2>6 DEF IInv
<1> QED
  BY <1>4, <1>5

\* A request for a structure that is not open changes nothing or ends the process.
LEMMA NotFoundInv == ASSUME IInv, NEW d, NotFound(d) PROVE IInv'
<1>1. CASE Die
  BY <1>1, DieInv
<1>2. CASE answer' = NoAnswer /\ UNCHANGED <<file, engine_map, held, creating, alive, acked>>
  BY <1>2 DEF IInv, FilesInv, EnginesInv, CreatingInv, AckedInv, AckedPutsFound, NoAnswer, Partitions
<1> QED
  BY <1>1, <1>2 DEF NotFound

\* An update adds to the file of a linked engine what it acknowledges.
LEMMA PutInv == ASSUME IInv, NEW d, NEW i \in Partitions(d), NEW k, Put(d, i, k) PROVE IInv'
<1>1. CASE NotFound(d)
  BY <1>1, NotFoundInv
<1>2. CASE Die
  BY <1>2, DieInv
<1>3. CASE /\ d \in DOMAIN engine_map
           /\ IF engine_map[d].linked
              THEN /\ file' = [file EXCEPT ![d].data = @ \cup {<<i, k>>}]
                   /\ acked' = acked \cup {<<d, i, k>>}
                   /\ UNCHANGED engine_map
              ELSE /\ engine_map' = [engine_map EXCEPT ![d].own = @ \cup {<<i, k>>}]
                   /\ UNCHANGED <<file, acked>>
           /\ answer' = NoAnswer
           /\ UNCHANGED <<held, creating, alive>>
  <2>1. AckedPutsFound'
    BY <1>3 DEF NoAnswer, AckedPutsFound
  <2>2. creating = <<>> /\ creating' = <<>>
    BY <1>3 DEF Put, Request
  <2>3. CreatingInv'
    BY <2>2 DEF CreatingInv
  <2>4. CASE engine_map[d].linked
    <3>1. d \in DOMAIN file /\ i \in file[d].maps
      BY <1>3, <2>4 DEF IInv, EnginesInv
    <3>2. file[d] = [maps |-> file[d].maps, data |-> file[d].data]
      BY <3>1 DEF IInv, FilesInv
    <3>3. /\ DOMAIN file' = DOMAIN file
          /\ \A e \in DOMAIN file \ {d} : file'[e] = file[e]
          /\ file'[d] = [maps |-> file[d].maps, data |-> file[d].data \cup {<<i, k>>}]
      BY <1>3, <2>4, <3>1, <3>2
    <3>4. FilesInv'
      BY <3>1, <3>3 DEF IInv, FilesInv
    <3>5. EnginesInv'
      BY <1>3, <2>4, <3>3 DEF IInv, EnginesInv, Partitions
    <3>6. AckedInv'
      <4>1. ASSUME NEW a \in acked'
            PROVE  a[1] \in DOMAIN file' /\ <<a[2], a[3]>> \in file'[a[1]].data
        <5>1. CASE a \in acked
          BY <3>3, <5>1 DEF IInv, AckedInv
        <5>2. CASE a = <<d, i, k>>
          BY <3>1, <3>3, <5>2
        <5> QED
          BY <1>3, <2>4, <5>1, <5>2
      <4> QED
        BY <4>1 DEF AckedInv
    <3> QED
      BY <2>1, <2>3, <3>4, <3>5, <3>6 DEF IInv
  <2>5. CASE ~engine_map[d].linked
    <3>1. engine_map' = [engine_map EXCEPT ![d].own = @ \cup {<<i, k>>}] /\ UNCHANGED <<file, acked>>
      BY <1>3, <2>5
    <3>2. engine_map[d] = [stale |-> engine_map[d].stale, linked |-> engine_map[d].linked,
                           own |-> engine_map[d].own]
      BY <1>3 DEF IInv, EnginesInv
    <3>3. /\ DOMAIN engine_map' = DOMAIN engine_map
          /\ \A e \in DOMAIN engine_map \ {d} : engine_map'[e] = engine_map[e]
          /\ engine_map'[d] = [stale |-> engine_map[d].stale, linked |-> engine_map[d].linked,
                               own |-> engine_map[d].own \cup {<<i, k>>}]
      BY <1>3, <3>1, <3>2
    <3>4. EnginesInv'
      BY ZenonT(30), <2>5, <3>1, <3>3 DEF IInv, EnginesInv, Partitions
    <3> QED
      BY <2>1, <2>3, <3>1, <3>4 DEF IInv, FilesInv, AckedInv
  <2> QED
    BY <2>4, <2>5
<1> QED
  BY <1>1, <1>2, <1>3 DEF Put

\* A lookup answers from the file of a linked engine.
LEMMA GetInv == ASSUME IInv, NEW d, NEW i, NEW k, Get(d, i, k) PROVE IInv'
<1>1. CASE NotFound(d)
  BY <1>1, NotFoundInv
<1>2. CASE Die
  BY <1>2, DieInv
<1>3. CASE /\ d \in DOMAIN engine_map
           /\ answer' = [status |-> IF <<i, k>> \in Data(d) THEN "OK" ELSE "NOT_FOUND",
                         expected |-> engine_map[d].linked /\ <<d, i, k>> \in acked]
           /\ UNCHANGED <<file, engine_map, held, creating, alive, acked>>
  <2>1. answer'.expected => engine_map[d].linked /\ <<d, i, k>> \in acked
    BY <1>3
  <2>2. engine_map[d].linked /\ <<d, i, k>> \in acked => <<i, k>> \in Data(d)
    BY DEF IInv, AckedInv, Data
  <2>3. AckedPutsFound'
    BY <1>3, <2>1, <2>2 DEF AckedPutsFound
  <2> QED
    BY <1>3, <2>3 DEF IInv, FilesInv, EnginesInv, CreatingInv, AckedInv, Partitions
<1> QED
  BY <1>1, <1>2, <1>3 DEF Get

-----------------------------------------------------------------------------
\* Every step keeps the invariant.
LEMMA NextInv == ASSUME IInv, [Next]_vars PROVE IInv'
<1>1. CASE Open
  <2>1. DOMAIN engine_map' = {}
    BY <1>1 DEF Open
  <2>2. AckedPutsFound'
    BY <1>1 DEF Open, NoAnswer, AckedPutsFound
  <2> QED
    BY <1>1, <2>1, <2>2 DEF Open, IInv, FilesInv, EnginesInv, CreatingInv, AckedInv
<1>2. CASE Close
  <2>1. CASE Die
    BY <2>1, DieInv
  <2>2. ASSUME NEW closed \in SUBSET DOMAIN engine_map,
               engine_map' = Restrict(engine_map, DOMAIN engine_map \ closed), answer' = NoAnswer,
               UNCHANGED <<file, creating, alive, acked>>
        PROVE  IInv'
    BY <2>2, ClosedInv
  <2> QED
    BY <1>2, <2>1, <2>2 DEF Close
<1>3. CASE Recover
  BY <1>3, RecoverInv
<1>4. CASE Crash
  BY <1>4, DieInv DEF Crash
<1>5. CASE Restart
  BY <1>5 DEF Restart, IInv, FilesInv, EnginesInv, CreatingInv, AckedInv, AckedPutsFound, Partitions
<1>6. ASSUME NEW d \in Ds, Create(d) PROVE IInv'
  BY <1>6, CreateInv
<1>7. ASSUME NEW d \in Ds, CloseDs(d) PROVE IInv'
  BY <1>7, ClosedInv DEF CloseDs
<1>8. ASSUME NEW d \in Ds, Remove(d) PROVE IInv'
  BY <1>8, RemoveInv
<1>9. ASSUME NEW d \in Ds, NEW i \in Partitions(d), NEW k \in Key, Put(d, i, k) PROVE IInv'
  BY <1>9, PutInv
<1>10. ASSUME NEW d \in Ds, NEW i \in Partitions(d), NEW k \in Key, Get(d, i, k) PROVE IInv'
  BY <1>10, GetInv
<1>11. CASE UNCHANGED vars
  BY <1>11 DEF vars, IInv, FilesInv, EnginesInv, CreatingInv, AckedInv, AckedPutsFound, Partitions
<1> QED
  BY <1>1, <1>2, <1>3, <1>4, <1>5, <1>6, <1>7, <1>8, <1>9, <1>10, <1>11 DEF Next

\* For every set of structures and keys and every number of partitions, an
\* update that was answered OK is found by every lookup that is answered later,
\* as long as its structure was not removed (Recover of the engines, exec).
THEOREM AckedPutsFoundAlways == Spec => []AckedPutsFound
<1>1. Init => IInv
  BY InitInv
<1>2. IInv /\ [Next]_vars => IInv'
  BY NextInv
<1>3. IInv => AckedPutsFound
  BY DEF IInv
<1> QED
  BY <1>1, <1>2, <1>3, PTL DEF Spec

=============================================================================
