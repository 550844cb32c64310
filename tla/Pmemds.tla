------------------------------- MODULE Pmemds -------------------------------
(***************************************************************************)
(* The library of persistent data structures behind its requests: PMLib,   *)
(* which keeps an engine per open structure in a volatile map and routes a *)
(* request to it (pmemds.cc), and the engines that create, reopen and use  *)
(* a pool file (hashmap.cc, btree.cc, adjvector.cc, priority_queue.cc).    *)
(* A structure is a set of keys for each of its partitions.  The client's  *)
(* wrappers send one request each and look only at the status.             *)
(*                                                                         *)
(* A transaction of libpmemobj is one step.  A crash comes between steps;  *)
(* an exception that nobody catches, a null pointer that is followed and   *)
(* exit() end the process as a crash does.                                 *)
(***************************************************************************)
EXTENDS Integers, Functions

CONSTANTS
    Ds,              \* the structures in use, each named by its type
    Key,
    npartitions,
    MaxRequests      \* bound: requests in a behaviour

ASSUME PmemdsAssumption == npartitions \in Nat \ {0}

VARIABLES
    file,            \* for each structure whose path exists, [maps, data]
    engine_map,      \* for each open structure, its engine [stale, linked, own]
    held,            \* structures whose file this process has open
    creating,        \* <<>>, or <<structure, next partition>> within CREATE_DS
    alive,
    acked,           \* keys whose update was answered OK, in files still linked
    answer,          \* the last answer to a lookup
    requests

vars == <<file, engine_map, held, creating, alive, acked, answer, requests>>

Partitions(d) ==
    IF d \in {"SHARDED_HASHMAP", "SHARDED_PRIORITY_QUEUE"} THEN 0..(npartitions - 1) ELSE {0}

\* A map with an entry for d, which stays what it is where there was one.
Added(f, d, entry) ==
    [e \in DOMAIN f \cup {d} |-> IF e \in DOMAIN f THEN f[e] ELSE entry]

NoAnswer == [status |-> "none", expected |-> FALSE]

Init ==
    /\ file = <<>> /\ engine_map = <<>>
    /\ held = {} /\ creating = <<>> /\ alive = TRUE
    /\ acked = {} /\ answer = NoAnswer /\ requests = 0

-----------------------------------------------------------------------------
\* A request is taken up when the process lives and is within no other.
Request ==
    /\ alive /\ creating = <<>> /\ requests < MaxRequests
    /\ requests' = requests + 1

Die ==
    /\ alive' = FALSE /\ engine_map' = <<>> /\ held' = {} /\ creating' = <<>>
    /\ answer' = NoAnswer
    /\ UNCHANGED <<file, acked>>

\* open makes a new map: engines that were open stay open and are forgotten.
Open ==
    /\ Request
    /\ engine_map' = <<>> /\ answer' = NoAnswer
    /\ UNCHANGED <<file, held, creating, alive, acked>>

\* The destructor closes the file, but not a priority queue's.
Shut(closed) ==
    held \ {d \in closed : d # "SHARDED_PRIORITY_QUEUE" /\ engine_map[d].linked}

\* close steps an iterator it has erased: with an engine in the map it may stop
\* early or bring the process down.
Close ==
    /\ Request
    /\ \/ \E closed \in SUBSET DOMAIN engine_map :
            /\ engine_map' = Restrict(engine_map, DOMAIN engine_map \ closed)
            /\ held' = Shut(closed)
            /\ closed = {} => engine_map = <<>>
            /\ answer' = NoAnswer
            /\ UNCHANGED <<file, creating, alive, acked>>
       \/ engine_map # <<>> /\ Die

\* An engine opens the pool its path leads to, or creates one.  libpmemobj
\* refuses to open a pool that is open already, with an exception.
Create(d) ==
    /\ Request
    /\ IF d \in DOMAIN file /\ d \in held
       THEN Die
       ELSE /\ creating' = <<d, 0>>
            /\ file' = Added(file, d, [maps |-> {}, data |-> {}])
            /\ held' = held \cup {d} /\ answer' = NoAnswer
            /\ UNCHANGED <<engine_map, alive, acked>>

\* create_ds inserts the engine: an engine that is in the map stays.
Insert(d, stale) ==
    /\ engine_map' = Added(engine_map, d, [stale |-> stale, linked |-> TRUE, own |-> {}])
    /\ creating' = <<>>
    /\ UNCHANGED <<held, alive, acked, answer, requests>>

\* What a structure's reopened file leaves unusable: the adjacency list, which
\* recover does not set, and heaps of pointers to another process's memory.
Stale(d) ==
    CASE d = "ADJACENCY_VECTOR" -> {0}
      [] d = "SHARDED_PRIORITY_QUEUE" -> {i \in Partitions(d) : \E k \in Key : <<i, k>> \in file[d].data}
      [] OTHER -> {}

\* Slip: a sharded map is taken to be new whatever its first partition says.
ReopensNoShards(d, i) == i \in file[d].maps /\ d # "SHARDED_HASHMAP"

\* Whether Recover takes the branch of a structure that is there already.  The
\* sharded map looks at its first partition only, each queue at itself.
Reopens(d, i) ==
    i \in file[d].maps /\ (d = "SHARDED_HASHMAP" => i = 0)

Reopen(d, i) ==
    IF d = "SHARDED_PRIORITY_QUEUE" /\ i + 1 \in Partitions(d)
    THEN creating' = <<d, i + 1>> /\ UNCHANGED <<file, engine_map, held, alive, acked, answer, requests>>
    ELSE IF d = "SHARDED_HASHMAP" /\ ~(Partitions(d) \subseteq file[d].maps)
    THEN Die /\ UNCHANGED requests
    ELSE Insert(d, Stale(d)) /\ UNCHANGED file

MakePersistent(d, i) ==
    /\ file' = [file EXCEPT ![d].maps = @ \cup {i},
                            ![d].data = {e \in @ : e[1] # i}]
    /\ IF i + 1 \in Partitions(d)
       THEN creating' = <<d, i + 1>> /\ UNCHANGED <<engine_map, held, alive, acked, answer, requests>>
       ELSE Insert(d, Stale(d) \ {i})

Recover ==
    /\ creating # <<>>
    /\ LET d == creating[1]
           i == creating[2]
       IN  IF Reopens(d, i) THEN Reopen(d, i) ELSE MakePersistent(d, i)

CloseDs(d) ==
    /\ Request
    /\ engine_map' = Restrict(engine_map, DOMAIN engine_map \ {d})
    /\ held' = Shut({d} \cap DOMAIN engine_map)
    /\ answer' = NoAnswer
    /\ UNCHANGED <<file, creating, alive, acked>>

\* The path is removed and an open engine goes on with the unlinked file.  A
\* queue's files have other names, so nothing is removed.
Remove(d) ==
    /\ Request
    /\ answer' = NoAnswer
    /\ IF d = "SHARDED_PRIORITY_QUEUE" \/ d \notin DOMAIN file
       THEN UNCHANGED <<file, engine_map, held, acked>>
       ELSE /\ file' = Restrict(file, DOMAIN file \ {d})
            /\ engine_map' = [e \in DOMAIN engine_map |->
                    IF e = d /\ engine_map[d].linked
                    THEN [stale |-> engine_map[d].stale, linked |-> FALSE, own |-> file[d].data]
                    ELSE engine_map[e]]
            /\ held' = held \ {d}
            /\ acked' = {a \in acked : a[1] # d}
    /\ UNCHANGED <<creating, alive>>

-----------------------------------------------------------------------------
\* find_ds follows end() when there is no engine: what it returns is not defined,
\* and the request is lost or ends the process.
NotFound(d) ==
    /\ d \notin DOMAIN engine_map
    /\ \/ Die
       \/ answer' = NoAnswer /\ UNCHANGED <<file, engine_map, held, creating, alive, acked>>

Data(d) == IF engine_map[d].linked THEN file[d].data ELSE engine_map[d].own

\* PUT, INSERT and ADD_EDGE: the thread's number is its partition.
Put(d, i, k) ==
    /\ Request
    /\ \/ NotFound(d)
       \/ d \in DOMAIN engine_map /\ i \in engine_map[d].stale /\ Die
       \/ /\ d \in DOMAIN engine_map /\ i \notin engine_map[d].stale
          /\ IF engine_map[d].linked
             THEN /\ file' = [file EXCEPT ![d].data = @ \cup {<<i, k>>}]
                  /\ acked' = acked \cup {<<d, i, k>>}
                  /\ UNCHANGED engine_map
             ELSE /\ engine_map' = [engine_map EXCEPT ![d].own = @ \cup {<<i, k>>}]
                  /\ UNCHANGED <<file, acked>>
          /\ answer' = NoAnswer
          /\ UNCHANGED <<held, creating, alive>>

\* GET, VERTEX_OUTDEGREE, and the priority changes that look a key up.  "OK" is
\* the status, or for a vertex a degree above zero.
Get(d, i, k) ==
    /\ Request
    /\ \/ NotFound(d)
       \/ d \in DOMAIN engine_map /\ i \in engine_map[d].stale /\ Die
       \/ /\ d \in DOMAIN engine_map /\ i \notin engine_map[d].stale
          /\ answer' = [status |-> IF <<i, k>> \in Data(d) THEN "OK" ELSE "NOT_FOUND",
                        expected |-> engine_map[d].linked /\ <<d, i, k>> \in acked]
          /\ UNCHANGED <<file, engine_map, held, creating, alive, acked>>

Crash ==
    /\ alive /\ Die /\ UNCHANGED requests

Restart ==
    /\ ~alive /\ alive' = TRUE
    /\ UNCHANGED <<file, engine_map, held, creating, acked, answer, requests>>

Next ==
    \/ Open \/ Close \/ Recover \/ Crash \/ Restart
    \/ \E d \in Ds :
        \/ Create(d) \/ CloseDs(d) \/ Remove(d)
        \/ \E i \in Partitions(d), k \in Key : Put(d, i, k) \/ Get(d, i, k)

Spec == Init /\ [][Next]_vars

-----------------------------------------------------------------------------
(* An update that was answered OK is found by every lookup that is answered *)
(* afterwards, whatever crashes, closings and reopenings came between, as   *)
(* long as its structure was not removed (Recover of the engines).          *)
AckedPutsFound == answer.expected => answer.status = "OK"
=============================================================================
