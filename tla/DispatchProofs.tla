-------------------------- MODULE DispatchProofs ----------------------------
(***************************************************************************)
(* Executors, for any number of cores, requests and terms: the cores of a  *)
(* request meet before one of them runs it and agree on whether to run it, *)
(* and an answered request was given up on none of them.                   *)
(*                                                                         *)
(* AsyncClient, for any window and any number of calls: the window is kept *)
(* and every callback runs at most once, although the counter of the       *)
(* window is raised and lowered by two threads at other moments than the   *)
(* calls enter and leave the listener's books.                             *)
(*                                                                         *)
(* Client, for any number of servers, calls and terms: a call returns only *)
(* after it was executed.                                                  *)
(*                                                                         *)
(* The three share no state.  The clients are instantiated where their     *)
(* sections begin, as MCDispatch does.                                     *)
(***************************************************************************)
EXTENDS Executors, TLAPS

\* Most leaves are facts about functions and sets without arithmetic.
USE Zenon

\* The assumption on the requests, and that a mask has a first core.
Formed ==
    /\ executor_threads \in Nat
    /\ \A r \in Requests : /\ r[1] \in {"rw", "ro", "stable", "node", "kicker"}
                           /\ r[2] \subseteq Core /\ r[2] # {}
    /\ \A M \in SUBSET Nat : M # {} => First(M) \in M

-----------------------------------------------------------------------------
(* The inductive invariant.                                                *)

\* Where a thread can be: between the two stores to stable; in the barrier as
\* its leader core; before the barrier, and in it, as a follower; past it.
Opening == {"nonce", "reset", "close"}
Meeting == {"enter", "gather", "check", "fail", "excuse", "leave", "release", "part"}
Waiting == {"follow", "stable?", "nonce?", "again?"}
Joined == {"meet", "verdict", "away"}
Inside == {"join", "meet", "verdict", "away"}
Ended == {"run", "reply", "idle"}
Leading == {"lead"} \cup Opening \cup Meeting
Following == Waiting \cup Inside
Location == {"stable", "await"} \cup Leading \cup Following \cup Ended

RequestSet == [kind : {r[1] : r \in Requests}, mask : {r[2] : r \in Requests}, term : Nat,
               leader : BOOLEAN]
Status == [exec_term : Nat, checkpoint_idx : Int, stable : Nat, nonce : Nat, success : {0, 1},
           barrier : (SUBSET Core) \X (SUBSET Core)]
Thread == [pc : Location, request : Nat, stable : Nat, failed_mask : SUBSET Core, success : {0, 1}]

\* The type invariant.
TypeOK ==
    /\ requests \in Seq(RequestSet)
    /\ rep \in Seq({"none", "unknown", "success", "failed"}) /\ Len(rep) = Len(requests)
    /\ term \in Nat
    /\ core_status \in [Core -> Status]
    /\ thread \in [Core -> Thread]

\* Core c is through with request o.
Past(c, o) ==
    o < thread[c].request \/ (o = thread[c].request /\ thread[c].pc \in Ended)

\* Terms grow along the log, and a core that has seen a later term than that of
\* a request is past it: this makes check_terms sound.
TermInv ==
    /\ \A o \in Request : requests[o].term <= term
    /\ \A o, p \in Request : o <= p => requests[o].term <= requests[p].term
    /\ \A c \in Core : core_status[c].exec_term <= term
    /\ \A c \in Core, o \in Request :
         thread[c].request <= o => core_status[c].exec_term <= requests[o].term

\* A core works on a request of its ring, as the first core of the mask or as
\* another one.
RoleInv ==
    \A c \in Core :
        /\ thread[c].request <= Len(requests)
        /\ thread[c].pc # "idle" => thread[c].request >= 1 /\ c \in RingsOf(thread[c].request)
        /\ thread[c].pc = "stable" => Mine(c).kind = "stable"
        /\ thread[c].pc \in Leading => c = CoreLeader(c)
        /\ thread[c].pc \in Following => c # CoreLeader(c) /\ Gang(thread[c].request)

\* A core is past a request only when its fate is known, and goes to the
\* rendezvous only with one that is committed.
DecidedInv ==
    /\ \A o \in Request : Logged(o) \/ rep[o] = "none"
    /\ \A c \in Core :
         /\ \A o \in Request : c \in RingsOf(o) /\ Past(c, o) => rep[o] # "unknown"
         /\ thread[c].pc \notin {"idle", "await", "stable"} /\ Logged(thread[c].request) =>
              rep[thread[c].request] = "success"

\* stable is odd between its two stores; the nonce is the request the leader
\* core has last opened a rendezvous for; the words are clean when it is opened.
NonceAt(c) ==
    /\ core_status[c].stable % 2 = 1 <=> thread[c].pc \in Opening
    /\ core_status[c].nonce <= thread[c].request
    /\ thread[c].pc \in {"reset", "close"} \cup Meeting => core_status[c].nonce = thread[c].request
    /\ core_status[c].nonce = thread[c].request =>
         thread[c].pc \in {"reset", "close"} \cup Meeting \cup Ended
    /\ thread[c].pc = "close" => core_status[c].success = 1 /\ core_status[c].barrier = <<{}, {}>>

NonceInv == \A c \in Core : NonceAt(c)

\* What a follower has read of the leader core's status: the nonce it has found
\* is still there if stable is what it was.
ReadAt(d) ==
    thread[d].pc \in {"nonce?", "again?"} =>
        /\ thread[d].stable % 2 = 0 /\ thread[d].stable <= Leader(d).stable
        /\ thread[d].pc = "again?" /\ Leader(d).stable = thread[d].stable =>
             Leader(d).nonce = thread[d].request

\* A follower in the barrier has its leader core there, for the same request,
\* and gets the verdict only when all have come.
InsideAt(d) ==
    thread[d].pc \in Inside =>
        /\ thread[CoreLeader(d)].request = thread[d].request
        /\ thread[CoreLeader(d)].pc \in Meeting
        /\ thread[d].pc \in {"verdict", "away"} => Leader(d).barrier[1] = Mine(d).mask

\* Where core d is when its bit is in the first word of the barrier for o.
Came(d, o) == Past(d, o) \/ (thread[d].request = o /\ thread[d].pc \in Joined)

\* Nobody has been told to give up request o, by leader core l.
NoneFailed(l, o) ==
    /\ core_status[l].success = 1
    /\ \A d \in requests[o].mask :
         /\ <<o, d>> \notin skipped
         /\ thread[d].request = o /\ thread[d].pc = "away" => thread[d].success = 1

\* The leader core in the barrier for o: the bits of the two words are of cores
\* that have come and that are past the request; those in failed_mask have gone
\* on to a later term; while there is none, nobody has been told to give up.
BarrierAt(l, o) ==
    /\ core_status[l].barrier[1] \subseteq requests[o].mask
    /\ \A d \in core_status[l].barrier[1] : d = l \/ Came(d, o)
    /\ \A d \in core_status[l].barrier[2] : d = l \/ Past(d, o)
    /\ thread[l].pc \in {"leave", "release", "part"} => core_status[l].barrier[1] = requests[o].mask
    /\ thread[l].failed_mask \subseteq requests[o].mask
    /\ \A d \in thread[l].failed_mask : requests[o].term < core_status[d].exec_term
    /\ thread[l].pc \in {"fail", "excuse"} => thread[l].failed_mask # {}
    /\ thread[l].failed_mask = {} => NoneFailed(l, o)

MeetingAt(l, o) ==
    thread[l].request = o /\ thread[l].pc \in Meeting /\ Gang(o) => BarrierAt(l, o)

\* A committed request: a core is past it only if its leader core is in the
\* barrier or past it too, and when the leader core is past it, all are.
PassAt(o) ==
    Gang(o) /\ rep[o] = "success" =>
        LET l == First(requests[o].mask) IN \A d \in requests[o].mask :
        /\ Past(d, o) => Past(l, o) \/ (thread[l].request = o /\ thread[l].pc \in Meeting)
        /\ Past(l, o) => Past(d, o)

Overtaken(o) == \E c \in requests[o].mask : core_status[c].exec_term > requests[o].term

\* Core c runs request o.
Runs(c, o) == thread[c].request = o /\ thread[c].pc \in {"run", "reply"}

\* What has become of a request of several cores: of one given up, run, answered.
SkippedAt(o) ==
    Gang(o) => \A c \in requests[o].mask :
        <<o, c>> \in skipped => Past(c, o) /\ (rep[o] = "failed" \/ Overtaken(o))

RanAt(o) ==
    Gang(o) => \A c \in requests[o].mask : <<o, c>> \in ran \/ Runs(c, o) =>
        rep[o] = "success" /\ \A d \in requests[o].mask : o <= thread[d].request

AnsweredAt(o) ==
    LET l == First(requests[o].mask) IN
    Gang(o) /\ (o \in replies \/ Runs(l, o)) =>
        /\ Past(l, o) /\ rep[o] = "success"
        /\ \A d \in requests[o].mask : <<o, d>> \notin skipped

IInv ==
    /\ TypeOK /\ TermInv /\ RoleInv /\ DecidedInv /\ NonceInv
    /\ \A c \in Core : ReadAt(c) /\ InsideAt(c) /\ \A o \in Request : MeetingAt(c, o)
    /\ \A o \in Request : PassAt(o) /\ SkippedAt(o) /\ RanAt(o) /\ AnsweredAt(o)

-----------------------------------------------------------------------------
(* What the helpers of the steps do.                                       *)

\* Only the thread of core c moves.
Others(c) == \A d \in Core : d # c => thread'[d] = thread[d]

\* Goto moves the thread of one core.
LEMMA GotoEffect ==
    ASSUME TypeOK, NEW c \in Core, NEW pc \in Location, Goto(c, pc)
    PROVE  /\ thread' \in [Core -> Thread] /\ Others(c)
           /\ thread'[c].pc = pc /\ thread'[c].request = thread[c].request
           /\ thread'[c].stable = thread[c].stable
           /\ thread'[c].failed_mask = thread[c].failed_mask
           /\ thread'[c].success = thread[c].success
  <1> DEFINE t == [thread[c] EXCEPT !.pc = pc]
  <1>1. thread[c] \in Thread
    BY DEF TypeOK
  <1>2. /\ t \in Thread /\ t.pc = pc /\ t.request = thread[c].request /\ t.stable = thread[c].stable
        /\ t.failed_mask = thread[c].failed_mask /\ t.success = thread[c].success
    BY <1>1 DEF Thread
  <1>3. thread' = [thread EXCEPT ![c] = t]
    BY DEF Goto
  <1> HIDE DEF t
  <1>4. thread' \in [Core -> Thread] /\ thread'[c] = t /\ Others(c)
    BY <1>2, <1>3 DEF TypeOK, Others
  <1> QED BY <1>2, <1>4

\* Retire makes the thread of one core idle.
LEMMA RetireEffect ==
    ASSUME TypeOK, NEW c \in Core, Retire(c)
    PROVE  /\ thread' \in [Core -> Thread] /\ Others(c)
           /\ thread'[c].pc = "idle" /\ thread'[c].request = thread[c].request
  <1> DEFINE t == [pc |-> "idle", request |-> thread[c].request, stable |-> 0, failed_mask |-> {},
                   success |-> 0]
  <1>1. t \in Thread /\ t.pc = "idle" /\ t.request = thread[c].request
    BY DEF TypeOK, Thread, Location, Leading, Following, Ended
  <1>2. thread' = [thread EXCEPT ![c] = t]
    BY DEF Retire
  <1> HIDE DEF t
  <1>3. thread' \in [Core -> Thread] /\ thread'[c] = t /\ Others(c)
    BY <1>1, <1>2 DEF TypeOK, Others
  <1> QED BY <1>1, <1>3

\* The status of other cores than l stays.
Elsewhere(l) == \A d \in Core : d # l => core_status'[d] = core_status[d]

\* An atomic or adds bits to one word of one barrier.
LEMMA OrEffect ==
    ASSUME TypeOK, NEW l \in Core, NEW i \in {1, 2}, NEW cores \in SUBSET Core, Or(l, i, cores)
    PROVE  /\ core_status' \in [Core -> Status] /\ Elsewhere(l)
           /\ core_status'[l].exec_term = core_status[l].exec_term
           /\ core_status'[l].stable = core_status[l].stable
           /\ core_status'[l].nonce = core_status[l].nonce
           /\ core_status'[l].success = core_status[l].success
           /\ core_status'[l].barrier[i] = core_status[l].barrier[i] \cup cores
           /\ core_status'[l].barrier[3 - i] = core_status[l].barrier[3 - i]
  <1> DEFINE b == core_status[l].barrier
             n == IF i = 1 THEN <<b[1] \cup cores, b[2]>> ELSE <<b[1], b[2] \cup cores>>
             s == [core_status[l] EXCEPT !.barrier = n]
  <1>1. core_status[l] \in Status /\ b \in (SUBSET Core) \X (SUBSET Core)
    BY DEF TypeOK, Status
  <1>2. n \in (SUBSET Core) \X (SUBSET Core)
    BY <1>1
  <1>3. [b EXCEPT ![i] = @ \cup cores] = n
    BY <1>1, SMT
  <1>4. core_status' = [core_status EXCEPT ![l] = s]
    BY <1>3 DEF Or
  <1>5. /\ s \in Status /\ s.barrier = n /\ s.exec_term = core_status[l].exec_term
        /\ s.stable = core_status[l].stable /\ s.nonce = core_status[l].nonce
        /\ s.success = core_status[l].success
    BY <1>1, <1>2 DEF Status
  <1> HIDE DEF s
  <1>6. core_status' \in [Core -> Status] /\ Elsewhere(l) /\ core_status'[l] = s
    BY <1>4, <1>5 DEF TypeOK, Elsewhere
  <1>7. n[i] = b[i] \cup cores /\ n[3 - i] = b[3 - i]
    BY <1>1, SMT
  <1> QED BY <1>5, <1>6, <1>7

\* The second word gets the bits of the cores that leave.
LEMMA OrSecond ==
    ASSUME TypeOK, NEW l \in Core, NEW cores \in SUBSET Core, Or(l, 2, cores)
    PROVE  /\ core_status' \in [Core -> Status] /\ Elsewhere(l)
           /\ core_status'[l].exec_term = core_status[l].exec_term
           /\ core_status'[l].stable = core_status[l].stable
           /\ core_status'[l].nonce = core_status[l].nonce
           /\ core_status'[l].success = core_status[l].success
           /\ core_status'[l].barrier[2] = core_status[l].barrier[2] \cup cores
           /\ core_status'[l].barrier[1] = core_status[l].barrier[1]
  <1>1. 3 - 2 = 1
    BY SMT
  <1> QED BY SMT, <1>1, OrEffect

\* A store replaces the status of one core.
LEMMA StatusEffect ==
    ASSUME TypeOK, NEW c \in Core, NEW s \in Status, core_status' = [core_status EXCEPT ![c] = s]
    PROVE  core_status' \in [Core -> Status] /\ Elsewhere(c) /\ core_status'[c] = s
  BY DEF TypeOK, Elsewhere

\* The types, spelt out.
Typed ==
    /\ Len(requests) \in Nat /\ term \in Nat
    /\ \A o \in Request : /\ o \in Nat /\ requests[o].term \in Nat /\ requests[o].mask \subseteq Core
                          /\ First(requests[o].mask) \in requests[o].mask
    /\ \A c \in Core :
         /\ core_status[c].exec_term \in Nat /\ core_status[c].stable \in Nat
         /\ core_status[c].nonce \in Nat /\ core_status[c].success \in {0, 1}
         /\ thread[c].request \in Nat /\ thread[c].stable \in Nat /\ thread[c].pc \in Location
         /\ core_status[c].barrier[1] \subseteq Core /\ core_status[c].barrier[2] \subseteq Core
         /\ thread[c].failed_mask \subseteq Core

\* The masks of the requests name cores, so the types hold pointwise.
LEMMA Types == ASSUME Formed, TypeOK PROVE Typed
  <1>1. Len(requests) \in Nat /\ term \in Nat
    BY SMT DEF TypeOK
  <1>2. ASSUME NEW o \in Request
        PROVE  /\ o \in Nat /\ requests[o].term \in Nat /\ requests[o].mask \subseteq Core
               /\ First(requests[o].mask) \in requests[o].mask
    <2>1. o \in Nat /\ requests[o] \in RequestSet
      BY SMT DEF TypeOK, Request
    <2>2. requests[o].term \in Nat /\ requests[o].mask \in {r[2] : r \in Requests}
      BY <2>1 DEF RequestSet
    <2>3. requests[o].mask \subseteq Core /\ requests[o].mask # {}
      BY <2>2 DEF Formed
    <2>4. Core \subseteq Nat
      BY SMT DEF Formed, Core
    <2> QED BY <2>1, <2>2, <2>3, <2>4 DEF Formed
  <1>3. ASSUME NEW c \in Core
        PROVE  /\ core_status[c].exec_term \in Nat /\ core_status[c].stable \in Nat
               /\ core_status[c].nonce \in Nat /\ core_status[c].success \in {0, 1}
               /\ thread[c].request \in Nat /\ thread[c].stable \in Nat /\ thread[c].pc \in Location
               /\ core_status[c].barrier[1] \subseteq Core /\ core_status[c].barrier[2] \subseteq Core
               /\ thread[c].failed_mask \subseteq Core
    <2>1. core_status[c] \in Status /\ thread[c] \in Thread
      BY DEF TypeOK
    <2> QED BY <2>1 DEF Status, Thread
  <1> QED BY <1>1, <1>2, <1>3 DEF Typed

-----------------------------------------------------------------------------
(* What a step of a core leaves alone.                                     *)

\* A step of core c that stays with its request.
Step(c) ==
    /\ UNCHANGED <<requests, rep, term>>
    /\ Others(c) /\ thread'[c].request = thread[c].request
    /\ \A d \in Core : /\ core_status'[d].exec_term \in Nat
                       /\ core_status[d].exec_term <= core_status'[d].exec_term

\* What is read off the requests stays.
LEMMA Same ==
    ASSUME NEW c \in Core, Step(c)
    PROVE  /\ Request' = Request
           /\ \A o : (Gang(o)' <=> Gang(o)) /\ (Logged(o)' <=> Logged(o)) /\ RingsOf(o)' = RingsOf(o)
           /\ \A d \in Core : /\ thread'[d].request = thread[d].request
                              /\ Mine(d)' = Mine(d) /\ CoreLeader(d)' = CoreLeader(d)
  <1>1. Request' = Request
    BY DEF Step, Request
  <1>2. \A o : (Gang(o)' <=> Gang(o)) /\ (Logged(o)' <=> Logged(o)) /\ RingsOf(o)' = RingsOf(o)
    BY DEF Step, Gang, Logged, RingsOf
  <1>3. \A d \in Core : thread'[d].request = thread[d].request
    BY DEF Step, Others
  <1>4. \A d \in Core : Mine(d)' = Mine(d) /\ CoreLeader(d)' = CoreLeader(d)
    BY <1>3 DEF Step, Mine, CoreLeader
  <1> QED BY <1>1, <1>2, <1>3, <1>4

\* So two parts of the invariant follow from what they say of the threads.
LEMMA RoleAfter ==
    ASSUME NEW c \in Core, Step(c),
           \A d \in Core :
               /\ thread'[d].request <= Len(requests)
               /\ thread'[d].pc # "idle" => /\ thread'[d].request >= 1
                                            /\ d \in RingsOf(thread[d].request)
               /\ thread'[d].pc = "stable" => Mine(d).kind = "stable"
               /\ thread'[d].pc \in Leading => d = CoreLeader(d)
               /\ thread'[d].pc \in Following => d # CoreLeader(d) /\ Gang(thread[d].request)
    PROVE  RoleInv'
  <1>1. Len(requests') = Len(requests)
    BY DEF Step
  <1> QED BY SMT, <1>1, Same DEF RoleInv

\* The same of DecidedInv.
LEMMA DecidedAfter ==
    ASSUME NEW c \in Core, Step(c), \A o \in Request' : Logged(o)' \/ rep'[o] = "none",
           \A d \in Core :
               /\ \A o \in Request : d \in RingsOf(o) /\ Past(d, o)' => rep[o] # "unknown"
               /\ thread'[d].pc \notin {"idle", "await", "stable"} /\ Logged(thread[d].request) =>
                    rep[thread[d].request] = "success"
    PROVE  DecidedInv'
  <1>1. rep' = rep
    BY DEF Step
  <1> QED BY SMT, <1>1, Same DEF DecidedInv

\* A core that is not idle works on a request, whose leader core is a core.
LEMMA Whereabouts ==
    ASSUME Typed, RoleInv, NEW d \in Core, thread[d].pc # "idle"
    PROVE  /\ thread[d].request \in Request /\ Mine(d) = requests[thread[d].request]
           /\ CoreLeader(d) \in Core /\ CoreLeader(d) = First(Mine(d).mask)
           /\ CoreLeader(d) \in Mine(d).mask /\ Mine(d).mask \subseteq Core
           /\ Gang(thread[d].request) => d \in Mine(d).mask /\ Logged(thread[d].request)
  <1>1. thread[d].request \in Request
    BY SMT DEF Typed, RoleInv, Request
  <1>2. Mine(d) = requests[thread[d].request] /\ CoreLeader(d) = First(Mine(d).mask)
    BY DEF Mine, CoreLeader
  <1>3. CoreLeader(d) \in Mine(d).mask /\ Mine(d).mask \subseteq Core
    BY <1>1, <1>2 DEF Typed
  <1>4. Gang(thread[d].request) => d \in Mine(d).mask /\ Logged(thread[d].request)
    BY <1>2 DEF RoleInv, Gang, IsGang, Logged, RingsOf
  <1> QED BY <1>1, <1>2, <1>3, <1>4

\* What a follower has read holds while stable and the nonce stay.
LEMMA FrameRead ==
    ASSUME Typed, RoleInv, NEW c \in Core, Step(c), NEW d \in Core, ReadAt(d),
           d # c \/ thread'[d].pc \notin {"nonce?", "again?"},
           \A l \in Core : /\ core_status'[l].stable = core_status[l].stable
                           /\ core_status'[l].nonce = core_status[l].nonce
    PROVE  ReadAt(d)'
  <1> SUFFICES ASSUME thread'[d].pc \in {"nonce?", "again?"} PROVE ReadAt(d)'
    BY DEF ReadAt
  <1>1. thread'[d] = thread[d]
    BY DEF Step, Others
  <1>2. CoreLeader(d) \in Core /\ CoreLeader(d)' = CoreLeader(d)
    BY <1>1, Whereabouts, Same
  <1> QED BY <1>1, <1>2 DEF ReadAt, Leader

\* A follower in the barrier keeps its leader core there.
LEMMA FrameInside ==
    ASSUME Typed, RoleInv, NEW c \in Core, Step(c), NEW d \in Core, InsideAt(d),
           d # c \/ thread'[d].pc \notin Inside,
           thread[c].pc \in Meeting => thread'[c].pc \in Meeting,
           thread[d].pc \in {"verdict", "away"} =>
             core_status'[CoreLeader(d)].barrier[1] = core_status[CoreLeader(d)].barrier[1]
    PROVE  InsideAt(d)'
  <1> SUFFICES ASSUME thread'[d].pc \in Inside PROVE InsideAt(d)'
    BY DEF InsideAt
  <1>1. thread'[d] = thread[d]
    BY DEF Step, Others
  <1>2. /\ CoreLeader(d) \in Core /\ CoreLeader(d)' = CoreLeader(d) /\ Mine(d)' = Mine(d)
        /\ thread'[CoreLeader(d)].request = thread[CoreLeader(d)].request
    BY <1>1, Whereabouts, Same DEF Inside
  <1>3. thread[CoreLeader(d)].pc \in Meeting => thread'[CoreLeader(d)].pc \in Meeting
    BY <1>2 DEF Step, Others
  <1> QED BY <1>1, <1>2, <1>3 DEF InsideAt, Leader

\* Past and Came once, always.
LEMMA FramePast ==
    ASSUME NEW c \in Core, Step(c), NEW d \in Core, NEW o,
           d # c \/ (thread[d].pc \in Ended => thread'[d].pc \in Ended)
    PROVE  Past(d, o) => Past(d, o)'
  <1>1. thread'[d].request = thread[d].request
    BY Same
  <1>2. thread[d].pc \in Ended => thread'[d].pc \in Ended
    BY DEF Step, Others
  <1> QED BY <1>1, <1>2 DEF Past

\* A core that has come has come for good.
LEMMA FrameCame ==
    ASSUME NEW c \in Core, Step(c), NEW d \in Core, NEW o,
           thread[c].pc \in Ended => thread'[c].pc \in Ended,
           thread[c].pc \in Joined => thread'[c].pc \in Joined \cup Ended
    PROVE  Came(d, o) => Came(d, o)'
  <1>1. thread'[d].request = thread[d].request
    BY Same
  <1>2. thread[d].pc \in Joined => thread'[d].pc \in Joined \cup Ended
    BY DEF Step, Others
  <1>3. Past(d, o) => Past(d, o)'
    BY FramePast
  <1>4. thread'[d].request = o /\ thread'[d].pc \in Ended => Past(d, o)'
    BY DEF Past
  <1> QED BY <1>1, <1>2, <1>3, <1>4 DEF Came

\* A step of core c seen from the barrier of another core l.
LEMMA FrameMeeting ==
    ASSUME Typed, NEW c \in Core, Step(c), NEW l \in Core, l # c, NEW o \in Request, MeetingAt(l, o),
           thread[c].pc \in Ended => thread'[c].pc \in Ended,
           thread[c].pc \in Joined => thread'[c].pc \in Joined \cup Ended,
           core_status'[l].success = core_status[l].success,
           core_status[l].barrier[1] \subseteq core_status'[l].barrier[1],
           \A d \in core_status'[l].barrier[1] : d \in core_status[l].barrier[1] \/
             (d = c /\ c \in requests[o].mask /\ thread[c].request = o /\ thread'[c].pc \in Joined),
           \A d \in core_status'[l].barrier[2] : d \in core_status[l].barrier[2] \/
             (d = c /\ thread[c].request = o /\ thread'[c].pc \in Ended),
           thread[l].request = o /\ thread[l].pc \in Meeting /\ Gang(o) /\ thread[l].failed_mask = {} =>
             /\ \A d : <<o, d>> \in skipped' => <<o, d>> \in skipped
             /\ thread[c].request = o /\ thread'[c].pc = "away" => thread'[c].success = 1
    PROVE  MeetingAt(l, o)'
  <1>1. thread'[l] = thread[l] /\ requests' = requests
    BY DEF Step, Others
  <1> SUFFICES ASSUME thread[l].request = o, thread[l].pc \in Meeting, Gang(o) PROVE BarrierAt(l, o)'
    BY <1>1, Same DEF MeetingAt
  <1>2. BarrierAt(l, o)
    BY DEF MeetingAt
  <1>3. requests[o].mask \subseteq Core /\ requests[o].term \in Nat
    BY DEF Typed
  <1>4. \A d \in Core : (Came(d, o) => Came(d, o)') /\ (Past(d, o) => Past(d, o)')
    BY FrameCame, FramePast
  <1>5. /\ thread[c].request = o /\ thread'[c].pc \in Joined => Came(c, o)'
        /\ thread[c].request = o /\ thread'[c].pc \in Ended => Past(c, o)'
    BY DEF Came, Past, Step
  <1>6. \A d \in Core : core_status[d].exec_term <= core_status'[d].exec_term
                        /\ core_status[d].exec_term \in Nat
    BY DEF Step, Typed
  <1>7. core_status'[l].barrier[1] \subseteq requests[o].mask
    BY <1>1, <1>2, <1>3 DEF BarrierAt
  <1>8. \A d \in core_status'[l].barrier[1] : d = l \/ Came(d, o)'
    BY <1>2, <1>3, <1>4, <1>5, <1>7 DEF BarrierAt
  <1>9. \A d \in core_status'[l].barrier[2] : d = l \/ Past(d, o)'
    BY <1>2, <1>4, <1>5 DEF BarrierAt, Typed
  <1>10. \A d \in thread'[l].failed_mask : requests[o].term < core_status'[d].exec_term
    <2> SUFFICES ASSUME NEW d \in thread[l].failed_mask PROVE requests[o].term < core_status'[d].exec_term
      BY <1>1
    <2>1. d \in Core /\ requests[o].term < core_status[d].exec_term
      BY <1>2, <1>3 DEF BarrierAt
    <2>2. core_status'[d].exec_term \in Nat
      BY <2>1 DEF Step
    <2> QED BY <1>3, <1>6, <2>1, <2>2, SMT
  <1>11. thread'[l].failed_mask = {} => NoneFailed(l, o)'
    BY <1>1, <1>2, <1>3, ZenonT(40) DEF BarrierAt, NoneFailed, Step, Others
  <1> QED BY <1>1, <1>2, <1>7, <1>8, <1>9, <1>10, <1>11 DEF BarrierAt

\* A step of core c seen from request o.
LEMMA FramePass ==
    ASSUME Typed, NEW c \in Core, Step(c), NEW o \in Request, PassAt(o),
           Gang(o) /\ rep[o] = "success" => (Past(c, o)' <=> Past(c, o)),
           thread[c].pc \in Meeting => thread'[c].pc \in Meeting
    PROVE  PassAt(o)'
  <1>1. requests' = requests /\ rep' = rep /\ (Gang(o)' <=> Gang(o))
    BY Same DEF Step
  <1> SUFFICES ASSUME Gang(o), rep[o] = "success" PROVE PassAt(o)'
    BY <1>1 DEF PassAt
  <1>2. requests[o].mask \subseteq Core /\ First(requests[o].mask) \in requests[o].mask
    BY DEF Typed
  <1>3. \A d \in Core : Past(d, o)' <=> Past(d, o)
    BY DEF Past, Step, Others
  <1>4. \A d \in Core : thread[d].request = o /\ thread[d].pc \in Meeting =>
                        thread'[d].request = o /\ thread'[d].pc \in Meeting
    BY DEF Step, Others
  <1> QED BY <1>1, <1>2, <1>3, <1>4 DEF PassAt

\* A core gives a request up when it failed or was overtaken.
LEMMA FrameSkipped ==
    ASSUME Typed, NEW c \in Core, Step(c), NEW o \in Request, SkippedAt(o),
           thread[c].pc \in Ended => thread'[c].pc \in Ended,
           \A d \in requests[o].mask : <<o, d>> \in skipped' => <<o, d>> \in skipped \/
             (Past(d, o)' /\ (Gang(o) => rep[o] = "failed" \/ Overtaken(o)))
    PROVE  SkippedAt(o)'
  <1>1. requests' = requests /\ rep' = rep /\ (Gang(o)' <=> Gang(o))
    BY Same DEF Step
  <1>2. requests[o].mask \subseteq Core /\ requests[o].term \in Nat
    BY DEF Typed
  <1>3. \A d \in Core : Past(d, o) => Past(d, o)'
    BY FramePast
  <1>4. Overtaken(o) => Overtaken(o)'
    <2> SUFFICES ASSUME NEW d \in requests[o].mask, core_status[d].exec_term > requests[o].term
                 PROVE  core_status'[d].exec_term > requests[o].term
      BY <1>1 DEF Overtaken
    <2>1. /\ core_status[d].exec_term \in Nat /\ core_status'[d].exec_term \in Nat
          /\ core_status[d].exec_term <= core_status'[d].exec_term
      BY <1>2 DEF Step, Typed
    <2> QED BY <1>2, <2>1, SMT
  <1> QED BY <1>1, <1>2, <1>3, <1>4 DEF SkippedAt

\* A core starts to run a request when all have come to it.
LEMMA FrameRan ==
    ASSUME Typed, NEW c \in Core, Step(c), NEW o \in Request, RanAt(o),
           \A d : <<o, d>> \in ran' => <<o, d>> \in ran \/ Runs(d, o),
           Gang(o) /\ c \in requests[o].mask /\ Runs(c, o)' => Runs(c, o) \/
             (rep[o] = "success" /\ \A d \in requests[o].mask : o <= thread[d].request)
    PROVE  RanAt(o)'
  <1>1. requests' = requests /\ rep' = rep /\ (Gang(o)' <=> Gang(o))
    BY Same DEF Step
  <1>2. requests[o].mask \subseteq Core
    BY DEF Typed
  <1>3. \A d \in Core : thread'[d].request = thread[d].request /\ (d # c => (Runs(d, o)' <=> Runs(d, o)))
    BY Same DEF Runs, Step, Others
  <1> QED BY <1>1, <1>2, <1>3 DEF RanAt

\* The leader core answers what it has run, and nobody gives it up after it.
LEMMA FrameAnswered ==
    ASSUME Typed, NEW c \in Core, Step(c), NEW o \in Request, AnsweredAt(o),
           NEW l \in Core, l = First(requests[o].mask),
           thread[c].pc \in Ended => thread'[c].pc \in Ended,
           Gang(o) /\ o \in replies' => o \in replies \/ Runs(l, o),
           Gang(o) /\ c = l /\ Runs(c, o)' => Runs(c, o) \/
             (rep[o] = "success" /\ \A d \in requests[o].mask : <<o, d>> \notin skipped),
           Gang(o) /\ rep[o] = "success" /\ Past(l, o)' =>
             \A d \in requests[o].mask : <<o, d>> \in skipped' => <<o, d>> \in skipped
    PROVE  AnsweredAt(o)'
  <1>1. requests' = requests /\ rep' = rep /\ (Gang(o)' <=> Gang(o))
    BY Same DEF Step
  <1>2. requests[o].mask \subseteq Core
    BY DEF Typed
  <1>3. \A d \in Core : (d # c => (Runs(d, o)' <=> Runs(d, o))) /\ (Runs(d, o)' => Past(d, o)')
    BY DEF Runs, Step, Others, Past, Ended
  <1>4. \A d \in Core : Past(d, o) => Past(d, o)'
    BY FramePast
  <1> SUFFICES ASSUME Gang(o), o \in replies' \/ Runs(l, o)'
               PROVE  /\ Past(l, o)' /\ rep[o] = "success"
                      /\ \A d \in requests[o].mask : <<o, d>> \notin skipped'
    BY <1>1 DEF AnsweredAt, Runs, Past
  <1>5. CASE Runs(l, o) \/ o \in replies
    BY <1>2, <1>4, <1>5 DEF AnsweredAt
  <1>6. CASE ~(Runs(l, o) \/ o \in replies)
    BY <1>2, <1>3, <1>6
  <1> QED BY <1>5, <1>6

\* What a step within the rendezvous leaves alone.
LEMMA Quiet ==
    ASSUME Typed, IInv, NEW c \in Core, Step(c), UNCHANGED <<ran, skipped, replies>>,
           \A d \in Core : core_status'[d].exec_term = core_status[d].exec_term,
           \/ thread[c].pc \in Leading /\ thread'[c].pc \in Leading
           \/ thread[c].pc \in Following /\ thread'[c].pc \in Following,
           thread[c].pc \in Meeting => thread'[c].pc \in Meeting
    PROVE  /\ Request' = Request /\ TermInv' /\ RoleInv' /\ DecidedInv'
           /\ \A o \in Request : PassAt(o)' /\ SkippedAt(o)' /\ RanAt(o)' /\ AnsweredAt(o)'
  <1>1. /\ thread[c].pc \notin Ended /\ thread'[c].pc \notin Ended /\ thread[c].pc \notin {"await", "stable"}
        /\ thread'[c].pc \notin {"await", "stable"}
    BY DEF Leading, Following, Opening, Meeting, Waiting, Inside, Ended
  <1>2. \A d \in Core : \A o : (Past(d, o)' <=> Past(d, o)) /\ (Runs(d, o)' <=> Runs(d, o))
    BY <1>1 DEF Past, Runs, Step, Others, Ended
  <1>3. UNCHANGED <<requests, rep, term>>
    BY DEF Step
  <1>4. TermInv'
    BY <1>3, Same DEF IInv, TermInv
  <1>5. RoleInv'
    <2> SUFFICES ASSUME NEW d \in Core
                 PROVE  /\ thread'[d].request <= Len(requests)
                        /\ thread'[d].pc # "idle" => /\ thread'[d].request >= 1
                                                     /\ d \in RingsOf(thread[d].request)
                        /\ thread'[d].pc = "stable" => Mine(d).kind = "stable"
                        /\ thread'[d].pc \in Leading => d = CoreLeader(d)
                        /\ thread'[d].pc \in Following => d # CoreLeader(d) /\ Gang(thread[d].request)
      BY <1>3, Same, SMT DEF RoleInv
    <2>1. thread'[d].request = thread[d].request
      BY Same
    <2>2. Leading \cap Following = {}
      BY DEF Leading, Following, Opening, Meeting, Waiting, Inside
    <2>3. CASE d = c
      BY <1>1, <2>1, <2>2, <2>3 DEF IInv, RoleInv, Ended
    <2>4. CASE d # c
      BY <2>1, <2>4 DEF IInv, RoleInv, Step, Others
    <2> QED BY <2>3, <2>4
  <1>6. DecidedInv'
    <2> SUFFICES ASSUME NEW d \in Core
                 PROVE  /\ \A o \in Request : d \in RingsOf(o) /\ Past(d, o) => rep[o] # "unknown"
                        /\ thread'[d].pc \notin {"idle", "await", "stable"} /\ Logged(thread[d].request) =>
                             rep[thread[d].request] = "success"
      <3>1. \A o \in Request' : Logged(o)' \/ rep'[o] = "none"
        BY <1>3, Same DEF IInv, DecidedInv
      <3> QED BY <1>2, <1>3, <3>1, Same, ZenonT(40) DEF DecidedInv
    <2>1. CASE d = c
      BY <1>1, <2>1 DEF IInv, DecidedInv, Ended
    <2>2. CASE d # c
      BY <2>2 DEF IInv, DecidedInv, Step, Others
    <2> QED BY <2>1, <2>2
  <1>7. ASSUME NEW o \in Request PROVE PassAt(o)' /\ SkippedAt(o)' /\ RanAt(o)' /\ AnsweredAt(o)'
    <2>1. PassAt(o)'
      BY <1>2, FramePass DEF IInv
    <2>2. SkippedAt(o)'
      BY <1>1, FrameSkipped DEF IInv
    <2>3. RanAt(o)'
      BY <1>2, FrameRan DEF IInv
    <2>4. AnsweredAt(o)'
      <3>1. First(requests[o].mask) \in Core
        BY DEF Typed
      <3> QED BY <1>1, <1>2, <3>1, FrameAnswered DEF IInv
    <2> QED BY <2>1, <2>2, <2>3, <2>4
  <1> QED BY <1>4, <1>5, <1>6, <1>7, Same

\* The nonce is left alone outside Opening.
LEMMA FrameNonce ==
    ASSUME NonceInv, NEW c \in Core, Step(c),
           thread[c].pc \notin Opening, thread'[c].pc \notin Opening,
           thread'[c].pc \in Meeting => thread[c].pc \in Meeting,
           thread[c].pc \in Meeting \cup Ended => thread'[c].pc \in Meeting \cup Ended,
           \A d \in Core : /\ core_status'[d].stable = core_status[d].stable
                           /\ core_status'[d].nonce = core_status[d].nonce
                           /\ thread[d].pc = "close" => /\ core_status'[d].success = core_status[d].success
                                                        /\ core_status'[d].barrier = core_status[d].barrier
    PROVE  NonceInv'
  <1> SUFFICES ASSUME NEW d \in Core
               PROVE  /\ core_status[d].stable % 2 = 1 <=> thread'[d].pc \in Opening
                      /\ core_status[d].nonce <= thread[d].request
                      /\ thread'[d].pc \in {"reset", "close"} \cup Meeting =>
                           core_status[d].nonce = thread[d].request
                      /\ core_status[d].nonce = thread[d].request =>
                           thread'[d].pc \in {"reset", "close"} \cup Meeting \cup Ended
                      /\ thread'[d].pc = "close" =>
                           core_status'[d].success = 1 /\ core_status'[d].barrier = <<{}, {}>>
    BY Same, ZenonT(40) DEF NonceInv, NonceAt
  <1>1. CASE d = c
    <2>1. /\ thread'[c].pc \notin {"reset", "close"} /\ thread[c].pc \notin {"reset", "close"}
      BY DEF Opening
    <2> QED BY <1>1, <2>1 DEF NonceInv, NonceAt
  <1>2. CASE d # c
    <2>1. thread'[d] = thread[d]
      BY <1>2 DEF Step, Others
    <2> QED BY <2>1 DEF NonceInv, NonceAt
  <1> QED BY <1>1, <1>2

\* A step of the leader core in the barrier keeps the invariant if it keeps what
\* the invariant says of the barrier itself.
LEMMA LeaderStep ==
    ASSUME Typed, IInv, TypeOK', NEW c \in Core, Step(c), UNCHANGED <<ran, skipped, replies>>,
           thread[c].pc \in Meeting, thread'[c].pc \in Meeting, Elsewhere(c),
           core_status'[c].exec_term = core_status[c].exec_term,
           core_status'[c].stable = core_status[c].stable,
           core_status'[c].nonce = core_status[c].nonce,
           core_status[c].barrier[1] \subseteq core_status'[c].barrier[1],
           \A o \in Request : thread[c].request = o /\ Gang(o) => BarrierAt(c, o)'
    PROVE  IInv'
  <1>1. \A d \in Core : /\ core_status'[d].exec_term = core_status[d].exec_term
                        /\ core_status'[d].stable = core_status[d].stable
                        /\ core_status'[d].nonce = core_status[d].nonce
                        /\ d # c => core_status'[d] = core_status[d]
    BY DEF Elsewhere
  <1>2. /\ thread[c].pc \in Leading /\ thread'[c].pc \in Leading
        /\ thread[c].pc \notin Opening \cup Ended \cup Joined /\ thread'[c].pc \notin Opening \cup Inside
        /\ thread[c].pc \notin {"close", "idle"} /\ thread'[c].pc \notin {"nonce?", "again?", "away"}
    BY DEF Leading, Opening, Meeting, Ended, Joined, Inside
  <1>3. /\ Request' = Request /\ TermInv' /\ RoleInv' /\ DecidedInv'
        /\ \A o \in Request : PassAt(o)' /\ SkippedAt(o)' /\ RanAt(o)' /\ AnsweredAt(o)'
    BY <1>1, <1>2, Quiet
  <1>4. NonceInv'
    BY <1>1, <1>2, FrameNonce DEF IInv
  <1>5. \A o \in Request : MeetingAt(c, o)'
    BY Same DEF MeetingAt
  <1>6. ASSUME NEW d \in Core PROVE ReadAt(d)'
    BY <1>1, <1>2, FrameRead DEF IInv
  <1>7. ASSUME NEW d \in Core PROVE InsideAt(d)'
    <2>1. ASSUME thread[d].pc \in {"verdict", "away"}
          PROVE  core_status'[CoreLeader(d)].barrier[1] = core_status[CoreLeader(d)].barrier[1]
      <3>1. CoreLeader(d) \in Core /\ Mine(d) = requests[thread[d].request] /\ thread[d].request \in Request
        BY <2>1, Whereabouts DEF IInv
      <3>2. /\ thread[CoreLeader(d)].request = thread[d].request /\ Gang(thread[d].request)
            /\ Leader(d).barrier[1] = Mine(d).mask
        BY <2>1 DEF IInv, InsideAt, Inside, RoleInv, Following
      <3>3. CASE CoreLeader(d) = c
        <4>1. /\ core_status[c].barrier[1] = requests[thread[c].request].mask
              /\ thread[c].request \in Request /\ Gang(thread[c].request)
          BY <3>1, <3>2, <3>3 DEF Leader
        <4>2. PICK o \in Request : o = thread[c].request
          BY <4>1
        <4>3. core_status'[c].barrier[1] \subseteq requests'[o].mask
          BY <4>1, <4>2 DEF BarrierAt
        <4> QED BY <3>3, <4>1, <4>2, <4>3 DEF Step
      <3>4. CASE CoreLeader(d) # c
        BY <1>1, <3>1, <3>4
      <3> QED BY <3>3, <3>4
    <2> QED BY <1>2, <2>1, FrameInside DEF IInv
  <1>8. ASSUME NEW l \in Core, l # c, NEW o \in Request PROVE MeetingAt(l, o)'
    BY <1>1, <1>2, <1>8, FrameMeeting DEF IInv
  <1> QED BY <1>3, <1>4, <1>5, <1>6, <1>7, <1>8 DEF IInv

\* A step of a follower keeps the invariant if it keeps what the invariant says
\* of the follower itself: the status it writes is that of its leader core, from
\* within the barrier.
LEMMA FollowerStep ==
    ASSUME Typed, IInv, TypeOK', NEW c \in Core, Step(c), UNCHANGED <<ran, skipped, replies>>,
           thread[c].pc \in Following, thread'[c].pc \in Following,
           thread[c].pc \in Joined => thread'[c].pc \in Joined,
           ReadAt(c)', InsideAt(c)',
           thread'[c].pc = "away" => /\ thread[c].pc = "verdict"
                                     /\ thread'[c].success = Leader(c).success,
           \A l \in Core : /\ core_status'[l].exec_term = core_status[l].exec_term
                           /\ core_status'[l].stable = core_status[l].stable
                           /\ core_status'[l].nonce = core_status[l].nonce
                           /\ core_status'[l].success = core_status[l].success
                           /\ core_status'[l].barrier[2] = core_status[l].barrier[2],
           \/ core_status' = core_status
           \/ /\ thread[c].pc = "join" /\ thread'[c].pc = "meet" /\ Elsewhere(CoreLeader(c))
              /\ core_status'[CoreLeader(c)].barrier[1] = core_status[CoreLeader(c)].barrier[1] \cup {c}
    PROVE  IInv'
  <1>1. /\ thread[c].request \in Request /\ Mine(c) = requests[thread[c].request]
        /\ CoreLeader(c) \in Core /\ CoreLeader(c) = First(Mine(c).mask)
        /\ c \in Mine(c).mask /\ Mine(c).mask \subseteq Core /\ Gang(thread[c].request)
        /\ CoreLeader(c)' = CoreLeader(c)
    <2>1. thread[c].pc # "idle" /\ Gang(thread[c].request)
      BY DEF Following, Waiting, Inside, IInv, RoleInv
    <2> QED BY <2>1, Whereabouts, Same DEF IInv
  <1>2. /\ thread[c].pc \notin Meeting \cup Opening \cup Ended
        /\ thread'[c].pc \notin Meeting \cup Opening \cup Ended
    BY DEF Following, Waiting, Inside, Opening, Meeting, Ended
  <1>3. /\ Request' = Request /\ TermInv' /\ RoleInv' /\ DecidedInv'
        /\ \A o \in Request : PassAt(o)' /\ SkippedAt(o)' /\ RanAt(o)' /\ AnsweredAt(o)'
    BY <1>2, Quiet
  <1>4. thread[c].pc = "join" => thread[CoreLeader(c)].pc \in Meeting
    BY DEF IInv, InsideAt, Inside
  <1>5. NonceInv'
    <2>1. \A d \in Core : thread[d].pc = "close" => core_status'[d] = core_status[d]
      BY <1>1, <1>4 DEF Elsewhere, Meeting
    <2> QED BY <1>2, <2>1, FrameNonce DEF IInv
  <1>6. ASSUME NEW d \in Core, d # c PROVE ReadAt(d)'
    BY <1>6, FrameRead DEF IInv
  <1>7. ASSUME NEW d \in Core, d # c PROVE InsideAt(d)'
    <2>1. ASSUME thread[d].pc \in {"verdict", "away"}
          PROVE  core_status'[CoreLeader(d)].barrier[1] = core_status[CoreLeader(d)].barrier[1]
      <3> SUFFICES ASSUME core_status' # core_status
                   PROVE  core_status'[CoreLeader(d)].barrier[1] = core_status[CoreLeader(d)].barrier[1]
        OBVIOUS
      <3>1. CoreLeader(d) \in Core /\ Mine(d) = requests[thread[d].request]
        BY <2>1, Whereabouts DEF IInv
      <3>2. /\ thread[CoreLeader(d)].request = thread[d].request
            /\ Leader(d).barrier[1] = Mine(d).mask
        BY <2>1 DEF IInv, InsideAt, Inside
      <3>3. thread[CoreLeader(c)].request = thread[c].request
        BY DEF IInv, InsideAt, Inside
      <3>4. CASE CoreLeader(d) = CoreLeader(c)
        <4>0. thread[d].request = thread[c].request
          BY <3>2, <3>3, <3>4, Zenon
        <4>1. Mine(d) = Mine(c)
          BY <4>0, Zenon DEF Mine
        <4>2. core_status[CoreLeader(c)].barrier[1] = Mine(c).mask
          BY <3>2, <3>4, <4>1 DEF Leader
        <4>3. core_status[CoreLeader(c)].barrier[1] \cup {c} = core_status[CoreLeader(c)].barrier[1]
          BY <1>1, <4>2
        <4> QED BY <3>4, <4>3
      <3>5. CASE CoreLeader(d) # CoreLeader(c)
        BY <3>1, <3>5 DEF Elsewhere
      <3> QED BY <3>4, <3>5
    <2> QED BY <1>2, <1>7, <2>1, FrameInside DEF IInv
  <1>8. ASSUME NEW o \in Request PROVE MeetingAt(c, o)'
    BY <1>2 DEF MeetingAt
  <1>9. ASSUME NEW l \in Core, l # c, NEW o \in Request PROVE MeetingAt(l, o)'
    <2>1. thread[c].request = o => Mine(c) = requests[o]
      BY <1>1
    <2>2. /\ core_status[l].barrier[1] \subseteq core_status'[l].barrier[1]
          /\ \A d \in core_status'[l].barrier[1] : d \in core_status[l].barrier[1] \/
               (d = c /\ l = CoreLeader(c) /\ thread[c].pc = "join" /\ thread'[c].pc = "meet")
      <3>1. CASE core_status' = core_status
        BY <3>1
      <3>2. CASE core_status' # core_status /\ l = CoreLeader(c)
        BY <3>2
      <3>3. CASE core_status' # core_status /\ l # CoreLeader(c)
        BY <3>3 DEF Elsewhere
      <3> QED BY <3>1, <3>2, <3>3
    <2>3. CASE thread[l].request = o /\ thread[l].pc \in Meeting /\ Gang(o)
      <3>1. l = First(requests[o].mask) /\ BarrierAt(l, o)
        BY <2>3 DEF IInv, RoleInv, CoreLeader, Mine, MeetingAt, Leading
      <3>2. thread[c].pc = "join" /\ l = CoreLeader(c) => thread[c].request = o
        BY <2>3, SMT DEF IInv, InsideAt, Inside
      <3>3. \A d \in core_status'[l].barrier[1] : d \in core_status[l].barrier[1] \/
               (d = c /\ c \in requests[o].mask /\ thread[c].request = o /\ thread'[c].pc \in Joined)
        BY <1>1, <2>1, <2>2, <3>2 DEF Joined
      <3>4. thread[l].failed_mask = {} /\ thread[c].request = o /\ thread'[c].pc = "away" =>
              thread'[c].success = 1
        <4>1. thread[l].failed_mask = {} => core_status[l].success = 1
          BY <3>1 DEF BarrierAt, NoneFailed
        <4>2. thread[c].request = o => Leader(c) = core_status[l]
          BY <1>1, <2>1, <3>1 DEF Leader
        <4> QED BY <4>1, <4>2
      <3> QED BY <1>2, <1>9, <2>2, <3>3, <3>4, FrameMeeting DEF IInv
    <2>4. CASE ~(thread[l].request = o /\ thread[l].pc \in Meeting /\ Gang(o))
      BY <1>9, <2>4, Same DEF Step, Others, MeetingAt
    <2> QED BY <2>3, <2>4
  <1> QED BY <1>3, <1>5, <1>6, <1>7, <1>8, <1>9 DEF IInv

-----------------------------------------------------------------------------
(* The rendezvous: the leader core.                                        *)

\* stable goes from even to odd and back.
LEMMA Parity == \A n \in Nat : ((n + 1) % 2 = 1 <=> n % 2 # 1) /\ (n % 2 # 1 <=> n % 2 = 0)
  BY SMT

\* The number after n, and the order.
LEMMA OneMore ==
    /\ \A n \in Nat : n + 1 \in Nat /\ n <= n + 1
    /\ \A n, k \in Nat : k <= n => k # n + 1
    /\ \A n, k \in Nat : n > k => ~(n <= k)
  BY SMT

\* A step that opens the rendezvous.
LEMMA OpenerStep ==
    ASSUME Typed, IInv, TypeOK', NEW c \in Core, Step(c), UNCHANGED <<ran, skipped, replies>>,
           thread[c].pc \in {"lead"} \cup Opening, thread'[c].pc \in Opening \cup {"enter"},
           Elsewhere(c), core_status'[c].exec_term = core_status[c].exec_term,
           NonceAt(c)', \A d \in Core : d # c => ReadAt(d)', \A o \in Request : MeetingAt(c, o)'
    PROVE  IInv'
  <1>1. /\ thread[c].pc \in Leading /\ thread'[c].pc \in Leading
        /\ thread[c].pc \notin Meeting \cup Ended \cup Joined /\ thread'[c].pc \notin Inside
        /\ thread[c].pc # "idle" /\ thread'[c].pc \notin {"nonce?", "again?", "away"}
    BY DEF Leading, Opening, Meeting, Ended, Joined, Inside
  <1>2. \A d \in Core : /\ core_status'[d].exec_term = core_status[d].exec_term
                        /\ d # c => core_status'[d] = core_status[d]
    BY DEF Elsewhere
  <1>3. /\ Request' = Request /\ TermInv' /\ RoleInv' /\ DecidedInv'
        /\ \A o \in Request : PassAt(o)' /\ SkippedAt(o)' /\ RanAt(o)' /\ AnsweredAt(o)'
    BY <1>1, <1>2, Quiet
  <1>4. ReadAt(c)'
    BY <1>1 DEF ReadAt
  <1>5. ASSUME NEW d \in Core PROVE InsideAt(d)'
    <2>1. ASSUME thread[d].pc \in {"verdict", "away"}
          PROVE  core_status'[CoreLeader(d)].barrier[1] = core_status[CoreLeader(d)].barrier[1]
      <3>1. CoreLeader(d) \in Core
        BY <2>1, Whereabouts DEF IInv
      <3>2. thread[CoreLeader(d)].pc \in Meeting
        BY <2>1 DEF IInv, InsideAt, Inside
      <3> QED BY <1>1, <1>2, <3>1, <3>2
    <2> QED BY <1>1, <2>1, FrameInside DEF IInv
  <1>6. ASSUME NEW l \in Core, l # c, NEW o \in Request PROVE MeetingAt(l, o)'
    BY <1>1, <1>2, <1>6, FrameMeeting DEF IInv
  <1>7. NonceInv'
    <2>1. ASSUME NEW d \in Core, d # c PROVE NonceAt(d)'
      <3>1. thread'[d] = thread[d] /\ core_status'[d] = core_status[d]
        BY <1>2, <2>1 DEF Step, Others
      <3> QED BY <3>1, ZenonT(40) DEF IInv, NonceInv, NonceAt
    <2> QED BY <2>1 DEF NonceInv
  <1> QED BY <1>3, <1>4, <1>5, <1>6, <1>7 DEF IInv

\* A follower does not take for stable what changes under its eyes.
LEMMA FrameUnstable ==
    ASSUME Typed, RoleInv, NEW c \in Core, Step(c), Elsewhere(c), NEW d \in Core, d # c, ReadAt(d),
           core_status'[c].stable \in Nat, core_status[c].stable <= core_status'[c].stable,
           \A n \in Nat : n % 2 = 0 /\ n <= core_status[c].stable => n # core_status'[c].stable
    PROVE  ReadAt(d)'
  <1>1. thread'[d] = thread[d]
    BY DEF Step, Others
  <1> SUFFICES ASSUME thread[d].pc \in {"nonce?", "again?"} PROVE ReadAt(d)'
    BY <1>1 DEF ReadAt
  <1>2. CoreLeader(d) \in Core /\ CoreLeader(d)' = CoreLeader(d)
    BY Whereabouts, Same
  <1>3. CASE CoreLeader(d) = c
    <2>1. /\ thread[d].stable <= core_status[c].stable /\ thread[d].stable % 2 = 0
          /\ thread[d].stable \in Nat /\ core_status[c].stable \in Nat
      BY <1>3 DEF ReadAt, Leader, Typed
    <2>2. thread[d].stable <= core_status'[c].stable /\ thread[d].stable # core_status'[c].stable
      BY <2>1, SMT
    <2> QED BY <1>1, <1>2, <1>3, <2>1, <2>2 DEF ReadAt, Leader
  <1>4. CASE CoreLeader(d) # c
    BY <1>1, <1>2, <1>4 DEF ReadAt, Leader, Elsewhere
  <1> QED BY <1>3, <1>4

\* A store to a field of the core's own status.
LEMMA StoreEffect ==
    ASSUME TypeOK, NEW c \in Core, NEW s, Write(c, s), s \in Status,
           s.exec_term = core_status[c].exec_term
    PROVE  /\ core_status' \in [Core -> Status] /\ Elsewhere(c) /\ core_status'[c] = s
           /\ \A d \in Core : /\ core_status'[d].exec_term \in Nat
                              /\ core_status[d].exec_term <= core_status'[d].exec_term
  <1>1. core_status' \in [Core -> Status] /\ Elsewhere(c) /\ core_status'[c] = s
    BY StatusEffect DEF Write
  <1>2. ASSUME NEW d \in Core
        PROVE  core_status'[d].exec_term \in Nat /\ core_status[d].exec_term <= core_status'[d].exec_term
    <2>1. core_status[d] \in Status
      BY DEF TypeOK
    <2>2. core_status[d].exec_term \in Nat
      BY <2>1 DEF Status
    <2>3. core_status'[d].exec_term = core_status[d].exec_term
      BY <1>1 DEF Elsewhere
    <2> QED BY <2>2, <2>3, SMT
  <1> QED BY <1>1, <1>2

\* stable becomes odd: a follower that has read it reads again.
LEMMA LeadOpenInv ==
    ASSUME Formed, IInv, NEW c \in Core, LeadOpen(c)
    PROVE  IInv'
  <1> DEFINE s == [core_status[c] EXCEPT !.stable = @ + 1]
  <1>1. TypeOK /\ Typed
    BY Types DEF IInv
  <1>2. /\ s \in Status /\ s.stable = core_status[c].stable + 1 /\ s.nonce = core_status[c].nonce
        /\ s.exec_term = core_status[c].exec_term
    <2>1. core_status[c] \in Status
      BY <1>1 DEF TypeOK
    <2> QED BY <2>1, SMT DEF Status
  <1>3. Write(c, s) /\ thread[c].pc = "lead" /\ Goto(c, "nonce") /\ UNCHANGED <<requests, rep, term, ran, skipped, replies>>
    BY DEF LeadOpen, At, serverVars, outVars
  <1> HIDE DEF s
  <1>4. /\ thread' \in [Core -> Thread] /\ Others(c) /\ thread'[c].pc = "nonce"
        /\ thread'[c].request = thread[c].request
    BY <1>1, <1>3, GotoEffect DEF Location, Leading, Opening
  <1>5. /\ core_status' \in [Core -> Status] /\ Elsewhere(c) /\ core_status'[c] = s
        /\ \A d \in Core : /\ core_status'[d].exec_term \in Nat
                           /\ core_status[d].exec_term <= core_status'[d].exec_term
    BY <1>1, <1>2, <1>3, StoreEffect
  <1>6. Step(c) /\ TypeOK'
    BY <1>1, <1>3, <1>4, <1>5 DEF Step, TypeOK
  <1>7. NonceAt(c)'
    <2>1. thread[c].pc \notin Opening /\ thread'[c].pc \in Opening
      BY <1>3, <1>4 DEF Opening
    <2>2. core_status[c].stable % 2 # 1
      BY <2>1 DEF IInv, NonceInv, NonceAt
    <2>3. core_status[c].stable \in Nat
      BY <1>1 DEF Typed
    <2>4. core_status'[c].stable % 2 = 1
      BY <1>2, <1>5, <2>2, <2>3, Parity
    <2>5. core_status[c].nonce <= thread[c].request /\ core_status[c].nonce # thread[c].request
      BY <1>3 DEF IInv, NonceInv, NonceAt, Meeting, Ended
    <2> QED BY <1>2, <1>4, <1>5, <2>1, <2>4, <2>5 DEF NonceAt, Meeting
  <1>8. ASSUME NEW d \in Core, d # c PROVE ReadAt(d)'
    <2>1. core_status[c].stable \in Nat /\ core_status'[c].stable = core_status[c].stable + 1
      BY <1>1, <1>2, <1>5 DEF Typed
    <2>2. ReadAt(d) /\ RoleInv
      BY DEF IInv
    <2> QED BY <1>1, <1>5, <1>6, <1>8, <2>1, <2>2, OneMore, FrameUnstable
  <1>9. \A o \in Request : MeetingAt(c, o)'
    BY <1>4 DEF MeetingAt, Meeting
  <1> QED BY <1>1, <1>2, <1>3, <1>4, <1>5, <1>6, <1>7, <1>8, <1>9, OpenerStep DEF Opening

\* The nonce is stored while stable is odd.
LEMMA LeadNonceInv ==
    ASSUME Formed, IInv, NEW c \in Core, LeadNonce(c)
    PROVE  IInv'
  <1> DEFINE s == [core_status[c] EXCEPT !.nonce = thread[c].request]
  <1>1. TypeOK /\ Typed
    BY Types DEF IInv
  <1>2. /\ s \in Status /\ s.stable = core_status[c].stable /\ s.nonce = thread[c].request
        /\ s.exec_term = core_status[c].exec_term
    <2>1. core_status[c] \in Status /\ thread[c].request \in Nat
      BY <1>1 DEF TypeOK, Typed
    <2> QED BY <2>1 DEF Status
  <1>3. /\ Write(c, s) /\ thread[c].pc = "nonce" /\ Goto(c, "reset")
        /\ UNCHANGED <<requests, rep, term, ran, skipped, replies>>
    BY DEF LeadNonce, At, serverVars, outVars
  <1> HIDE DEF s
  <1>4. /\ thread' \in [Core -> Thread] /\ Others(c) /\ thread'[c].pc = "reset"
        /\ thread'[c].request = thread[c].request
    BY <1>1, <1>3, GotoEffect DEF Location, Leading, Opening
  <1>5. /\ core_status' \in [Core -> Status] /\ Elsewhere(c) /\ core_status'[c] = s
        /\ \A d \in Core : /\ core_status'[d].exec_term \in Nat
                           /\ core_status[d].exec_term <= core_status'[d].exec_term
    BY <1>1, <1>2, <1>3, StoreEffect
  <1>6. Step(c) /\ TypeOK'
    BY <1>1, <1>3, <1>4, <1>5 DEF Step, TypeOK
  <1>7. core_status[c].stable % 2 = 1 /\ core_status[c].stable \in Nat /\ thread[c].request \in Nat
    BY <1>1, <1>3 DEF IInv, NonceInv, NonceAt, Opening, Typed
  <1>8. NonceAt(c)'
    BY <1>2, <1>4, <1>5, <1>7, SMT DEF NonceAt, Opening
  <1>9. ASSUME NEW d \in Core, d # c PROVE ReadAt(d)'
    <2>1. \A n \in Nat : n % 2 = 0 => n # core_status[c].stable
      BY <1>7, SMT
    <2> QED BY <1>1, <1>2, <1>5, <1>6, <1>7, <1>9, <2>1, FrameUnstable, SMT DEF IInv
  <1>10. \A o \in Request : MeetingAt(c, o)'
    BY <1>4 DEF MeetingAt, Meeting
  <1> QED BY <1>1, <1>2, <1>3, <1>4, <1>5, <1>6, <1>8, <1>9, <1>10, OpenerStep DEF Opening

\* So are success and the words of the barrier.
LEMMA LeadResetInv ==
    ASSUME Formed, IInv, NEW c \in Core, LeadReset(c)
    PROVE  IInv'
  <1> DEFINE s == [core_status[c] EXCEPT !.success = 1, !.barrier = <<{}, {}>>]
  <1>1. TypeOK /\ Typed
    BY Types DEF IInv
  <1>2. /\ s \in Status /\ s.stable = core_status[c].stable /\ s.nonce = core_status[c].nonce
        /\ s.exec_term = core_status[c].exec_term /\ s.success = 1 /\ s.barrier = <<{}, {}>>
    <2>1. core_status[c] \in Status
      BY <1>1 DEF TypeOK
    <2>2. <<{}, {}>> \in (SUBSET Core) \X (SUBSET Core)
      OBVIOUS
    <2> QED BY <2>1, <2>2 DEF Status
  <1>3. /\ Write(c, s) /\ thread[c].pc = "reset" /\ Goto(c, "close")
        /\ UNCHANGED <<requests, rep, term, ran, skipped, replies>>
    BY DEF LeadReset, At, serverVars, outVars
  <1> HIDE DEF s
  <1>4. /\ thread' \in [Core -> Thread] /\ Others(c) /\ thread'[c].pc = "close"
        /\ thread'[c].request = thread[c].request
    BY <1>1, <1>3, GotoEffect DEF Location, Leading, Opening
  <1>5. /\ core_status' \in [Core -> Status] /\ Elsewhere(c) /\ core_status'[c] = s
        /\ \A d \in Core : /\ core_status'[d].exec_term \in Nat
                           /\ core_status[d].exec_term <= core_status'[d].exec_term
    BY <1>1, <1>2, <1>3, StoreEffect
  <1>6. Step(c) /\ TypeOK'
    BY <1>1, <1>3, <1>4, <1>5 DEF Step, TypeOK
  <1>7. NonceAt(c)'
    <2>1. /\ core_status[c].stable % 2 = 1 /\ core_status[c].nonce = thread[c].request
          /\ core_status[c].nonce <= thread[c].request
      BY <1>3 DEF IInv, NonceInv, NonceAt, Opening
    <2> QED BY <1>2, <1>4, <1>5, <2>1 DEF NonceAt, Opening
  <1>8. ASSUME NEW d \in Core, d # c PROVE ReadAt(d)'
    BY <1>1, <1>2, <1>5, <1>6, <1>8, FrameRead DEF IInv, Elsewhere
  <1>9. \A o \in Request : MeetingAt(c, o)'
    BY <1>4 DEF MeetingAt, Meeting
  <1> QED BY <1>1, <1>2, <1>3, <1>4, <1>5, <1>6, <1>7, <1>8, <1>9, OpenerStep DEF Opening

\* A step replaces the state of one thread.
LEMMA MoveEffect ==
    ASSUME TypeOK, NEW c \in Core, NEW t \in Thread, thread' = [thread EXCEPT ![c] = t]
    PROVE  thread' \in [Core -> Thread] /\ Others(c) /\ thread'[c] = t
  BY DEF TypeOK, Others

\* The followers find the words clean, and nobody can have given up yet: a core
\* is past the request only with its leader core in the barrier or past it.
LEMMA LeadCloseInv ==
    ASSUME Formed, IInv, NEW c \in Core, LeadClose(c)
    PROVE  IInv'
  <1> DEFINE s == [core_status[c] EXCEPT !.stable = @ + 1]
             t == [thread[c] EXCEPT !.pc = "enter", !.failed_mask = {}]
  <1>1. TypeOK /\ Typed
    BY Types DEF IInv
  <1>2. /\ s \in Status /\ s.stable = core_status[c].stable + 1 /\ s.nonce = core_status[c].nonce
        /\ s.exec_term = core_status[c].exec_term
        /\ s.success = core_status[c].success /\ s.barrier = core_status[c].barrier
    <2>1. core_status[c] \in Status
      BY <1>1 DEF TypeOK
    <2> QED BY <2>1, SMT DEF Status
  <1>3. /\ Write(c, s) /\ thread[c].pc = "close"
        /\ UNCHANGED <<requests, rep, term, ran, skipped, replies>>
    BY DEF LeadClose, At, serverVars, outVars
  <1>4. /\ t \in Thread /\ t.pc = "enter" /\ t.request = thread[c].request /\ t.failed_mask = {}
        /\ thread' = [thread EXCEPT ![c] = t]
    <2>1. thread[c] \in Thread
      BY <1>1 DEF TypeOK
    <2>2. thread' = [thread EXCEPT ![c] = t]
      BY DEF LeadClose
    <2>3. "enter" \in Location
      BY DEF Location, Leading, Meeting
    <2> QED BY <2>1, <2>2, <2>3 DEF Thread
  <1> HIDE DEF s, t
  <1>5. /\ thread' \in [Core -> Thread] /\ Others(c) /\ thread'[c].pc = "enter"
        /\ thread'[c].request = thread[c].request /\ thread'[c].failed_mask = {}
    BY <1>1, <1>4, MoveEffect
  <1>6. /\ core_status' \in [Core -> Status] /\ Elsewhere(c) /\ core_status'[c] = s
        /\ \A d \in Core : /\ core_status'[d].exec_term \in Nat
                           /\ core_status[d].exec_term <= core_status'[d].exec_term
    BY <1>1, <1>2, <1>3, StoreEffect
  <1>7. Step(c) /\ TypeOK'
    BY <1>1, <1>3, <1>5, <1>6 DEF Step, TypeOK
  <1>8. /\ core_status[c].stable % 2 = 1 /\ core_status[c].nonce = thread[c].request
        /\ core_status[c].nonce <= thread[c].request /\ core_status[c].stable \in Nat
        /\ core_status[c].success = 1 /\ core_status[c].barrier = <<{}, {}>>
    BY <1>1, <1>3 DEF IInv, NonceInv, NonceAt, Opening, Typed
  <1>9. NonceAt(c)'
    <2>1. core_status'[c].stable % 2 # 1
      BY <1>2, <1>6, <1>8, Parity
    <2> QED BY <1>2, <1>5, <1>6, <1>8, <2>1 DEF NonceAt, Opening, Meeting
  <1>10. ASSUME NEW d \in Core, d # c PROVE ReadAt(d)'
    BY <1>1, <1>2, <1>6, <1>7, <1>8, <1>10, FrameUnstable, SMT DEF IInv
  <1>11. ASSUME NEW o \in Request PROVE MeetingAt(c, o)'
    <2> SUFFICES ASSUME thread[c].request = o, Gang(o) PROVE BarrierAt(c, o)'
      BY <1>5, <1>7, Same DEF MeetingAt
    <2>1. /\ Mine(c) = requests[o] /\ requests[o].mask \subseteq Core /\ c = First(requests[o].mask)
          /\ Logged(o) /\ c \in requests[o].mask
      BY <1>1, <1>3, Whereabouts DEF IInv, RoleInv, Leading, Opening
    <2>2. rep[o] = "success"
      BY <1>3, <2>1 DEF IInv, DecidedInv
    <2>3. ~Past(c, o) /\ thread[c].pc \notin Meeting
      BY <1>1, <1>3, SMT DEF Past, Ended, Meeting, Typed
    <2>4. ASSUME NEW d \in requests[o].mask PROVE <<o, d>> \notin skipped
      <3>1. ~Past(d, o)
        BY <2>1, <2>2, <2>3 DEF IInv, PassAt
      <3> QED BY <3>1 DEF IInv, SkippedAt
    <2>5. ASSUME NEW d \in requests[o].mask, thread'[d].request = o PROVE thread'[d].pc # "away"
      <3>1. CASE d = c
        BY <1>5, <3>1
      <3>2. CASE d # c
        <4>1. thread'[d] = thread[d] /\ d \in Core
          BY <1>5, <2>1, <3>2 DEF Others
        <4>2. CoreLeader(d) = c
          BY <2>1, <2>5, <4>1 DEF CoreLeader, Mine
        <4> QED BY <2>3, <4>1, <4>2 DEF IInv, InsideAt, Inside
      <3> QED BY <3>1, <3>2
    <2>6. NoneFailed(c, o)'
      BY <1>2, <1>3, <1>6, <1>8, <2>4, <2>5 DEF NoneFailed
    <2>7. core_status'[c].barrier[1] = {} /\ core_status'[c].barrier[2] = {}
      BY <1>2, <1>6, <1>8, SMT
    <2> QED BY <1>5, <2>6, <2>7 DEF BarrierAt
  <1> QED BY <1>1, <1>2, <1>3, <1>5, <1>6, <1>7, <1>9, <1>10, <1>11, OpenerStep, ZenonT(40) DEF Opening

\* What the leader core may do in the barrier: it sets its own bits, and those of
\* cores that have gone on to a later term, which are past the request.
LEMMA BarrierKept ==
    ASSUME Typed, IInv, NEW c \in Core, Step(c), NEW o \in Request, thread[c].request = o, Gang(o),
           thread[c].pc \in Meeting, thread'[c].pc \in Meeting, UNCHANGED skipped,
           \A d \in Core : core_status'[d].exec_term = core_status[d].exec_term,
           core_status[c].barrier[1] \subseteq core_status'[c].barrier[1],
           \A i \in {1, 2} : core_status'[c].barrier[i] \subseteq
                               core_status[c].barrier[i] \cup {c} \cup thread[c].failed_mask,
           thread'[c].pc \in {"leave", "release", "part"} =>
             thread[c].pc \in {"leave", "release", "part"} \/ core_status[c].barrier[1] = Mine(c).mask,
           thread'[c].failed_mask \in {thread[c].failed_mask, check_terms(c)},
           thread'[c].pc \in {"fail", "excuse"} => thread'[c].failed_mask # {},
           core_status'[c].success = core_status[c].success \/ thread'[c].failed_mask # {}
    PROVE  BarrierAt(c, o)'
  <1>1. /\ Mine(c) = requests[o] /\ requests[o].mask \subseteq Core /\ c \in requests[o].mask
        /\ requests' = requests
    BY Whereabouts DEF IInv, Meeting, Step
  <1>2. BarrierAt(c, o)
    BY DEF IInv, MeetingAt
  <1>3. ASSUME NEW d \in Core, d # c
        PROVE  (Came(d, o)' <=> Came(d, o)) /\ (Past(d, o)' <=> Past(d, o)) /\ thread'[d] = thread[d]
    <2>1. thread'[d] = thread[d]
      BY <1>3 DEF Step, Others
    <2> QED BY <2>1 DEF Came, Past
  <1>4. ASSUME NEW d \in thread[c].failed_mask PROVE d \in Core /\ Past(d, o) /\ Came(d, o)
    <2>1. d \in Core /\ requests[o].term < core_status[d].exec_term
      BY <1>1, <1>2 DEF BarrierAt
    <2>2. ~(thread[d].request <= o)
      BY <2>1, SMT DEF IInv, TermInv, Typed
    <2>3. o < thread[d].request
      BY <2>1, <2>2, SMT DEF Typed
    <2> QED BY <2>1, <2>3 DEF Past, Came
  <1>5. thread[c].failed_mask \subseteq requests[o].mask
    BY <1>2 DEF BarrierAt
  <1>6. core_status'[c].barrier[1] \subseteq requests[o].mask
    BY <1>1, <1>2, <1>5 DEF BarrierAt
  <1>7. \A d \in core_status'[c].barrier[1] : d = c \/ Came(d, o)'
    BY <1>1, <1>2, <1>3, <1>4, <1>6 DEF BarrierAt
  <1>8. \A d \in core_status'[c].barrier[2] : d = c \/ Past(d, o)'
    BY <1>2, <1>3, <1>4 DEF BarrierAt, Typed
  <1>9. thread'[c].pc \in {"leave", "release", "part"} => core_status'[c].barrier[1] = requests[o].mask
    BY <1>1, <1>2, <1>6 DEF BarrierAt
  <1>10. /\ thread'[c].failed_mask \subseteq requests[o].mask
         /\ \A d \in thread'[c].failed_mask : requests[o].term < core_status'[d].exec_term
    BY <1>1, <1>2 DEF BarrierAt, check_terms
  <1>11. thread'[c].failed_mask = {} => NoneFailed(c, o)'
    <2> SUFFICES ASSUME thread'[c].failed_mask = {} PROVE NoneFailed(c, o)'
      OBVIOUS
    <2>1. thread[c].failed_mask \subseteq check_terms(c)
      BY <1>1, <1>2 DEF BarrierAt, check_terms
    <2>2. thread[c].failed_mask = {}
      BY <2>1
    <2>3. NoneFailed(c, o)
      BY <1>2, <2>2 DEF BarrierAt
    <2>4. thread'[c].pc # "away"
      BY DEF Meeting
    <2> QED BY <1>1, <1>3, <2>3, <2>4, ZenonT(40) DEF NoneFailed
  <1> QED BY <1>1, <1>6, <1>7, <1>8, <1>9, <1>10, <1>11 DEF BarrierAt

\* The store of a bit by the leader core.
LEMMA LeaderOr ==
    ASSUME Formed, IInv, NEW c \in Core, NEW i \in {1, 2}, NEW cores, NEW pc,
           cores \in {{c}, thread[c].failed_mask}, Or(c, i, cores), Goto(c, pc),
           UNCHANGED <<serverVars, outVars>>, thread[c].pc \in Meeting, pc \in Meeting,
           pc \in {"leave", "release", "part"} => thread[c].pc \in {"leave", "release", "part"},
           pc \notin {"fail", "excuse"}
    PROVE  IInv'
  <1>1. TypeOK /\ Typed
    BY Types DEF IInv
  <1>2. /\ thread' \in [Core -> Thread] /\ Others(c) /\ thread'[c].pc = pc
        /\ thread'[c].request = thread[c].request /\ thread'[c].failed_mask = thread[c].failed_mask
    BY <1>1, GotoEffect DEF Location, Leading
  <1>3. cores \in SUBSET Core
    BY <1>1 DEF Typed
  <1>4. /\ core_status' \in [Core -> Status] /\ Elsewhere(c)
        /\ core_status'[c].exec_term = core_status[c].exec_term
        /\ core_status'[c].stable = core_status[c].stable
        /\ core_status'[c].nonce = core_status[c].nonce
        /\ core_status'[c].success = core_status[c].success
        /\ core_status'[c].barrier[i] = core_status[c].barrier[i] \cup cores
        /\ core_status'[c].barrier[3 - i] = core_status[c].barrier[3 - i]
    BY <1>1, <1>3, OrEffect
  <1>5. \A d \in Core : /\ core_status'[d].exec_term = core_status[d].exec_term
                        /\ core_status'[d].exec_term \in Nat
                        /\ core_status[d].exec_term <= core_status'[d].exec_term
    BY <1>1, <1>4, SMT DEF Elsewhere, Typed
  <1>6. Step(c) /\ TypeOK' /\ UNCHANGED <<ran, skipped, replies>>
    BY <1>1, <1>2, <1>4, <1>5 DEF Step, TypeOK, serverVars, outVars
  <1>7. /\ core_status[c].barrier[1] \subseteq core_status'[c].barrier[1]
        /\ \A j \in {1, 2} : core_status'[c].barrier[j] \subseteq
                               core_status[c].barrier[j] \cup {c} \cup thread[c].failed_mask
    <2>1. CASE i = 1
      BY <1>4, <2>1, SMT
    <2>2. CASE i = 2
      BY <1>4, <2>2, SMT
    <2> QED BY <2>1, <2>2
  <1>8. ASSUME NEW o \in Request, thread[c].request = o, Gang(o) PROVE BarrierAt(c, o)'
    BY <1>1, <1>2, <1>4, <1>5, <1>6, <1>7, <1>8, BarrierKept
  <1> QED BY <1>1, <1>2, <1>4, <1>6, <1>7, <1>8, LeaderStep

\* The leader core sets its bits and those of the cores it excuses.
LEMMA LeadBitsInv ==
    ASSUME Formed, IInv, NEW c \in Core,
           LeadEnter(c) \/ LeadExcuse(c) \/ LeadLeave(c) \/ LeadRelease(c)
    PROVE  IInv'
  <1>1. CASE LeadEnter(c)
    BY <1>1, LeaderOr, SMT DEF LeadEnter, At, Meeting
  <1>2. CASE LeadExcuse(c)
    BY <1>2, LeaderOr, SMT DEF LeadExcuse, At, Meeting
  <1>3. CASE LeadLeave(c)
    BY <1>3, LeaderOr, SMT DEF LeadLeave, At, Meeting
  <1>4. CASE LeadRelease(c)
    BY <1>4, LeaderOr, SMT DEF LeadRelease, At, Meeting
  <1> QED BY <1>1, <1>2, <1>3, <1>4

\* The leader core goes on when all have come.
LEMMA LeadGatherInv ==
    ASSUME Formed, IInv, NEW c \in Core, LeadGather(c)
    PROVE  IInv'
  <1> DEFINE pc == IF core_status[c].barrier[1] = Mine(c).mask THEN "leave" ELSE "check"
  <1>1. TypeOK /\ Typed
    BY Types DEF IInv
  <1>2. /\ thread[c].pc = "gather" /\ Goto(c, pc) /\ pc \in {"leave", "check"}
        /\ UNCHANGED <<requests, rep, term, core_status, ran, skipped, replies>>
        /\ pc = "leave" => core_status[c].barrier[1] = Mine(c).mask
    BY DEF LeadGather, At, serverVars, outVars
  <1> HIDE DEF pc
  <1>3. /\ thread' \in [Core -> Thread] /\ Others(c) /\ thread'[c].pc = pc
        /\ thread'[c].request = thread[c].request /\ thread'[c].failed_mask = thread[c].failed_mask
    BY <1>1, <1>2, GotoEffect DEF Location, Leading, Meeting
  <1>4. thread[c].pc \in Meeting /\ thread'[c].pc \in Meeting
    BY <1>2, <1>3 DEF Meeting
  <1>5. Step(c) /\ TypeOK' /\ Elsewhere(c)
    BY <1>1, <1>2, <1>3, SMT DEF Step, TypeOK, Elsewhere, Typed
  <1>6. ASSUME NEW o \in Request, thread[c].request = o, Gang(o) PROVE BarrierAt(c, o)'
    BY <1>1, <1>2, <1>3, <1>4, <1>5, <1>6, BarrierKept, ZenonT(40)
  <1> QED BY <1>1, <1>2, <1>4, <1>5, <1>6, LeaderStep, ZenonT(40)

\* The cores that check_terms finds have gone on to a later term.
LEMMA LeadCheckInv ==
    ASSUME Formed, IInv, NEW c \in Core, LeadCheck(c)
    PROVE  IInv'
  <1> DEFINE t == [thread[c] EXCEPT !.failed_mask = check_terms(c),
                                    !.pc = IF check_terms(c) = {} THEN "gather" ELSE "fail"]
  <1>1. TypeOK /\ Typed
    BY Types DEF IInv
  <1>2. thread[c].pc = "check" /\ UNCHANGED <<requests, rep, term, core_status, ran, skipped, replies>>
    BY DEF LeadCheck, At, serverVars, outVars
  <1>3. /\ t \in Thread /\ t.request = thread[c].request /\ t.failed_mask = check_terms(c)
        /\ t.pc \in {"gather", "fail"} /\ (t.pc = "fail" => t.failed_mask # {})
        /\ thread' = [thread EXCEPT ![c] = t]
    <2>1. thread[c] \in Thread
      BY <1>1 DEF TypeOK
    <2>2. check_terms(c) \in SUBSET Core
      BY <1>1, <1>2, Whereabouts DEF check_terms, IInv
    <2>3. {"gather", "fail"} \subseteq Location
      BY DEF Location, Leading, Meeting
    <2>4. thread' = [thread EXCEPT ![c] = t]
      BY DEF LeadCheck
    <2> QED BY <2>1, <2>2, <2>3, <2>4 DEF Thread
  <1> HIDE DEF t
  <1>4. thread' \in [Core -> Thread] /\ Others(c) /\ thread'[c] = t
    BY <1>1, <1>3, MoveEffect
  <1>5. thread[c].pc \in Meeting /\ thread'[c].pc \in Meeting
    BY <1>2, <1>3, <1>4 DEF Meeting
  <1>6. Step(c) /\ TypeOK' /\ Elsewhere(c)
    BY <1>1, <1>2, <1>3, <1>4, SMT DEF Step, TypeOK, Elsewhere, Typed
  <1>7. ASSUME NEW o \in Request, thread[c].request = o, Gang(o) PROVE BarrierAt(c, o)'
    BY <1>1, <1>2, <1>3, <1>4, <1>5, <1>6, <1>7, BarrierKept
  <1> QED BY <1>1, <1>2, <1>5, <1>6, <1>7, LeaderStep

\* success is cleared only when some core has failed.
LEMMA LeadFailInv ==
    ASSUME Formed, IInv, NEW c \in Core, LeadFail(c)
    PROVE  IInv'
  <1> DEFINE s == [core_status[c] EXCEPT !.success = 0]
  <1>1. TypeOK /\ Typed
    BY Types DEF IInv
  <1>2. /\ s \in Status /\ s.stable = core_status[c].stable /\ s.nonce = core_status[c].nonce
        /\ s.exec_term = core_status[c].exec_term /\ s.barrier = core_status[c].barrier
    <2>1. core_status[c] \in Status
      BY <1>1 DEF TypeOK
    <2> QED BY <2>1 DEF Status
  <1>3. /\ Write(c, s) /\ thread[c].pc = "fail" /\ Goto(c, "excuse")
        /\ UNCHANGED <<requests, rep, term, ran, skipped, replies>>
    BY DEF LeadFail, At, serverVars, outVars
  <1> HIDE DEF s
  <1>4. /\ thread' \in [Core -> Thread] /\ Others(c) /\ thread'[c].pc = "excuse"
        /\ thread'[c].request = thread[c].request /\ thread'[c].failed_mask = thread[c].failed_mask
    BY <1>1, <1>3, GotoEffect DEF Location, Leading, Meeting
  <1>5. /\ core_status' \in [Core -> Status] /\ Elsewhere(c) /\ core_status'[c] = s
        /\ \A d \in Core : /\ core_status'[d].exec_term \in Nat
                           /\ core_status[d].exec_term <= core_status'[d].exec_term
    BY <1>1, <1>2, <1>3, StoreEffect
  <1>6. thread[c].pc \in Meeting /\ thread'[c].pc \in Meeting
    BY <1>3, <1>4 DEF Meeting
  <1>7. Step(c) /\ TypeOK' /\ \A d \in Core : core_status'[d].exec_term = core_status[d].exec_term
    BY <1>1, <1>2, <1>3, <1>4, <1>5 DEF Step, TypeOK, Elsewhere
  <1>8. ASSUME NEW o \in Request, thread[c].request = o, Gang(o) PROVE BarrierAt(c, o)'
    <2>1. thread[c].failed_mask # {}
      BY <1>3, <1>6, <1>8 DEF IInv, MeetingAt, BarrierAt
    <2> QED BY <1>1, <1>2, <1>3, <1>4, <1>5, <1>6, <1>7, <1>8, <2>1, BarrierKept
  <1> QED BY <1>1, <1>2, <1>3, <1>5, <1>6, <1>7, <1>8, LeaderStep

-----------------------------------------------------------------------------
(* The rendezvous: a follower.                                             *)

\* A step of a follower that stores nothing in its leader core's status.
LEMMA FollowerMove ==
    ASSUME Formed, IInv, NEW c \in Core, UNCHANGED <<serverVars, core_status, outVars>>,
           thread' \in [Core -> Thread], Others(c), thread'[c].request = thread[c].request,
           thread[c].pc \in Following, thread'[c].pc \in Following,
           thread[c].pc \in Joined => thread'[c].pc \in Joined,
           thread'[c].pc = "away" => /\ thread[c].pc = "verdict"
                                     /\ thread'[c].success = Leader(c).success,
           thread'[c].pc \in {"nonce?", "again?"} =>
             /\ thread'[c].stable % 2 = 0 /\ thread'[c].stable <= Leader(c).stable
             /\ thread'[c].pc = "again?" /\ Leader(c).stable = thread'[c].stable =>
                  Leader(c).nonce = thread[c].request,
           thread'[c].pc \in Inside =>
             /\ thread[CoreLeader(c)].request = thread[c].request
             /\ thread[CoreLeader(c)].pc \in Meeting
             /\ thread'[c].pc \in {"verdict", "away"} => Leader(c).barrier[1] = Mine(c).mask
    PROVE  IInv'
  <1>1. TypeOK /\ Typed
    BY Types DEF IInv
  <1>2. Step(c) /\ TypeOK' /\ UNCHANGED <<requests, rep, term, core_status, ran, skipped, replies>>
    BY <1>1, SMT DEF Step, TypeOK, Typed, serverVars, outVars
  <1>3. /\ CoreLeader(c) \in Core /\ CoreLeader(c) # c /\ CoreLeader(c)' = CoreLeader(c)
        /\ Mine(c)' = Mine(c)
    <2>1. thread[c].pc # "idle" /\ CoreLeader(c) # c
      BY DEF Following, Waiting, Inside, IInv, RoleInv
    <2> QED BY <1>1, <1>2, <2>1, Whereabouts, Same DEF IInv
  <1>4. thread'[CoreLeader(c)] = thread[CoreLeader(c)]
    BY <1>3 DEF Others
  <1>5. ReadAt(c)'
    BY <1>2, <1>3 DEF ReadAt, Leader
  <1>6. InsideAt(c)'
    BY <1>2, <1>3, <1>4 DEF InsideAt, Leader
  <1> QED BY <1>1, <1>2, <1>5, <1>6, FollowerStep

\* The leader core cannot have gone on to a later term: it would be past a
\* committed request, and so would be the follower.
LEMMA FollowTermInv ==
    ASSUME Formed, IInv, NEW c \in Core, FollowTerm(c)
    PROVE  IInv'
  <1>1. TypeOK /\ Typed
    BY Types DEF IInv
  <1>2. thread[c].pc = "follow"
    BY DEF FollowTerm, At
  <1>3. /\ thread[c].request \in Request /\ Mine(c) = requests[thread[c].request]
        /\ CoreLeader(c) \in Core /\ CoreLeader(c) = First(Mine(c).mask)
        /\ Gang(thread[c].request) /\ c \in Mine(c).mask /\ Logged(thread[c].request)
    BY <1>1, <1>2, Whereabouts DEF IInv, RoleInv, Following, Waiting
  <1>4. ~(Leader(c).exec_term > Mine(c).term)
    <2> SUFFICES ASSUME Leader(c).exec_term > Mine(c).term PROVE FALSE
      OBVIOUS
    <2>1. PICK o \in Request : o = thread[c].request
      BY <1>3
    <2>2. rep[o] = "success"
      BY <1>2, <1>3, <2>1 DEF IInv, DecidedInv
    <2>3. core_status[CoreLeader(c)].exec_term \in Nat /\ requests[o].term \in Nat
          /\ thread[CoreLeader(c)].request \in Nat /\ o \in Nat
      BY <1>1, <1>3 DEF Typed
    <2>4. ~(core_status[CoreLeader(c)].exec_term <= requests[o].term)
      BY <1>3, <2>1, <2>3, OneMore DEF Leader
    <2>5. ~(thread[CoreLeader(c)].request <= o)
      BY <1>3, <2>4 DEF IInv, TermInv
    <2>6. Past(CoreLeader(c), o)
      BY <2>3, <2>5, SMT DEF Past
    <2>7. Past(c, o)
      BY <1>3, <2>1, <2>2, <2>6, ZenonT(40) DEF IInv, PassAt
    <2> QED BY <1>2, <2>1, <2>3, <2>7, SMT DEF Past, Ended
  <1>5. Goto(c, "stable?") /\ UNCHANGED <<serverVars, core_status, outVars>>
    BY <1>4 DEF FollowTerm
  <1>6. /\ thread' \in [Core -> Thread] /\ Others(c) /\ thread'[c].pc = "stable?"
        /\ thread'[c].request = thread[c].request
    BY <1>1, <1>5, GotoEffect DEF Location, Following, Waiting
  <1> QED BY <1>2, <1>5, <1>6, FollowerMove DEF Following, Waiting, Inside, Joined

\* A follower takes an even stable only.
LEMMA FollowStableInv ==
    ASSUME Formed, IInv, NEW c \in Core, FollowStable(c)
    PROVE  IInv'
  <1> DEFINE pc == IF Leader(c).stable % 2 = 1 THEN "follow" ELSE "nonce?"
             t == [thread[c] EXCEPT !.stable = Leader(c).stable, !.pc = pc]
  <1>1. TypeOK /\ Typed
    BY Types DEF IInv
  <1>2. thread[c].pc = "stable?" /\ UNCHANGED <<serverVars, core_status, outVars>>
    BY DEF FollowStable, At
  <1>3. Leader(c).stable \in Nat
    BY <1>1, <1>2, Whereabouts DEF IInv, Leader, Typed
  <1>4. pc \in {"follow", "nonce?"} /\ (pc = "nonce?" => Leader(c).stable % 2 = 0)
    BY <1>3, Parity
  <1>5. thread' = [thread EXCEPT ![c] = t]
    BY DEF FollowStable
  <1> HIDE DEF pc
  <1>6. t \in Thread /\ t.pc = pc /\ t.request = thread[c].request /\ t.stable = Leader(c).stable
    <2>1. thread[c] \in Thread
      BY <1>1 DEF TypeOK
    <2>2. {"follow", "nonce?"} \subseteq Location
      BY DEF Location, Following, Waiting
    <2> QED BY <1>3, <1>4, <2>1, <2>2 DEF Thread
  <1> HIDE DEF t
  <1>7. thread' \in [Core -> Thread] /\ Others(c) /\ thread'[c] = t
    BY <1>1, <1>5, <1>6, MoveEffect
  <1>8. Leader(c).stable <= Leader(c).stable
    BY <1>3, SMT
  <1> QED BY <1>2, <1>4, <1>6, <1>7, <1>8, FollowerMove DEF Following, Waiting, Inside, Joined

\* It goes on with the nonce of its request only.
LEMMA FollowNonceInv ==
    ASSUME Formed, IInv, NEW c \in Core, FollowNonce(c)
    PROVE  IInv'
  <1> DEFINE pc == IF Leader(c).nonce # thread[c].request THEN "follow" ELSE "again?"
  <1>1. TypeOK /\ Typed
    BY Types DEF IInv
  <1>2. /\ thread[c].pc = "nonce?" /\ Goto(c, pc) /\ UNCHANGED <<serverVars, core_status, outVars>>
        /\ pc \in {"follow", "again?"} /\ (pc = "again?" => Leader(c).nonce = thread[c].request)
    BY DEF FollowNonce, At
  <1> HIDE DEF pc
  <1>3. /\ thread' \in [Core -> Thread] /\ Others(c) /\ thread'[c].pc = pc
        /\ thread'[c].request = thread[c].request /\ thread'[c].stable = thread[c].stable
    BY <1>1, <1>2, GotoEffect DEF Location, Following, Waiting
  <1>4. thread[c].stable % 2 = 0 /\ thread[c].stable <= Leader(c).stable
    BY <1>2 DEF IInv, ReadAt
  <1> QED BY <1>2, <1>3, <1>4, FollowerMove DEF Following, Waiting, Inside, Joined

\* The nonce read twice is that of a rendezvous that is open: the leader core is
\* in the barrier, as it cannot be past it without the follower.
LEMMA FollowAgainInv ==
    ASSUME Formed, IInv, NEW c \in Core, FollowAgain(c)
    PROVE  IInv'
  <1> DEFINE pc == IF Leader(c).stable # thread[c].stable THEN "follow" ELSE "join"
             l == CoreLeader(c)
  <1>1. TypeOK /\ Typed
    BY Types DEF IInv
  <1>2. /\ thread[c].pc = "again?" /\ Goto(c, pc) /\ UNCHANGED <<serverVars, core_status, outVars>>
        /\ pc \in {"follow", "join"} /\ (pc = "join" => Leader(c).stable = thread[c].stable)
    BY DEF FollowAgain, At
  <1> HIDE DEF pc
  <1>3. /\ thread' \in [Core -> Thread] /\ Others(c) /\ thread'[c].pc = pc
        /\ thread'[c].request = thread[c].request
    BY <1>1, <1>2, GotoEffect DEF Location, Following, Waiting, Inside
  <1>4. ASSUME pc = "join" PROVE thread[l].request = thread[c].request /\ thread[l].pc \in Meeting
    <2>1. /\ thread[c].request \in Request /\ Mine(c) = requests[thread[c].request]
          /\ l \in Core /\ l = First(Mine(c).mask)
          /\ Gang(thread[c].request) /\ c \in Mine(c).mask /\ Logged(thread[c].request)
      BY <1>1, <1>2, Whereabouts DEF IInv, RoleInv, Following, Waiting
    <2>2. PICK o \in Request : o = thread[c].request
      BY <2>1
    <2>3. core_status[l].stable % 2 = 0 /\ core_status[l].nonce = o
      BY <1>2, <1>4, <2>2 DEF IInv, ReadAt, Leader
    <2>4. thread[l].pc \notin Opening
      <3>1. core_status[l].stable % 2 = 1 <=> thread[l].pc \in Opening
        BY <2>1 DEF IInv, NonceInv, NonceAt
      <3>2. 0 # 1
        BY SMT
      <3> QED BY <2>3, <3>1, <3>2
    <2>5. /\ o <= thread[l].request
          /\ o = thread[l].request => thread[l].pc \in {"reset", "close"} \cup Meeting \cup Ended
      BY <2>1, <2>3 DEF IInv, NonceInv, NonceAt
    <2>6. rep[o] = "success"
      BY <1>2, <2>1, <2>2 DEF IInv, DecidedInv
    <2>7. ~Past(c, o)
      BY <1>1, <1>2, <2>2, SMT DEF Past, Ended, Typed
    <2>8. ~Past(l, o)
      BY <2>1, <2>2, <2>6, <2>7, ZenonT(40) DEF IInv, PassAt
    <2>9. o \in Nat /\ thread[l].request \in Nat
      BY <1>1, <2>1 DEF Typed
    <2>10. ~(o < thread[l].request) /\ ~(o = thread[l].request /\ thread[l].pc \in Ended)
      BY <2>8 DEF Past
    <2>11. o = thread[l].request
      BY <2>5, <2>9, <2>10, SMT
    <2> QED BY <2>2, <2>4, <2>5, <2>10, <2>11 DEF Opening
  <1> QED BY <1>2, <1>3, <1>4, FollowerMove DEF Following, Waiting, Inside, Joined

\* It sees the first word complete.
LEMMA FollowMeetInv ==
    ASSUME Formed, IInv, NEW c \in Core, FollowMeet(c)
    PROVE  IInv'
  <1>1. TypeOK /\ Typed
    BY Types DEF IInv
  <1>2. /\ thread[c].pc = "meet" /\ Goto(c, "verdict") /\ Leader(c).barrier[1] = Mine(c).mask
        /\ UNCHANGED <<serverVars, core_status, outVars>>
    BY DEF FollowMeet, At
  <1>3. /\ thread' \in [Core -> Thread] /\ Others(c) /\ thread'[c].pc = "verdict"
        /\ thread'[c].request = thread[c].request
    BY <1>1, <1>2, GotoEffect DEF Location, Following, Inside
  <1>4. thread[CoreLeader(c)].request = thread[c].request /\ thread[CoreLeader(c)].pc \in Meeting
    BY <1>2 DEF IInv, InsideAt, Inside
  <1> QED BY <1>2, <1>3, <1>4, FollowerMove DEF Following, Inside, Joined

\* It reads the verdict, which is final by then.
LEMMA FollowVerdictInv ==
    ASSUME Formed, IInv, NEW c \in Core, FollowVerdict(c)
    PROVE  IInv'
  <1> DEFINE t == [thread[c] EXCEPT !.success = Leader(c).success, !.pc = "away"]
  <1>1. TypeOK /\ Typed
    BY Types DEF IInv
  <1>2. thread[c].pc = "verdict" /\ UNCHANGED <<serverVars, core_status, outVars>>
    BY DEF FollowVerdict, At
  <1>3. Leader(c).success \in {0, 1}
    BY <1>1, <1>2, Whereabouts DEF IInv, Leader, Typed
  <1>4. t \in Thread /\ t.pc = "away" /\ t.request = thread[c].request /\ t.success = Leader(c).success
    <2>1. thread[c] \in Thread
      BY <1>1 DEF TypeOK
    <2>2. "away" \in Location
      BY DEF Location, Following, Inside
    <2> QED BY <1>3, <2>1, <2>2 DEF Thread
  <1>5. thread' = [thread EXCEPT ![c] = t]
    BY DEF FollowVerdict
  <1> HIDE DEF t
  <1>6. thread' \in [Core -> Thread] /\ Others(c) /\ thread'[c] = t
    BY <1>1, <1>4, <1>5, MoveEffect
  <1>7. /\ thread[CoreLeader(c)].request = thread[c].request /\ thread[CoreLeader(c)].pc \in Meeting
        /\ Leader(c).barrier[1] = Mine(c).mask
    BY <1>2 DEF IInv, InsideAt, Inside
  <1> QED BY <1>2, <1>4, <1>6, <1>7, FollowerMove DEF Following, Inside, Joined

\* It sets its bit in the first word of its leader core.
LEMMA FollowJoinInv ==
    ASSUME Formed, IInv, NEW c \in Core, FollowJoin(c)
    PROVE  IInv'
  <1> DEFINE l == CoreLeader(c)
  <1>1. TypeOK /\ Typed
    BY Types DEF IInv
  <1>2. /\ thread[c].pc = "join" /\ Goto(c, "meet") /\ Or(l, 1, {c})
        /\ UNCHANGED <<requests, rep, term, ran, skipped, replies>>
    BY DEF FollowJoin, At, serverVars, outVars
  <1>3. l \in Core /\ l # c
    BY <1>1, <1>2, Whereabouts DEF IInv, RoleInv, Following, Inside
  <1>4. /\ thread' \in [Core -> Thread] /\ Others(c) /\ thread'[c].pc = "meet"
        /\ thread'[c].request = thread[c].request
    BY <1>1, <1>2, GotoEffect DEF Location, Following, Inside
  <1>5. /\ core_status' \in [Core -> Status] /\ Elsewhere(l)
        /\ core_status'[l].exec_term = core_status[l].exec_term
        /\ core_status'[l].stable = core_status[l].stable
        /\ core_status'[l].nonce = core_status[l].nonce
        /\ core_status'[l].success = core_status[l].success
        /\ core_status'[l].barrier[1] = core_status[l].barrier[1] \cup {c}
        /\ core_status'[l].barrier[2] = core_status[l].barrier[2]
    <2>1. {c} \in SUBSET Core
      OBVIOUS
    <2> QED BY <1>1, <1>2, <1>3, <2>1, OrEffect, SMT
  <1>6. \A d \in Core : /\ core_status'[d].exec_term = core_status[d].exec_term
                        /\ core_status'[d].stable = core_status[d].stable
                        /\ core_status'[d].nonce = core_status[d].nonce
                        /\ core_status'[d].success = core_status[d].success
                        /\ core_status'[d].barrier[2] = core_status[d].barrier[2]
    BY <1>5 DEF Elsewhere
  <1>7. Step(c) /\ TypeOK'
    BY <1>1, <1>2, <1>4, <1>5, <1>6, SMT DEF Step, TypeOK, Typed
  <1>8. thread'[l] = thread[l] /\ l' = l
    BY <1>3, <1>4, <1>7, Same DEF Others
  <1>9. ReadAt(c)' /\ InsideAt(c)'
    BY <1>2, <1>4, <1>8 DEF IInv, ReadAt, InsideAt, Inside
  <1> QED BY <1>1, <1>2, <1>4, <1>5, <1>6, <1>7, <1>9, FollowerStep, ZenonT(40) DEF Following, Inside, Joined
-----------------------------------------------------------------------------
(* The steps into and out of the rendezvous.                               *)

\* A step of core c that is not within the rendezvous keeps the invariant if it
\* keeps what the invariant says of the requests.
LEMMA OuterStep ==
    ASSUME Typed, IInv, TypeOK', NEW c \in Core, Step(c), thread[c].pc # "idle",
           thread[c].pc \notin Opening,
           thread'[c].pc \notin Opening \cup Meeting \cup Inside \cup {"nonce?", "again?", "stable"},
           thread[c].pc \in Meeting \cup Joined \cup Ended => thread'[c].pc \in Ended,
           \A d \in Core : /\ core_status'[d].stable = core_status[d].stable
                           /\ core_status'[d].nonce = core_status[d].nonce
                           /\ core_status'[d].success = core_status[d].success
                           /\ core_status'[d].barrier[1] = core_status[d].barrier[1]
                           /\ thread[d].pc \notin Meeting => core_status'[d].barrier = core_status[d].barrier
                           /\ d # c => core_status'[d].exec_term = core_status[d].exec_term,
           core_status'[c].exec_term \in {core_status[c].exec_term, Mine(c).term},
           \A l \in Core : l # c => \A d \in core_status'[l].barrier[2] : d \in core_status[l].barrier[2] \/
             (d = c /\ thread[c].request = thread[l].request /\ thread'[c].pc \in Ended),
           thread'[c].pc = "lead" => c = CoreLeader(c),
           thread'[c].pc = "follow" => c # CoreLeader(c) /\ Gang(thread[c].request),
           thread'[c].pc \notin {"stable?", "await"},
           thread'[c].pc \in Ended => rep[thread[c].request] # "unknown",
           thread'[c].pc # "idle" /\ Logged(thread[c].request) => rep[thread[c].request] = "success",
           \A d \in Core : d # c /\ thread[d].pc \in Inside /\ CoreLeader(d) = c => thread[c].pc \notin Meeting,
           \A o \in Request : /\ PassAt(o)' /\ SkippedAt(o)' /\ RanAt(o)' /\ AnsweredAt(o)'
                              /\ Gang(o) /\ rep[o] = "success" =>
                                   \A l \in Core :
                                     l # c /\ thread[l].request = o /\ thread[l].pc \in Meeting /\ thread[l].failed_mask = {} =>
                                     \A d : <<o, d>> \in skipped' => <<o, d>> \in skipped
    PROVE  IInv'
  <1>1. /\ thread[c].request \in Request /\ Mine(c) = requests[thread[c].request]
        /\ UNCHANGED <<requests, rep, term>>
    BY Whereabouts DEF IInv, Step
  <1>2. TermInv'
    <2>1. /\ Mine(c).term <= term /\ \A o \in Request : thread[c].request <= o => Mine(c).term <= requests[o].term
      BY <1>1 DEF IInv, TermInv
    <2>2. ASSUME NEW d \in Core
          PROVE  /\ core_status'[d].exec_term <= term
                 /\ \A o \in Request : thread[d].request <= o => core_status'[d].exec_term <= requests[o].term
      <3>1. CASE d = c
        BY <2>1, <3>1 DEF IInv, TermInv
      <3>2. CASE d # c
        BY <3>2 DEF IInv, TermInv
      <3> QED BY <3>1, <3>2
    <2> QED BY <1>1, <2>2, Same DEF IInv, TermInv
  <1>3. RoleInv'
    <2> SUFFICES ASSUME NEW d \in Core
                 PROVE  /\ thread'[d].request <= Len(requests)
                        /\ thread'[d].pc # "idle" => /\ thread'[d].request >= 1
                                                     /\ d \in RingsOf(thread[d].request)
                        /\ thread'[d].pc = "stable" => Mine(d).kind = "stable"
                        /\ thread'[d].pc \in Leading => d = CoreLeader(d)
                        /\ thread'[d].pc \in Following => d # CoreLeader(d) /\ Gang(thread[d].request)
      BY <1>1, RoleAfter
    <2>1. thread'[d].request = thread[d].request
      BY Same
    <2>2. /\ thread'[c].pc \in Leading => thread'[c].pc = "lead"
          /\ thread'[c].pc \in Following => thread'[c].pc = "follow"
      BY DEF Leading, Following, Waiting
    <2>3. CASE d = c
      BY <2>1, <2>2, <2>3 DEF IInv, RoleInv
    <2>4. CASE d # c
      BY <2>1, <2>4, ZenonT(40) DEF IInv, RoleInv, Step, Others
    <2> QED BY <2>3, <2>4
  <1>4. DecidedInv'
    <2> SUFFICES ASSUME NEW d \in Core
                 PROVE  /\ \A o \in Request : d \in RingsOf(o) /\ Past(d, o)' => rep[o] # "unknown"
                        /\ thread'[d].pc \notin {"idle", "await", "stable"} /\ Logged(thread[d].request) =>
                             rep[thread[d].request] = "success"
      <3>1. \A o \in Request' : Logged(o)' \/ rep'[o] = "none"
        BY <1>1, Same DEF IInv, DecidedInv
      <3> QED BY <1>1, <3>1, DecidedAfter
    <2>1. CASE d = c
      <3>1. \A o \in Request : Past(c, o)' => Past(c, o) \/ (o = thread[c].request /\ thread'[c].pc \in Ended)
        BY DEF Past, Step
      <3> QED BY <2>1, <3>1 DEF IInv, DecidedInv
    <2>2. CASE d # c
      <3>1. thread'[d] = thread[d] /\ \A o : Past(d, o)' <=> Past(d, o)
        BY <2>2 DEF Past, Step, Others
      <3> QED BY <3>1 DEF IInv, DecidedInv
    <2> QED BY <2>1, <2>2
  <1>5. NonceInv'
    <2>1. \A d \in Core : thread[d].pc = "close" => core_status'[d].barrier = core_status[d].barrier
      BY DEF Meeting
    <2> QED BY <2>1, FrameNonce DEF IInv
  <1>6. ASSUME NEW d \in Core PROVE ReadAt(d)'
    BY <1>6, FrameRead DEF IInv
  <1>7. ASSUME NEW d \in Core PROVE InsideAt(d)'
    <2> SUFFICES ASSUME thread'[d].pc \in Inside PROVE InsideAt(d)'
      BY DEF InsideAt
    <2>1. d # c /\ thread'[d] = thread[d]
      BY DEF Step, Others
    <2>2. CoreLeader(d) \in Core /\ CoreLeader(d)' = CoreLeader(d) /\ Mine(d)' = Mine(d)
      BY <2>1, Whereabouts, Same DEF IInv, Inside
    <2>3. thread[CoreLeader(d)].pc \in Meeting
      BY <2>1 DEF IInv, InsideAt
    <2>4. CoreLeader(d) # c
      BY <2>1, <2>3
    <2>5. thread'[CoreLeader(d)] = thread[CoreLeader(d)]
      BY <2>2, <2>4 DEF Step, Others
    <2>6. /\ thread[CoreLeader(d)].request = thread[d].request
          /\ thread[d].pc \in {"verdict", "away"} => core_status[CoreLeader(d)].barrier[1] = Mine(d).mask
      BY <2>1 DEF IInv, InsideAt, Leader
    <2>7. core_status'[CoreLeader(d)].barrier[1] = core_status[CoreLeader(d)].barrier[1]
      BY <2>2
    <2>8. Leader(d)'.barrier[1] = core_status[CoreLeader(d)].barrier[1]
      BY <2>2, <2>7 DEF Leader
    <2> QED BY <2>1, <2>2, <2>3, <2>5, <2>6, <2>8 DEF InsideAt
  <1>8. ASSUME NEW o \in Request PROVE MeetingAt(c, o)'
    BY DEF MeetingAt
  <1>9. ASSUME NEW l \in Core, l # c, NEW o \in Request PROVE MeetingAt(l, o)'
    <2>1. thread'[l] = thread[l]
      BY <1>9 DEF Step, Others
    <2> SUFFICES ASSUME thread[l].request = o, thread[l].pc \in Meeting, Gang(o) PROVE MeetingAt(l, o)'
      BY <2>1, Same DEF MeetingAt
    <2>2. rep[o] = "success"
      BY Whereabouts DEF IInv, DecidedInv, Meeting
    <2>3. thread'[c].pc # "away"
      BY DEF Inside
    <2> QED BY <1>9, <2>2, <2>3, FrameMeeting, ZenonT(40) DEF IInv
  <1> QED BY <1>2, <1>3, <1>4, <1>5, <1>6, <1>7, <1>8, <1>9, Same, ZenonT(40) DEF IInv

\* A step of core c away from any rendezvous.
LEMMA ApartStep ==
    ASSUME Typed, IInv, TypeOK', NEW c \in Core, Step(c),
           thread[c].pc \in {"stable", "await", "run", "reply"},
           thread'[c].pc \in {"lead", "follow"} \cup Ended,
           thread[c].pc \in Ended => thread'[c].pc \in {"reply", "idle"},
           \A d \in Core : /\ core_status'[d].stable = core_status[d].stable
                           /\ core_status'[d].nonce = core_status[d].nonce
                           /\ core_status'[d].success = core_status[d].success
                           /\ core_status'[d].barrier = core_status[d].barrier
                           /\ d # c => core_status'[d].exec_term = core_status[d].exec_term,
           core_status'[c].exec_term \in {core_status[c].exec_term, Mine(c).term},
           thread'[c].pc = "lead" => c = CoreLeader(c),
           thread'[c].pc = "follow" => c # CoreLeader(c) /\ Gang(thread[c].request),
           rep[thread[c].request] # "unknown",
           thread'[c].pc # "idle" /\ Logged(thread[c].request) => rep[thread[c].request] = "success",
           Gang(thread[c].request) /\ rep[thread[c].request] = "success" =>
             (thread'[c].pc \in Ended => thread[c].pc \in Ended),
           Gang(thread[c].request) => thread'[c].pc # "run",
           \/ skipped' = skipped
           \/ /\ rep[thread[c].request] = "failed" /\ thread'[c].pc = "idle"
              /\ skipped' = skipped \cup {<<thread[c].request, c>>},
           \/ ran' = ran
           \/ thread[c].pc = "run" /\ ran' = ran \cup {<<thread[c].request, c>>},
           \/ replies' = replies
           \/ /\ replies' = replies \cup {thread[c].request}
              /\ Gang(thread[c].request) => thread[c].pc = "reply" /\ c = CoreLeader(c)
    PROVE  IInv'
  <1>1. /\ thread[c].request \in Request /\ CoreLeader(c) = First(requests[thread[c].request].mask)
    BY Whereabouts DEF IInv
  <1>2. /\ thread[c].pc \notin Opening \cup Meeting \cup Joined \cup {"idle"}
        /\ thread'[c].pc \notin Opening \cup Meeting \cup Inside \cup {"nonce?", "again?", "stable", "stable?", "await"}
        /\ thread[c].pc \in Ended => thread'[c].pc \in Ended
    BY DEF Opening, Meeting, Joined, Inside, Ended
  <1>3. thread'[c].pc = "reply" /\ Gang(thread[c].request) => thread[c].pc \in {"run", "reply"}
    <2>1. Gang(thread[c].request) => Logged(thread[c].request)
      BY DEF Gang, IsGang, Logged
    <2> QED BY <2>1 DEF Ended
  <1>4. \A o : Gang(o) /\ Runs(c, o)' => Runs(c, o)
    BY <1>3 DEF Runs, Step
  <1>5. ASSUME NEW o \in Request PROVE PassAt(o)' /\ SkippedAt(o)' /\ RanAt(o)' /\ AnsweredAt(o)'
    <2>1. PassAt(o)'
      <3>1. Gang(o) /\ rep[o] = "success" => (Past(c, o)' <=> Past(c, o))
        BY <1>2 DEF Past, Step
      <3> QED BY <1>2, <3>1, FramePass DEF IInv
    <2>2. \A d : <<o, d>> \in skipped' => <<o, d>> \in skipped \/
             (d = c /\ o = thread[c].request /\ rep[o] = "failed" /\ thread'[c].pc = "idle")
      BY SMT
    <2>3. SkippedAt(o)'
      <3>1. thread'[c].pc = "idle" /\ o = thread[c].request => Past(c, o)'
        BY DEF Past, Step, Ended
      <3> QED BY <1>2, <2>2, <3>1, FrameSkipped DEF IInv
    <2>4. RanAt(o)'
      <3>1. \A d : <<o, d>> \in ran' => <<o, d>> \in ran \/ Runs(d, o)
        BY SMT DEF Runs
      <3> QED BY <1>4, <3>1, FrameRan DEF IInv
    <2>5. AnsweredAt(o)'
      <3>1. First(requests[o].mask) \in Core
        BY DEF Typed
      <3>2. Gang(o) /\ o \in replies' => o \in replies \/ Runs(First(requests[o].mask), o)
        BY <1>1, ZenonT(40) DEF Runs
      <3> QED BY <1>2, <1>4, <2>2, <3>1, <3>2, FrameAnswered, ZenonT(40) DEF IInv
    <2> QED BY <2>1, <2>3, <2>4, <2>5
  <1>6. \A o \in Request : rep[o] = "success" => \A d : <<o, d>> \in skipped' => <<o, d>> \in skipped
    BY SMT
  <1> QED BY <1>2, <1>5, <1>6, OuterStep

\* The clause of Step on the terms, where the status does not change.
LEMMA Settled ==
    ASSUME Typed, NEW c \in Core, UNCHANGED <<requests, rep, term>>, Others(c),
           thread'[c].request = thread[c].request,
           \A d \in Core : core_status'[d].exec_term = core_status[d].exec_term
    PROVE  Step(c)
  BY SMT DEF Step, Typed

\* RPC_REQ_STABLE is answered from one core.
LEMMA StableInv ==
    ASSUME Formed, IInv, NEW c \in Core, Stable(c)
    PROVE  IInv'
  <1>1. TypeOK /\ Typed
    BY Types DEF IInv
  <1>2. /\ thread[c].pc = "stable" /\ replies' = replies \cup {thread[c].request} /\ Retire(c)
        /\ UNCHANGED <<requests, rep, term, core_status, ran, skipped>>
    BY DEF Stable, At, serverVars
  <1>3. /\ thread' \in [Core -> Thread] /\ Others(c) /\ thread'[c].pc = "idle"
        /\ thread'[c].request = thread[c].request
    BY <1>1, <1>2, RetireEffect
  <1>4. Step(c) /\ TypeOK'
    BY <1>1, <1>2, <1>3, Settled DEF TypeOK
  <1>5. thread[c].request \in Request /\ requests[thread[c].request].kind = "stable"
    BY <1>1, <1>2, Whereabouts DEF IInv, RoleInv
  <1>6. ~Gang(thread[c].request) /\ rep[thread[c].request] = "none"
    BY <1>5 DEF Gang, IsGang, Logged, IInv, DecidedInv
  <1> QED BY <1>1, <1>2, <1>3, <1>4, <1>6, ApartStep DEF Ended

\* A request whose entry was replaced is given up.
LEMMA AwaitFailedInv ==
    ASSUME Formed, IInv, NEW c \in Core, AwaitFailed(c)
    PROVE  IInv'
  <1>1. TypeOK /\ Typed
    BY Types DEF IInv
  <1>2. /\ thread[c].pc = "await" /\ rep[thread[c].request] = "failed" /\ Retire(c)
        /\ skipped' = skipped \cup {<<thread[c].request, c>>}
        /\ UNCHANGED <<requests, rep, term, core_status, ran, replies>>
    BY DEF AwaitFailed, At, GiveUp, serverVars
  <1>3. /\ thread' \in [Core -> Thread] /\ Others(c) /\ thread'[c].pc = "idle"
        /\ thread'[c].request = thread[c].request
    BY <1>1, <1>2, RetireEffect
  <1>4. Step(c) /\ TypeOK'
    BY <1>1, <1>2, <1>3, Settled DEF TypeOK
  <1> QED BY <1>1, <1>2, <1>3, <1>4, ApartStep DEF Ended

\* The callback runs.
LEMMA RunInv ==
    ASSUME Formed, IInv, NEW c \in Core, Run(c)
    PROVE  IInv'
  <1>1. TypeOK /\ Typed
    BY Types DEF IInv
  <1>2. /\ thread[c].pc = "run" /\ ran' = ran \cup {<<thread[c].request, c>>} /\ Goto(c, "reply")
        /\ UNCHANGED <<requests, rep, term, skipped, replies>>
    BY DEF Run, At, serverVars
  <1>3. /\ thread' \in [Core -> Thread] /\ Others(c) /\ thread'[c].pc = "reply"
        /\ thread'[c].request = thread[c].request
    BY <1>1, <1>2, GotoEffect DEF Location, Ended
  <1>4. /\ core_status' \in [Core -> Status]
        /\ \A d \in Core : /\ core_status'[d].exec_term = core_status[d].exec_term
                           /\ core_status'[d].stable = core_status[d].stable
                           /\ core_status'[d].nonce = core_status[d].nonce
                           /\ core_status'[d].success = core_status[d].success
                           /\ core_status'[d].barrier = core_status[d].barrier
    <2> DEFINE s == [core_status[c] EXCEPT !.checkpoint_idx = thread[c].request]
    <2>1. CASE core_status' = core_status
      BY <1>1, <2>1 DEF TypeOK
    <2>2. CASE core_status' = [core_status EXCEPT ![c] = s]
      <3>1. core_status[c] \in Status /\ thread[c].request \in Int
        BY <1>1, SMT DEF TypeOK, Typed
      <3>2. /\ s \in Status /\ s.exec_term = core_status[c].exec_term /\ s.stable = core_status[c].stable
            /\ s.nonce = core_status[c].nonce /\ s.success = core_status[c].success
            /\ s.barrier = core_status[c].barrier
        BY <3>1 DEF Status
      <3> HIDE DEF s
      <3>3. core_status' \in [Core -> Status] /\ Elsewhere(c) /\ core_status'[c] = s
        BY <1>1, <2>2, <3>2, StatusEffect
      <3> QED BY <3>2, <3>3 DEF Elsewhere
    <2> QED BY <2>1, <2>2 DEF Run
  <1>5. Step(c) /\ TypeOK'
    BY <1>1, <1>2, <1>3, <1>4, Settled DEF TypeOK
  <1>6. /\ thread[c].request \in Request /\ c \in RingsOf(thread[c].request) /\ Past(c, thread[c].request)
        /\ Logged(thread[c].request) => rep[thread[c].request] = "success"
    BY <1>1, <1>2, Whereabouts DEF IInv, RoleInv, DecidedInv, Past, Ended
  <1>7. rep[thread[c].request] # "unknown"
    BY <1>6 DEF IInv, DecidedInv
  <1> QED BY <1>1, <1>2, <1>3, <1>4, <1>5, <1>6, <1>7, ApartStep, ZenonT(40) DEF Ended

\* The request is answered, by its first core only.
LEMMA AnswerInv ==
    ASSUME Formed, IInv, NEW c \in Core, Answer(c)
    PROVE  IInv'
  <1>1. TypeOK /\ Typed
    BY Types DEF IInv
  <1>2. /\ thread[c].pc = "reply" /\ Reply(c) /\ Retire(c)
        /\ UNCHANGED <<requests, rep, term, core_status, ran, skipped>>
    BY DEF Answer, At, serverVars
  <1>3. /\ thread' \in [Core -> Thread] /\ Others(c) /\ thread'[c].pc = "idle"
        /\ thread'[c].request = thread[c].request
    BY <1>1, <1>2, RetireEffect
  <1>4. Step(c) /\ TypeOK'
    BY <1>1, <1>2, <1>3, Settled DEF TypeOK
  <1>5. thread[c].request \in Request /\ c \in RingsOf(thread[c].request) /\ Past(c, thread[c].request)
    BY <1>1, <1>2, Whereabouts DEF IInv, RoleInv, Past, Ended
  <1>6. rep[thread[c].request] # "unknown"
    BY <1>5 DEF IInv, DecidedInv
  <1>7. replies' = replies \/ (replies' = replies \cup {thread[c].request} /\ c = CoreLeader(c))
    BY <1>2 DEF Reply
  <1> QED BY <1>1, <1>2, <1>3, <1>4, <1>6, <1>7, ApartStep DEF Ended

\* A core takes over the term of a committed entry, and goes to the rendezvous
\* if the request names several cores.
LEMMA AwaitSuccessInv ==
    ASSUME Formed, IInv, NEW c \in Core, AwaitSuccess(c)
    PROVE  IInv'
  <1> DEFINE e == IF core_status[c].exec_term < Mine(c).term THEN Mine(c).term ELSE core_status[c].exec_term
             s == [core_status[c] EXCEPT !.exec_term = e]
             pc == Rendezvous(c, Mine(c).mask)
  <1>1. TypeOK /\ Typed
    BY Types DEF IInv
  <1>2. /\ thread[c].pc = "await" /\ rep[thread[c].request] = "success"
        /\ UNCHANGED <<requests, rep, term, ran, skipped>>
    BY DEF AwaitSuccess, At, serverVars
  <1>3. /\ thread[c].request \in Request /\ Mine(c) = requests[thread[c].request]
        /\ CoreLeader(c) = First(Mine(c).mask)
    BY <1>1, <1>2, Whereabouts DEF IInv
  <1>4. /\ core_status' \in [Core -> Status] /\ Elsewhere(c)
        /\ core_status'[c].exec_term = e /\ core_status'[c].stable = core_status[c].stable
        /\ core_status'[c].nonce = core_status[c].nonce /\ core_status'[c].success = core_status[c].success
        /\ core_status'[c].barrier = core_status[c].barrier
        /\ e \in Nat /\ core_status[c].exec_term <= e
    <2>1. core_status[c].exec_term \in Nat /\ Mine(c).term \in Nat
      BY <1>1, <1>3 DEF Typed
    <2>2. e \in Nat /\ core_status[c].exec_term <= e
      BY <2>1, SMT
    <2>3. core_status' = [core_status EXCEPT ![c] = s]
      BY DEF AwaitSuccess, Catchup
    <2> HIDE DEF e
    <2>4. core_status[c] \in Status
      BY <1>1 DEF TypeOK
    <2>5. /\ s \in Status /\ s.exec_term = e /\ s.stable = core_status[c].stable
          /\ s.nonce = core_status[c].nonce /\ s.success = core_status[c].success
          /\ s.barrier = core_status[c].barrier
      BY <2>2, <2>4 DEF Status
    <2> HIDE DEF s
    <2>6. core_status' \in [Core -> Status] /\ Elsewhere(c) /\ core_status'[c] = s
      BY <1>1, <2>3, <2>5, StatusEffect
    <2> QED BY <2>2, <2>5, <2>6
  <1>5. e \in {core_status[c].exec_term, Mine(c).term}
    OBVIOUS
  <1> HIDE DEF e, s
  <1>6. \A d \in Core : /\ core_status'[d].stable = core_status[d].stable
                        /\ core_status'[d].nonce = core_status[d].nonce
                        /\ core_status'[d].success = core_status[d].success
                        /\ core_status'[d].barrier = core_status[d].barrier
                        /\ d # c => core_status'[d].exec_term = core_status[d].exec_term
                        /\ core_status'[d].exec_term \in Nat
                        /\ core_status[d].exec_term <= core_status'[d].exec_term
    BY <1>1, <1>4, SMT DEF Elsewhere, Typed
  <1>7. CASE Mine(c).kind = "rw" /\ Goto(c, pc) /\ UNCHANGED replies
    <2>1. /\ pc \in {"run", "lead", "follow"} /\ (Gang(thread[c].request) <=> pc # "run")
          /\ pc = "lead" => c = CoreLeader(c)
          /\ pc = "follow" => c # CoreLeader(c)
      BY <1>3, <1>7 DEF Rendezvous, Gang, IsGang
    <2> HIDE DEF pc
    <2>2. {"run", "lead", "follow"} \subseteq Location
      BY DEF Location, Ended, Leading, Following, Waiting
    <2>3. /\ thread' \in [Core -> Thread] /\ Others(c) /\ thread'[c].pc = pc
          /\ thread'[c].request = thread[c].request
      BY <1>1, <1>7, <2>1, <2>2, GotoEffect
    <2>4. Step(c) /\ TypeOK'
      BY <1>1, <1>2, <1>4, <1>6, <2>3 DEF TypeOK, Step
    <2> QED BY <1>1, <1>2, <1>4, <1>5, <1>6, <1>7, <2>1, <2>3, <2>4, ApartStep, ZenonT(40) DEF Ended
  <1>8. CASE Mine(c).kind \in {"node", "kicker"} /\ Retire(c) /\ (Reply(c) \/ UNCHANGED replies)
    <2>1. /\ ~Gang(thread[c].request)
          /\ replies' = replies \/ replies' = replies \cup {thread[c].request}
      BY <1>3, <1>8 DEF Gang, IsGang, Reply
    <2>2. /\ thread' \in [Core -> Thread] /\ Others(c) /\ thread'[c].pc = "idle"
          /\ thread'[c].request = thread[c].request
      BY <1>1, <1>8, RetireEffect
    <2>3. Step(c) /\ TypeOK'
      BY <1>1, <1>2, <1>4, <1>6, <2>2 DEF TypeOK, Step
    <2> QED BY <1>1, <1>2, <1>4, <1>5, <1>6, <2>1, <2>2, <2>3, ApartStep, ZenonT(40) DEF Ended
  <1> QED BY <1>7, <1>8 DEF AwaitSuccess

\* When the leader core parts, every other core of the mask is past the request;
\* so nobody is left in the barrier, and all have the same verdict.
LEMMA LeadPartInv ==
    ASSUME Formed, IInv, NEW c \in Core, LeadPart(c)
    PROVE  IInv'
  <1>1. TypeOK /\ Typed
    BY Types DEF IInv
  <1>2. /\ thread[c].pc = "part" /\ core_status[c].barrier[2] = Mine(c).mask
        /\ UNCHANGED <<requests, rep, term, core_status, ran, replies>>
    BY DEF LeadPart, At, GiveUp, serverVars, outVars
  <1>3. PICK r \in Request : r = thread[c].request
    BY <1>1, <1>2, Whereabouts DEF IInv
  <1>4. /\ Mine(c) = requests[r] /\ c = First(requests[r].mask) /\ c \in requests[r].mask
        /\ requests[r].mask \subseteq Core /\ requests[r].mask # {}
        /\ Gang(r) => Logged(r) /\ rep[r] = "success"
        /\ rep[r] # "unknown"
    <2>1. /\ Mine(c) = requests[r] /\ c = First(requests[r].mask) /\ c \in requests[r].mask
          /\ requests[r].mask \subseteq Core
      BY <1>1, <1>2, <1>3, Whereabouts DEF IInv, RoleInv, Leading, Meeting
    <2>2. Gang(r) => Logged(r)
      BY DEF Gang, IsGang, Logged
    <2>3. Logged(r) => rep[r] = "success"
      BY <1>2, <1>3 DEF IInv, DecidedInv
    <2>4. ~Logged(r) => rep[r] = "none"
      BY DEF IInv, DecidedInv
    <2> QED BY <2>1, <2>2, <2>3, <2>4
  <1>5. Gang(r) => BarrierAt(c, r)
    BY <1>2, <1>3 DEF IInv, MeetingAt, Meeting
  <1>6. Gang(r) => \A d \in requests[r].mask : d = c \/ Past(d, r)
    BY <1>2, <1>4, <1>5 DEF BarrierAt
  <1>7. /\ thread' \in [Core -> Thread] /\ Others(c) /\ thread'[c].request = thread[c].request
        /\ \/ /\ thread[c].failed_mask # {} /\ thread'[c].pc = "idle"
              /\ skipped' = skipped \cup {<<r, c>>}
           \/ thread[c].failed_mask = {} /\ thread'[c].pc = "run" /\ skipped' = skipped
    <2>1. CASE thread[c].failed_mask # {} /\ GiveUp(c)
      <3>1. Retire(c) /\ skipped' = skipped \cup {<<r, c>>}
        BY <1>3, <2>1 DEF GiveUp
      <3> QED BY <1>1, <2>1, <3>1, RetireEffect
    <2>2. CASE thread[c].failed_mask = {} /\ Goto(c, "run") /\ UNCHANGED outVars
      <3>1. "run" \in Location /\ skipped' = skipped
        BY <2>2 DEF Location, Ended, outVars
      <3> QED BY <1>1, <2>2, <3>1, GotoEffect
    <2> QED BY <2>1, <2>2 DEF LeadPart
  <1>8. Step(c) /\ TypeOK'
    BY <1>1, <1>2, <1>7, Settled DEF TypeOK
  <1>9. /\ thread[c].pc \in Meeting
        /\ thread[c].pc \notin Opening \cup Ended \cup {"idle"}
        /\ thread'[c].pc \in Ended
        /\ thread'[c].pc \notin Opening \cup Meeting \cup Inside \cup
             {"nonce?", "again?", "stable", "stable?", "await", "lead", "follow", "reply"}
    BY <1>2, <1>7 DEF Opening, Meeting, Inside, Ended
  <1>10. ASSUME NEW d \in Core, d # c, thread[d].pc \in Inside, CoreLeader(d) = c PROVE FALSE
    <2>1. thread[d].request = r /\ Gang(r) /\ thread[d].pc # "idle" /\ thread[d].pc \notin Ended
      BY <1>3, <1>10 DEF IInv, InsideAt, RoleInv, Following, Inside, Ended
    <2>2. d \in requests[r].mask
      BY <1>1, <2>1, Whereabouts DEF IInv
    <2>3. ~Past(d, r)
      BY <1>1, <2>1, SMT DEF Past, Typed
    <2> QED BY <1>6, <1>10, <2>1, <2>2, <2>3
  <1>11. ASSUME NEW o \in Request PROVE PassAt(o)' /\ SkippedAt(o)' /\ RanAt(o)' /\ AnsweredAt(o)'
    <2>1. PassAt(o)'
      <3>1. CASE o = r /\ Gang(r)
        <4>1. \A d \in requests[r].mask : Past(d, r)'
          <5>1. Past(c, r)'
            BY <1>3, <1>7, <1>9 DEF Past
          <5>2. \A d \in Core : Past(d, r) => Past(d, r)'
            BY <1>8, <1>9, FramePast
          <5> QED BY <1>4, <1>6, <3>1, <5>1, <5>2
        <4> QED BY <1>2, <1>4, <3>1, <4>1 DEF PassAt
      <3>2. CASE o # r \/ ~Gang(r)
        <4>1. requests' = requests /\ rep' = rep /\ (Gang(o)' <=> Gang(o))
          BY <1>8, Same DEF Step
        <4> SUFFICES ASSUME Gang(o), rep[o] = "success" PROVE PassAt(o)'
          BY <4>1 DEF PassAt
        <4>2. \A d \in Core : Past(d, o)' <=> Past(d, o)
          BY <1>3, <1>7, <3>2 DEF Past, Others
        <4>3. \A d \in Core : thread[d].request = o /\ thread[d].pc \in Meeting =>
                              thread'[d].request = o /\ thread'[d].pc \in Meeting
          BY <1>3, <1>7, <3>2 DEF Others
        <4>4. requests[o].mask \subseteq Core /\ First(requests[o].mask) \in requests[o].mask
          BY <1>1 DEF Typed
        <4> QED BY <4>1, <4>2, <4>3, <4>4 DEF IInv, PassAt
      <3> QED BY <3>1, <3>2
    <2>2. SkippedAt(o)'
      <3>1. \A d : <<o, d>> \in skipped' => <<o, d>> \in skipped \/
              (o = r /\ d = c /\ thread[c].failed_mask # {})
        BY <1>7, SMT
      <3>2. Gang(r) /\ thread[c].failed_mask # {} => Overtaken(r)
        <4> SUFFICES ASSUME Gang(r), NEW d \in thread[c].failed_mask PROVE Overtaken(r)
          OBVIOUS
        <4>1. d \in requests[r].mask /\ requests[r].term < core_status[d].exec_term
          BY <1>5 DEF BarrierAt
        <4>2. requests[r].term \in Nat /\ core_status[d].exec_term \in Nat
          BY <1>1, <1>4, <4>1 DEF Typed
        <4> QED BY <4>1, <4>2 DEF Overtaken
      <3>3. Past(c, r)'
        BY <1>3, <1>7, <1>9 DEF Past
      <3> QED BY <1>1, <1>8, <1>9, <3>1, <3>2, <3>3, FrameSkipped, SMT DEF IInv
    <2>3. RanAt(o)'
      <3>1. Gang(o) /\ c \in requests[o].mask /\ Runs(c, o)' =>
              rep[o] = "success" /\ \A d \in requests[o].mask : o <= thread[d].request
        <4> SUFFICES ASSUME Gang(r), o = r PROVE \A d \in requests[r].mask : r <= thread[d].request
          BY <1>3, <1>4, <1>7 DEF Runs
        <4> TAKE d \in requests[r].mask
        <4>1. r \in Nat /\ thread[d].request \in Nat
          BY <1>1, <1>4 DEF Typed
        <4> QED BY <1>3, <1>6, <4>1, SMT DEF Past
      <3> QED BY <1>1, <1>2, <1>8, <3>1, FrameRan DEF IInv
    <2>4. AnsweredAt(o)'
      <3>1. First(requests[o].mask) \in Core
        BY <1>1 DEF Typed
      <3>2. Gang(o) /\ Runs(c, o)' => rep[o] = "success" /\ \A d \in requests[o].mask : <<o, d>> \notin skipped
        <4> SUFFICES ASSUME Gang(r), o = r, thread[c].failed_mask = {}
                     PROVE  \A d \in requests[r].mask : <<r, d>> \notin skipped
          BY <1>3, <1>4, <1>7 DEF Runs
        <4> QED BY <1>5 DEF BarrierAt, NoneFailed
      <3>3. Gang(o) /\ o \in replies => o # r
        <4>1. ~Past(c, r)
          BY <1>1, <1>3, <1>9, SMT DEF Past, Typed
        <4> QED BY <1>4, <4>1 DEF IInv, AnsweredAt
      <3>5. requests' = requests /\ rep' = rep /\ replies' = replies /\ (Gang(o)' <=> Gang(o))
        BY <1>2, <1>8, Same
      <3>6. CASE o # r
        <4>1. \A d : <<o, d>> \in skipped' => <<o, d>> \in skipped
          BY <1>7, <3>6, SMT
        <4>2. ~(Runs(c, o)')
          BY <1>3, <1>7, <3>6 DEF Runs
        <4> QED BY <1>1, <1>8, <1>9, <3>1, <3>5, <4>1, <4>2, FrameAnswered, ZenonT(40) DEF IInv
      <3>7. CASE o = r
        <4> SUFFICES ASSUME Gang(r), Runs(c, r)'
                     PROVE  /\ Past(c, r)' /\ rep[r] = "success"
                            /\ \A d \in requests[r].mask : <<r, d>> \notin skipped'
          BY <1>4, <3>3, <3>5, <3>7 DEF AnsweredAt, Runs, Past
        <4>1. skipped' = skipped /\ Past(c, r)'
          BY <1>3, <1>7, <1>9 DEF Runs, Past
        <4> QED BY <3>2, <3>7, <4>1
      <3> QED BY <3>6, <3>7
    <2> QED BY <2>1, <2>2, <2>3, <2>4
  <1>12. ASSUME NEW o \in Request, NEW l \in Core, l # c, thread[l].request = o, thread[l].pc \in Meeting
         PROVE  Gang(o) => \A d : <<o, d>> \in skipped' => <<o, d>> \in skipped
    <2>1. l = First(requests[o].mask)
      BY <1>12 DEF IInv, RoleInv, Leading, CoreLeader, Mine
    <2> QED BY <1>4, <1>7, <1>12, <2>1
  <1>13. /\ thread'[c].pc \in Ended => rep[thread[c].request] # "unknown"
         /\ thread'[c].pc # "idle" /\ Logged(thread[c].request) => rep[thread[c].request] = "success"
    <2>1. Logged(r) => rep[r] = "success"
      BY <1>2, <1>3 DEF IInv, DecidedInv
    <2> QED BY <1>3, <1>4, <2>1
  <1>14. core_status' = core_status
    BY <1>2
  <1> QED BY <1>1, <1>8, <1>9, <1>10, <1>11, <1>12, <1>13, <1>14, OuterStep, ZenonT(40)

\* A follower leaves the barrier, which its leader core cannot have left: all
\* cores have come, and one is told to give up only if another was overtaken.
LEMMA FollowAwayInv ==
    ASSUME Formed, IInv, NEW c \in Core, FollowAway(c)
    PROVE  IInv'
  <1>1. TypeOK /\ Typed
    BY Types DEF IInv
  <1>2. /\ thread[c].pc = "away" /\ Or(CoreLeader(c), 2, {c})
        /\ UNCHANGED <<requests, rep, term, ran, replies>>
    BY DEF FollowAway, At, serverVars
  <1> PICK l \in Core : l = CoreLeader(c)
    BY <1>1, <1>2, Whereabouts DEF IInv
  <1>3. PICK r \in Request : r = thread[c].request
    BY <1>1, <1>2, Whereabouts DEF IInv
  <1>4. /\ Mine(c) = requests[r] /\ l = First(requests[r].mask) /\ l # c /\ Gang(r)
        /\ requests[r].mask \subseteq Core /\ rep[r] = "success"
    <2>1. l # c /\ Gang(r)
      BY <1>2, <1>3 DEF IInv, RoleInv, Following, Inside
    <2>2. /\ Mine(c) = requests[r] /\ l = First(requests[r].mask) /\ Logged(r)
          /\ requests[r].mask \subseteq Core
      BY <1>1, <1>2, <1>3, <2>1, Whereabouts DEF IInv
    <2>3. rep[r] = "success"
      BY <1>2, <1>3, <2>2 DEF IInv, DecidedInv
    <2> QED BY <2>1, <2>2, <2>3
  <1>5. /\ thread[l].request = r /\ thread[l].pc \in Meeting
        /\ core_status[l].barrier[1] = requests[r].mask
    BY <1>2, <1>3, <1>4 DEF IInv, InsideAt, Inside, Leader
  <1>6. BarrierAt(l, r)
    BY <1>4, <1>5 DEF IInv, MeetingAt
  <1>7. /\ core_status' \in [Core -> Status] /\ Elsewhere(l)
        /\ core_status'[l].exec_term = core_status[l].exec_term
        /\ core_status'[l].stable = core_status[l].stable
        /\ core_status'[l].nonce = core_status[l].nonce
        /\ core_status'[l].success = core_status[l].success
        /\ core_status'[l].barrier[2] = core_status[l].barrier[2] \cup {c}
        /\ core_status'[l].barrier[1] = core_status[l].barrier[1]
    <2>1. {c} \in SUBSET Core
      OBVIOUS
    <2> QED BY <1>1, <1>2, <1>4, <2>1, OrSecond
  <1>8. /\ thread' \in [Core -> Thread] /\ Others(c) /\ thread'[c].request = thread[c].request
        /\ \/ /\ thread[c].success = 0 /\ thread'[c].pc = "idle"
              /\ skipped' = skipped \cup {<<r, c>>}
           \/ thread'[c].pc = "run" /\ skipped' = skipped
    <2>1. CASE thread[c].success = 0
      <3>1. Retire(c) /\ skipped' = skipped \cup {<<r, c>>}
        BY <1>3, <2>1 DEF FollowAway
      <3> QED BY <1>1, <2>1, <3>1, RetireEffect
    <2>2. CASE thread[c].success # 0
      <3>1. "run" \in Location /\ Goto(c, "run") /\ skipped' = skipped
        BY <2>2 DEF Location, Ended, FollowAway
      <3> QED BY <1>1, <3>1, GotoEffect
    <2> QED BY <2>1, <2>2
  <1>9. \A d \in Core : /\ core_status'[d].exec_term = core_status[d].exec_term
                        /\ core_status'[d].stable = core_status[d].stable
                        /\ core_status'[d].nonce = core_status[d].nonce
                        /\ core_status'[d].success = core_status[d].success
                        /\ core_status'[d].barrier[1] = core_status[d].barrier[1]
                        /\ thread[d].pc \notin Meeting => core_status'[d].barrier = core_status[d].barrier
    BY <1>5, <1>7 DEF Elsewhere
  <1>10. Step(c) /\ TypeOK'
    BY <1>1, <1>2, <1>7, <1>8, <1>9, Settled DEF TypeOK
  <1>11. /\ thread[c].pc \notin Opening \cup Meeting \cup Ended \cup {"idle"}
         /\ thread'[c].pc \in Ended
         /\ thread'[c].pc \notin Opening \cup Meeting \cup Inside \cup
              {"nonce?", "again?", "stable", "stable?", "await", "lead", "follow", "reply"}
    BY <1>2, <1>8 DEF Opening, Meeting, Inside, Ended
  <1>12. ASSUME NEW m \in Core, m # c, NEW d \in core_status'[m].barrier[2]
         PROVE  d \in core_status[m].barrier[2] \/
                (d = c /\ thread[c].request = thread[m].request /\ thread'[c].pc \in Ended)
    <2>1. CASE m = l
      BY <1>3, <1>5, <1>7, <1>11, <1>12, <2>1
    <2>2. CASE m # l
      BY <1>7, <1>12, <2>2 DEF Elsewhere
    <2> QED BY <2>1, <2>2
  <1>13. thread[c].success = 0 => thread[l].failed_mask # {}
    <2>1. c \in requests[r].mask
      BY <1>1, <1>2, <1>3, <1>4, Whereabouts DEF IInv
    <2>2. thread[l].failed_mask = {} => NoneFailed(l, r)
      BY <1>6 DEF BarrierAt
    <2>3. NoneFailed(l, r) => thread[c].success = 1
      BY <1>2, <1>3, <2>1, Zenon DEF NoneFailed
    <2> QED BY <2>2, <2>3, SMT
  <1>14. ~Past(l, r) /\ ~(Past(l, r)') /\ thread'[l] = thread[l] /\ Past(c, r)'
    <2>1. thread'[l] = thread[l] /\ r \in Nat /\ thread[l].pc \notin Ended
      BY <1>1, <1>4, <1>5, <1>8 DEF Others, Typed, Meeting, Ended
    <2> QED BY <1>3, <1>5, <1>8, <1>11, <2>1, SMT DEF Past
  <1>15. ASSUME NEW o \in Request PROVE PassAt(o)' /\ SkippedAt(o)' /\ RanAt(o)' /\ AnsweredAt(o)'
    <2>1. requests' = requests /\ rep' = rep /\ replies' = replies /\ (Gang(o)' <=> Gang(o))
      BY <1>2, <1>10, Same
    <2>2. requests[o].mask \subseteq Core /\ First(requests[o].mask) \in requests[o].mask
      BY <1>1 DEF Typed
    <2>3. PassAt(o)'
      <3>1. CASE o = r
        <4>1. thread'[l].request = r /\ thread'[l].pc \in Meeting
          BY <1>5, <1>14
        <4> QED BY <1>4, <1>14, <2>1, <3>1, <4>1 DEF PassAt
      <3>2. CASE o # r
        <4>1. Past(c, o)' <=> Past(c, o)
          BY <1>3, <1>8, <3>2 DEF Past
        <4> QED BY <1>1, <1>10, <1>11, <4>1, FramePass DEF IInv
      <3> QED BY <3>1, <3>2
    <2>4. \A d : <<o, d>> \in skipped' => <<o, d>> \in skipped \/ (o = r /\ d = c /\ thread[c].success = 0)
      BY <1>8, SMT
    <2>5. SkippedAt(o)'
      <3>1. thread[c].success = 0 => Overtaken(r)
        <4> SUFFICES ASSUME NEW d \in thread[l].failed_mask PROVE Overtaken(r)
          BY <1>13
        <4>1. d \in requests[r].mask /\ requests[r].term < core_status[d].exec_term
          BY <1>6 DEF BarrierAt
        <4>2. requests[r].term \in Nat /\ core_status[d].exec_term \in Nat
          BY <1>1, <1>4, <4>1 DEF Typed
        <4> QED BY <4>1, <4>2 DEF Overtaken
      <3> QED BY <1>1, <1>10, <1>11, <1>14, <2>4, <3>1, FrameSkipped, SMT DEF IInv
    <2>6. RanAt(o)'
      <3>1. \A d \in requests[r].mask : r <= thread[d].request
        <4> TAKE d \in requests[r].mask
        <4>1. r \in Nat /\ thread[d].request \in Nat
          BY <1>1, <1>4 DEF Typed
        <4>2. d = l \/ Came(d, r)
          BY <1>5, <1>6 DEF BarrierAt
        <4> QED BY <1>5, <4>1, <4>2, SMT DEF Past, Came
      <3>2. Runs(c, o)' => o = r
        BY <1>3, <1>8 DEF Runs
      <3> QED BY <1>1, <1>2, <1>4, <1>10, <3>1, <3>2, FrameRan, ZenonT(40) DEF IInv
    <2>7. AnsweredAt(o)'
      <3>1. CASE o = r
        <4>1. ~(Runs(l, r)')
          BY <1>14 DEF Runs, Past, Ended
        <4>2. r \notin replies
          BY <1>4, <1>14 DEF IInv, AnsweredAt
        <4> QED BY <1>4, <2>1, <3>1, <4>1, <4>2 DEF AnsweredAt, Runs
      <3>2. CASE o # r
        <4>1. ~(Runs(c, o)')
          BY <1>3, <1>8, <3>2 DEF Runs
        <4> QED BY <1>1, <1>10, <1>11, <2>1, <2>2, <2>4, <3>2, <4>1, FrameAnswered, ZenonT(40) DEF IInv
      <3> QED BY <3>1, <3>2
    <2> QED BY <2>3, <2>5, <2>6, <2>7
  <1>16. ASSUME NEW o \in Request, NEW m \in Core, thread[m].request = o, thread[m].pc \in Meeting,
                thread[m].failed_mask = {}
         PROVE  \A d : <<o, d>> \in skipped' => <<o, d>> \in skipped
    <2>1. m = First(requests[o].mask)
      BY <1>16 DEF IInv, RoleInv, Leading, CoreLeader, Mine
    <2> QED BY <1>4, <1>8, <1>13, <1>16, <2>1
  <1>17. rep[thread[c].request] = "success"
    BY <1>3, <1>4
  <1> QED BY <1>1, <1>9, <1>10, <1>11, <1>12, <1>15, <1>16, <1>17, OuterStep, ZenonT(40)

-----------------------------------------------------------------------------
(* The rings and the monitor thread.                                       *)

\* A core comes to the next request of its ring, and passes over none of those
\* it has a part in.
LEMMA DequeueInv ==
    ASSUME Formed, IInv, NEW c \in Core, Dequeue(c)
    PROVE  IInv'
  <1> DEFINE Pc(o) == CASE requests[o].kind = "ro" -> Rendezvous(c, requests[o].mask)
                        [] requests[o].kind = "stable" -> "stable"
                        [] OTHER -> "await"
             t(o) == [thread[c] EXCEPT !.request = o, !.pc = Pc(o)]
  <1>1. TypeOK /\ Typed
    BY Types DEF IInv
  <1>2. PICK q \in Request : /\ q > thread[c].request /\ c \in RingsOf(q)
                             /\ \A p \in (thread[c].request + 1)..(q - 1) : c \notin RingsOf(p)
                             /\ thread' = [thread EXCEPT ![c] = t(q)]
    BY ZenonT(40) DEF Dequeue
  <1>3. /\ thread[c].pc = "idle"
        /\ UNCHANGED <<requests, rep, term, core_status, ran, skipped, replies>>
    BY DEF Dequeue, At, serverVars, outVars
  <1>4. /\ Pc(q) \in {"run", "lead", "stable", "await"}
        /\ Pc(q) = "stable" => requests[q].kind = "stable"
        /\ Pc(q) \in {"run", "lead"} => requests[q].kind = "ro" /\ c = First(requests[q].mask)
    <2>1. requests[q].kind = "ro" => c = First(requests[q].mask)
      BY <1>2 DEF RingsOf, Logged
    <2> QED BY <2>1 DEF Rendezvous
  <1>5. thread[c].request \in Nat /\ q \in Nat /\ thread[c].request < q /\ q <= Len(requests) /\ 1 <= q
    BY <1>1, <1>2, SMT DEF Typed, Request
  <1>6. /\ thread' \in [Core -> Thread] /\ Others(c) /\ thread'[c].pc = Pc(q) /\ thread'[c].request = q
    <2> HIDE DEF Pc
    <2>1. thread[c] \in Thread
      BY <1>1 DEF TypeOK
    <2>2. Pc(q) \in Location
      BY <1>4 DEF Location, Leading, Ended
    <2>3. t(q) \in Thread /\ t(q).pc = Pc(q) /\ t(q).request = q
      BY <1>5, <2>1, <2>2 DEF Thread
    <2> QED BY <1>1, <1>2, <2>3, MoveEffect
  <1> HIDE DEF Pc, t
  <1>7. /\ Request' = Request
        /\ \A o : (Gang(o)' <=> Gang(o)) /\ (Logged(o)' <=> Logged(o)) /\ RingsOf(o)' = RingsOf(o)
    BY <1>3 DEF Request, Gang, Logged, RingsOf
  <1>8. /\ \A d \in Core : d # c => thread'[d] = thread[d] /\ Mine(d)' = Mine(d) /\ CoreLeader(d)' = CoreLeader(d)
        /\ CoreLeader(c)' = First(requests[q].mask) /\ Mine(c)' = requests[q]
    BY <1>3, <1>6 DEF Others, Mine, CoreLeader
  <1>9. /\ thread[c].pc \in Ended /\ thread[c].pc \notin Opening \cup Meeting \cup Joined
        /\ thread'[c].pc \notin Opening \cup Meeting \cup Following \cup Inside \cup
             {"reset", "close", "nonce?", "again?", "away", "idle", "reply"}
        /\ thread'[c].pc \in Leading => thread'[c].pc = "lead"
        /\ thread'[c].pc \in Ended => thread'[c].pc = "run"
    BY <1>3, <1>4, <1>6 DEF Ended, Opening, Meeting, Joined, Following, Waiting, Inside, Leading
  <1>10. requests[q].kind = "ro" => ~Gang(q) /\ ~Logged(q) /\ rep[q] = "none"
    BY DEF Gang, IsGang, Logged, IInv, DecidedInv
  <1>11. \A o \in Request : /\ Past(c, o) => Past(c, o)'
                            /\ c \in RingsOf(o) /\ Past(c, o)' => Past(c, o) \/ (o = q /\ thread'[c].pc = "run")
    <2> TAKE o \in Request
    <2>1. o \in Nat
      BY <1>1 DEF Typed
    <2>2. Past(c, o) <=> o <= thread[c].request
      BY <1>5, <1>9, <2>1, SMT DEF Past
    <2>3. Past(c, o)' <=> o < q \/ (o = q /\ thread'[c].pc \in Ended)
      BY <1>6 DEF Past
    <2>4. c \in RingsOf(o) /\ o < q => o <= thread[c].request
      BY <1>2, <1>5, <2>1, SMT
    <2> QED BY <1>5, <1>9, <2>1, <2>2, <2>3, <2>4, SMT
  <1>12. \A d \in Core, o \in Request :
           /\ Past(d, o) => Past(d, o)'
           /\ Gang(o) /\ d \in requests[o].mask => (Past(d, o)' <=> Past(d, o))
           /\ Gang(o) => (Runs(d, o)' <=> Runs(d, o))
    <2>1. ASSUME NEW o \in Request, Gang(o)
          PROVE  /\ c \in requests[o].mask => (Past(c, o)' <=> Past(c, o))
                 /\ Runs(c, o)' <=> Runs(c, o)
      <3>1. RingsOf(o) = requests[o].mask
        BY <2>1 DEF Gang, IsGang, RingsOf, Logged
      <3>2. thread'[c].pc = "run" => o # q
        BY <1>4, <1>6, <1>10, <2>1
      <3>3. thread'[c].pc = "reply" => FALSE
        BY <1>9
      <3> QED BY <1>3, <1>6, <1>11, <3>1, <3>2, <3>3 DEF Runs
    <2>2. \A d \in Core, o \in Request : d # c => (Past(d, o)' <=> Past(d, o)) /\ (Runs(d, o)' <=> Runs(d, o))
      BY <1>8 DEF Past, Runs
    <2> QED BY <1>11, <2>1, <2>2
  <1>13. TypeOK'
    BY <1>1, <1>3, <1>6 DEF TypeOK
  <1>14. TermInv'
    <2>1. \A o \in Request : q <= o => thread[c].request <= o
      BY <1>1, <1>5, SMT DEF Typed
    <2> QED BY <1>3, <1>6, <1>7, <1>8, <2>1 DEF IInv, TermInv
  <1>15. RoleInv'
    <2> SUFFICES ASSUME NEW d \in Core
                 PROVE  /\ thread'[d].request <= Len(requests)
                        /\ thread'[d].pc # "idle" => thread'[d].request >= 1 /\ d \in RingsOf(thread'[d].request)
                        /\ thread'[d].pc = "stable" => Mine(d)'.kind = "stable"
                        /\ thread'[d].pc \in Leading => d = CoreLeader(d)'
                        /\ thread'[d].pc \in Following => d # CoreLeader(d)' /\ Gang(thread'[d].request)
      BY <1>3 DEF RoleInv, RingsOf, Logged, Gang
    <2>1. CASE d = c
      BY <1>2, <1>4, <1>5, <1>6, <1>8, <1>9, <2>1
    <2>2. CASE d # c
      BY <1>8, <2>2 DEF IInv, RoleInv
    <2> QED BY <2>1, <2>2
  <1>16. DecidedInv'
    <2> SUFFICES ASSUME NEW d \in Core
                 PROVE  /\ \A o \in Request : d \in RingsOf(o) /\ Past(d, o)' => rep[o] # "unknown"
                        /\ thread'[d].pc \notin {"idle", "await", "stable"} /\ Logged(thread'[d].request) =>
                             rep[thread'[d].request] = "success"
      <3>1. \A o \in Request' : Logged(o)' \/ rep'[o] = "none"
        BY <1>3, <1>7 DEF IInv, DecidedInv
      <3> QED BY <1>3, <1>7, <3>1 DEF DecidedInv
    <2>1. CASE d = c
      <3>1. thread'[c].pc \notin {"idle", "await", "stable"} => requests[q].kind = "ro"
        BY <1>4, <1>6
      <3>2. thread'[c].pc = "run" => rep[q] = "none"
        BY <1>10, <3>1
      <3> QED BY <1>6, <1>10, <1>11, <2>1, <3>1, <3>2 DEF IInv, DecidedInv
    <2>2. CASE d # c
      <3>1. \A o \in Request : Past(d, o)' <=> Past(d, o)
        BY <1>8, <2>2 DEF Past
      <3> QED BY <1>8, <2>2, <3>1 DEF IInv, DecidedInv
    <2> QED BY <2>1, <2>2
  <1>17. NonceInv'
    <2>1. NonceAt(c)'
      <3>1. /\ core_status[c].nonce \in Nat /\ core_status[c].nonce <= thread[c].request
            /\ core_status[c].stable % 2 # 1
        BY <1>1, <1>9 DEF IInv, NonceInv, NonceAt, Typed
      <3>2. core_status[c].nonce <= q /\ core_status[c].nonce # q
        BY <1>5, <3>1, SMT
      <3> QED BY <1>3, <1>6, <1>9, <3>1, <3>2 DEF NonceAt
    <2>2. ASSUME NEW d \in Core, d # c PROVE NonceAt(d)'
      BY <1>3, <1>8, <2>2 DEF IInv, NonceInv, NonceAt
    <2> QED BY <2>1, <2>2 DEF NonceInv
  <1>18. ASSUME NEW d \in Core PROVE ReadAt(d)' /\ InsideAt(d)'
    <2>1. CASE d = c
      BY <1>9, <2>1 DEF ReadAt, InsideAt
    <2>2. CASE d # c
      <3>1. ReadAt(d)'
        BY <1>3, <1>8, <2>2 DEF IInv, ReadAt, Leader
      <3>2. ASSUME thread[d].pc \in Inside PROVE InsideAt(d)'
        <4>1. CoreLeader(d) \in Core /\ CoreLeader(d) # c
          BY <1>1, <1>9, <3>2, Whereabouts DEF IInv, InsideAt, Inside
        <4>2. thread'[CoreLeader(d)] = thread[CoreLeader(d)]
          BY <1>8, <4>1
        <4> QED BY <1>3, <1>8, <2>2, <4>2, ZenonT(40) DEF IInv, InsideAt, Leader
      <3> QED BY <1>8, <2>2, <3>1, <3>2 DEF InsideAt
    <2> QED BY <2>1, <2>2
  <1>19. ASSUME NEW l \in Core, NEW o \in Request PROVE MeetingAt(l, o)'
    <2> SUFFICES ASSUME l # c, thread[l].request = o, thread[l].pc \in Meeting, Gang(o) PROVE BarrierAt(l, o)'
      BY <1>7, <1>8, <1>9 DEF MeetingAt
    <2>1. BarrierAt(l, o) /\ thread'[l] = thread[l] /\ requests[o].mask \subseteq Core
      BY <1>1, <1>8 DEF IInv, MeetingAt, Typed
    <2>2. \A d \in Core : Came(d, o) => Came(d, o)'
      BY <1>8, <1>9, <1>12 DEF Came
    <2>3. core_status[l].barrier[1] \subseteq Core /\ core_status[l].barrier[2] \subseteq Core
      BY <1>1 DEF Typed
    <2>4. NoneFailed(l, o) => NoneFailed(l, o)'
      BY <1>3, <1>8, <1>9, <2>1 DEF NoneFailed
    <2> QED BY <1>3, <1>12, <2>1, <2>2, <2>3, <2>4 DEF BarrierAt
  <1>20. ASSUME NEW o \in Request PROVE PassAt(o)' /\ SkippedAt(o)' /\ RanAt(o)' /\ AnsweredAt(o)'
    <2> SUFFICES ASSUME Gang(o) PROVE PassAt(o)' /\ SkippedAt(o)' /\ RanAt(o)' /\ AnsweredAt(o)'
      BY <1>7 DEF PassAt, SkippedAt, RanAt, AnsweredAt
    <2>1. requests[o].mask \subseteq Core /\ First(requests[o].mask) \in requests[o].mask
      BY <1>1 DEF Typed
    <2>2. PassAt(o)'
      <3>1. \A d \in Core : thread[d].request = o /\ thread[d].pc \in Meeting =>
                            thread'[d].request = o /\ thread'[d].pc \in Meeting
        BY <1>8, <1>9
      <3> QED BY <1>3, <1>12, <2>1, <3>1 DEF IInv, PassAt
    <2>3. SkippedAt(o)'
      BY <1>3, <1>12, <2>1 DEF IInv, SkippedAt, Overtaken
    <2>4. RanAt(o)'
      <3>1. \A d \in Core : o <= thread[d].request => o <= thread'[d].request
        <4> TAKE d \in Core
        <4>1. o \in Nat /\ thread[d].request \in Nat
          BY <1>1 DEF Typed
        <4>2. CASE d = c
          BY <1>5, <1>6, <4>1, <4>2, SMT
        <4>3. CASE d # c
          BY <1>8, <4>3
        <4> QED BY <4>2, <4>3
      <3> QED BY <1>3, <1>12, <2>1, <3>1 DEF IInv, RanAt
    <2>5. AnsweredAt(o)'
      <3>1. PICK l \in Core : l = First(requests[o].mask)
        BY <2>1
      <3>2. (Past(l, o)' <=> Past(l, o)) /\ (Runs(l, o)' <=> Runs(l, o))
        BY <1>12, <2>1, <3>1
      <3>3. AnsweredAt(o)' <=> (o \in replies \/ Runs(l, o)' =>
              /\ Past(l, o)' /\ rep[o] = "success"
              /\ \A d \in requests[o].mask : <<o, d>> \notin skipped)
        BY <1>3, <1>7, <3>1 DEF AnsweredAt, Past, Runs
      <3>4. o \in replies \/ Runs(l, o) =>
              /\ Past(l, o) /\ rep[o] = "success"
              /\ \A d \in requests[o].mask : <<o, d>> \notin skipped
        BY <3>1 DEF IInv, AnsweredAt
      <3> QED BY <3>2, <3>3, <3>4
    <2> QED BY <2>2, <2>3, <2>4, <2>5
  <1> QED BY <1>7, <1>13, <1>14, <1>15, <1>16, <1>17, <1>18, <1>19, <1>20, ZenonT(40) DEF IInv

\* Only requests that there are have been run, given up or answered.
Recorded ==
    /\ \A o, c : <<o, c>> \in ran \cup skipped => o \in Request
    /\ replies \subseteq Request

\* The monitor thread adds requests, and decides some whose fate is open: no
\* core is past those, so nothing is said of them yet.
LEMMA MonitorStep ==
    ASSUME Typed, IInv, Recorded, TypeOK', UNCHANGED <<core_status, thread, ran, skipped, replies>>,
           term <= term', Len(requests) <= Len(requests'),
           \A o \in Request : requests'[o] = requests[o] /\ (rep[o] # "unknown" => rep'[o] = rep[o]),
           \A o \in Request' : o \notin Request =>
             /\ requests'[o].term = term /\ (Logged(o)' \/ rep'[o] = "none")
             /\ requests'[o].mask \subseteq Core /\ First(requests'[o].mask) \in Core
    PROVE  IInv' /\ Recorded'
  <1>1. /\ Len(requests') \in Nat /\ term' \in Nat /\ Request \subseteq Request'
        /\ \A o \in Request' : o \in Nat /\ (o \notin Request => Len(requests) < o)
    <2>1. Len(requests') \in Nat /\ term' \in Nat /\ Len(requests) \in Nat
      BY SMT DEF TypeOK, Typed
    <2> QED BY <2>1, SMT DEF Request
  <1>2. \A o \in Request : (Gang(o)' <=> Gang(o)) /\ (Logged(o)' <=> Logged(o)) /\ RingsOf(o)' = RingsOf(o)
    BY DEF Gang, Logged, RingsOf
  <1>3. \A d \in Core : thread[d].pc # "idle" =>
          /\ thread[d].request \in Request /\ CoreLeader(d) \in Core
          /\ Mine(d)' = Mine(d) /\ CoreLeader(d)' = CoreLeader(d)
    <2>1. \A d \in Core : thread[d].pc # "idle" => thread[d].request \in Request /\ CoreLeader(d) \in Core
      BY Whereabouts DEF IInv
    <2> QED BY <2>1 DEF Mine, CoreLeader
  <1>4. \A d \in Core : \A o : (Past(d, o)' <=> Past(d, o)) /\ (Runs(d, o)' <=> Runs(d, o)) /\ (Came(d, o)' <=> Came(d, o))
    BY DEF Past, Runs, Came
  <1>5. ASSUME NEW d \in Core, NEW o \in Request', o \notin Request
        PROVE  ~Past(d, o) /\ thread[d].request # o
    <2>1. /\ o \in Nat /\ Len(requests) < o /\ Len(requests) \in Nat /\ thread[d].request \in Nat
          /\ thread[d].request <= Len(requests)
      BY <1>1, <1>5 DEF Typed, IInv, RoleInv
    <2>2. ~(o < thread[d].request) /\ o # thread[d].request
      BY <2>1, SMT
    <2> QED BY <2>2 DEF Past
  <1>6. TermInv'
    <2>1. \A o \in Request : requests'[o].term <= term
      BY DEF IInv, TermInv
    <2>2. \A o \in Request' : requests'[o].term \in Nat /\ requests'[o].term <= term /\ o \in Nat
      BY <1>1, <2>1, SMT DEF Typed
    <2>3. ASSUME NEW o \in Request', NEW p \in Request', o <= p PROVE requests'[o].term <= requests'[p].term
      <3>1. CASE p \in Request
        <4>1. o \in Request
          BY <1>1, <2>3, <3>1, SMT DEF Request, Typed
        <4> QED BY <2>3, <3>1, <4>1 DEF IInv, TermInv
      <3>2. CASE p \notin Request
        BY <2>2, <3>2
      <3> QED BY <3>1, <3>2
    <2>4. ASSUME NEW d \in Core, NEW o \in Request', thread[d].request <= o
          PROVE  core_status[d].exec_term <= requests'[o].term
      <3>1. CASE o \in Request
        BY <2>4, <3>1 DEF IInv, TermInv
      <3>2. CASE o \notin Request
        BY <3>2 DEF IInv, TermInv
      <3> QED BY <3>1, <3>2
    <2>5. \A o \in Request' : requests'[o].term <= term'
      BY <1>1, <2>2, SMT DEF Typed
    <2>6. \A d \in Core : core_status[d].exec_term <= term'
      <3> TAKE d \in Core
      <3>1. core_status[d].exec_term \in Nat /\ core_status[d].exec_term <= term /\ term \in Nat
        BY DEF IInv, TermInv, Typed
      <3> QED BY <1>1, <3>1, SMT
    <2> QED BY <2>3, <2>4, <2>5, <2>6 DEF TermInv
  <1>7. RoleInv'
    <2> SUFFICES ASSUME NEW d \in Core
                 PROVE  /\ thread[d].request <= Len(requests')
                        /\ thread[d].pc # "idle" => thread[d].request >= 1 /\ d \in RingsOf(thread[d].request)'
                        /\ thread[d].pc = "stable" => Mine(d)'.kind = "stable"
                        /\ thread[d].pc \in Leading => d = CoreLeader(d)'
                        /\ thread[d].pc \in Following => d # CoreLeader(d)' /\ Gang(thread[d].request)'
      BY DEF RoleInv
    <2>1. thread[d].request <= Len(requests')
      <3>1. /\ thread[d].request \in Nat /\ Len(requests) \in Nat /\ thread[d].request <= Len(requests)
        BY DEF IInv, RoleInv, Typed
      <3> QED BY <1>1, <3>1, SMT
    <2>2. "idle" \notin Leading /\ "idle" \notin Following
      BY DEF Leading, Opening, Meeting, Following, Waiting, Inside
    <2>3. thread[d].pc # "idle" => RingsOf(thread[d].request)' = RingsOf(thread[d].request)
                                   /\ (Gang(thread[d].request)' <=> Gang(thread[d].request))
      BY <1>3 DEF RingsOf, Gang, Logged
    <2> QED BY <1>3, <2>1, <2>2, <2>3 DEF IInv, RoleInv
  <1>8. DecidedInv'
    <2>1. \A o \in Request' : Logged(o)' \/ rep'[o] = "none"
      BY <1>2 DEF IInv, DecidedInv
    <2>2. ASSUME NEW d \in Core, NEW o \in Request', d \in RingsOf(o)', Past(d, o) PROVE rep'[o] # "unknown"
      <3>1. o \in Request
        BY <1>5, <2>2
      <3> QED BY <1>2, <2>2, <3>1, ZenonT(40) DEF IInv, DecidedInv
    <2>3. ASSUME NEW d \in Core, thread[d].pc \notin {"idle", "await", "stable"}, Logged(thread[d].request)'
          PROVE  rep'[thread[d].request] = "success"
      <3>1. thread[d].request \in Request /\ Logged(thread[d].request)
        BY <1>3, <2>3 DEF Logged
      <3> QED BY <2>3, <3>1 DEF IInv, DecidedInv
    <2> QED BY <1>4, <2>1, <2>2, <2>3 DEF DecidedInv
  <1>9. NonceInv'
    BY DEF IInv, NonceInv, NonceAt
  <1>10. ASSUME NEW d \in Core PROVE ReadAt(d)' /\ InsideAt(d)'
    <2>1. "idle" \notin Inside
      BY DEF Inside
    <2> QED BY <1>3, <2>1 DEF IInv, ReadAt, InsideAt, Leader
  <1>11. ASSUME NEW l \in Core, NEW o \in Request' PROVE MeetingAt(l, o)'
    <2>1. CASE o \notin Request
      BY <1>5, <2>1 DEF MeetingAt
    <2>2. CASE o \in Request
      <3> SUFFICES ASSUME thread[l].request = o, thread[l].pc \in Meeting, Gang(o) PROVE BarrierAt(l, o)'
        BY <1>2, <2>2 DEF MeetingAt
      <3>1. BarrierAt(l, o) /\ requests[o].mask \subseteq Core
        BY <2>2 DEF IInv, MeetingAt, Typed
      <3>2. core_status[l].barrier[1] \subseteq Core /\ core_status[l].barrier[2] \subseteq Core
        BY DEF Typed
      <3>3. NoneFailed(l, o) => NoneFailed(l, o)'
        BY <2>2 DEF NoneFailed
      <3> QED BY <1>4, <2>2, <3>1, <3>2, <3>3 DEF BarrierAt
    <2> QED BY <2>1, <2>2
  <1>12. ASSUME NEW o \in Request', o \notin Request PROVE PassAt(o)' /\ SkippedAt(o)' /\ RanAt(o)' /\ AnsweredAt(o)'
    <2>1. PICK l \in Core : l = First(requests'[o].mask)
      BY <1>12
    <2>2. \A d \in Core : ~(Past(d, o)') /\ ~(Runs(d, o)')
      BY <1>4, <1>5, <1>12 DEF Runs
    <2>3. o \notin replies /\ \A d : <<o, d>> \notin ran' /\ <<o, d>> \notin skipped'
      BY <1>12 DEF Recorded
    <2>4. PassAt(o)'
      BY <1>12, <2>1, <2>2 DEF PassAt
    <2>5. SkippedAt(o)' /\ RanAt(o)'
      BY <1>12, <2>2, <2>3 DEF SkippedAt, RanAt
    <2>6. AnsweredAt(o)'
      <3>1. ~(o \in replies' \/ Runs(l, o)')
        BY <2>2, <2>3
      <3> QED BY <2>1, <3>1 DEF AnsweredAt, Runs
    <2> QED BY <2>4, <2>5, <2>6
  <1>13. ASSUME NEW o \in Request PROVE PassAt(o)' /\ SkippedAt(o)' /\ RanAt(o)' /\ AnsweredAt(o)'
    <2> SUFFICES ASSUME Gang(o) PROVE PassAt(o)' /\ SkippedAt(o)' /\ RanAt(o)' /\ AnsweredAt(o)'
      BY <1>2 DEF PassAt, SkippedAt, RanAt, AnsweredAt
    <2>1. /\ requests[o].mask \subseteq Core /\ First(requests[o].mask) \in requests[o].mask
          /\ RingsOf(o) = requests[o].mask /\ requests'[o] = requests[o]
      BY DEF Typed, RingsOf, Logged, Gang, IsGang
    <2>2. PICK l \in requests[o].mask : l = First(requests[o].mask)
      BY <2>1
    <2>3. rep[o] = "unknown" => \A d \in requests[o].mask : ~Past(d, o)
      BY <2>1, ZenonT(40) DEF IInv, DecidedInv
    <2>4. PassAt(o)'
      <3>1. CASE rep[o] = "unknown"
        BY <1>4, <2>1, <2>3, <3>1 DEF PassAt
      <3>2. CASE rep[o] # "unknown"
        BY <1>4, <2>1, <3>2 DEF IInv, PassAt
      <3> QED BY <3>1, <3>2
    <2>5. SkippedAt(o)'
      BY <1>4, <2>1, <2>3 DEF IInv, SkippedAt, Overtaken
    <2>6. RanAt(o)'
      BY <1>4, <2>1 DEF IInv, RanAt
    <2>7. AnsweredAt(o)'
      <3>1. AnsweredAt(o)' <=> (o \in replies \/ Runs(l, o) =>
              /\ Past(l, o) /\ rep'[o] = "success"
              /\ \A d \in requests[o].mask : <<o, d>> \notin skipped)
        BY <1>2, <2>1, <2>2 DEF AnsweredAt, Past, Runs
      <3>2. o \in replies \/ Runs(l, o) =>
              /\ Past(l, o) /\ rep[o] = "success"
              /\ \A d \in requests[o].mask : <<o, d>> \notin skipped
        BY <2>2 DEF IInv, AnsweredAt
      <3> QED BY <3>1, <3>2
    <2> QED BY <2>4, <2>5, <2>6, <2>7
  <1>14. Recorded'
    BY <1>1 DEF Recorded
  <1> QED BY <1>6, <1>7, <1>8, <1>9, <1>10, <1>11, <1>12, <1>13, <1>14, ZenonT(40) DEF IInv

\* wal->rep.
Reps == {"none", "unknown", "success", "failed"}

\* A new request: no core has come to it.
LEMMA IssueInv ==
    ASSUME Formed, IInv, Recorded, NEW w \in Requests, NEW leader \in BOOLEAN, Issue(w[1], w[2], leader)
    PROVE  IInv' /\ Recorded'
  <1> DEFINE r == [kind |-> w[1], mask |-> w[2], term |-> term, leader |-> leader]
             x == IF w[1] \in {"ro", "stable"} THEN "none" ELSE "unknown"
  <1>1. TypeOK /\ Typed
    BY Types DEF IInv
  <1>2. /\ requests' = Append(requests, r) /\ rep' = Append(rep, x)
        /\ UNCHANGED <<term, core_status, thread, ran, skipped, replies>>
    BY DEF Issue
  <1>3. /\ r \in RequestSet /\ r.term = term /\ r.mask = w[2] /\ r.kind = w[1] /\ x \in Reps
    <2>1. term \in Nat
      BY <1>1 DEF TypeOK
    <2> QED BY <2>1 DEF RequestSet, Reps
  <1>4. /\ w[2] \subseteq Core /\ w[2] # {} /\ First(w[2]) \in Core
        /\ w[1] \in {"rw", "ro", "stable", "node", "kicker"}
    <2>1. /\ w[2] \subseteq Core /\ w[2] # {} /\ Core \subseteq Nat
          /\ w[1] \in {"rw", "ro", "stable", "node", "kicker"}
      BY SMT DEF Formed, Core
    <2> QED BY <2>1 DEF Formed
  <1>5. w[1] \in {"rw", "node", "kicker"} \/ x = "none"
    BY <1>4
  <1> HIDE DEF r, x
  <1>6. /\ requests \in Seq(RequestSet) /\ rep \in Seq(Reps) /\ Len(rep) = Len(requests)
    BY <1>1 DEF TypeOK, Reps
  <1>7. /\ requests' \in Seq(RequestSet) /\ Len(requests') = Len(requests) + 1
        /\ requests'[Len(requests) + 1] = r /\ \A o \in 1..Len(requests) : requests'[o] = requests[o]
    BY <1>2, <1>3, <1>6, SMT
  <1>8. /\ rep' \in Seq(Reps) /\ Len(rep') = Len(rep) + 1
        /\ rep'[Len(rep) + 1] = x /\ \A o \in 1..Len(rep) : rep'[o] = rep[o]
    BY <1>2, <1>3, <1>6, SMT
  <1>9. TypeOK'
    BY <1>1, <1>2, <1>6, <1>7, <1>8 DEF TypeOK, Reps
  <1>10. ASSUME NEW o \in Request', o \notin Request
         PROVE  /\ requests'[o].term = term /\ (Logged(o)' \/ rep'[o] = "none")
                /\ requests'[o].mask \subseteq Core /\ First(requests'[o].mask) \in Core
    <2>1. o = Len(requests) + 1
      BY <1>6, <1>7, <1>10, SMT DEF Request
    <2>2. requests'[o] = r /\ rep'[o] = x
      BY <1>6, <1>7, <1>8, <2>1
    <2> QED BY <1>3, <1>4, <1>5, <2>2 DEF Logged
  <1>11. term <= term' /\ Len(requests) <= Len(requests')
    BY <1>1, <1>2, <1>7, SMT DEF Typed
  <1>12. \A o \in Request : requests'[o] = requests[o] /\ rep'[o] = rep[o]
    BY <1>6, <1>7, <1>8 DEF Request
  <1> QED BY <1>1, <1>2, <1>9, <1>10, <1>11, <1>12, MonitorStep, ZenonT(40)

\* An entry is committed.
LEMMA ApplylogInv ==
    ASSUME Formed, IInv, Recorded, Applylog
    PROVE  IInv' /\ Recorded'
  <1>1. TypeOK /\ Typed
    BY Types DEF IInv
  <1>2. PICK o \in Request : rep[o] = "unknown" /\ rep' = [rep EXCEPT ![o] = "success"]
    BY DEF Applylog
  <1>3. UNCHANGED <<requests, term, core_status, thread, ran, skipped, replies>>
    BY DEF Applylog, outVars
  <1>4. rep \in Seq(Reps) /\ Len(rep) = Len(requests) /\ o \in 1..Len(rep)
    BY <1>1 DEF TypeOK, Reps, Request
  <1>5. /\ rep' \in Seq(Reps) /\ Len(rep') = Len(rep)
        /\ \A p \in 1..Len(rep) : rep[p] # "unknown" => rep'[p] = rep[p]
    BY <1>2, <1>4, SMT DEF Reps
  <1>6. TypeOK'
    BY <1>1, <1>3, <1>4, <1>5 DEF TypeOK, Reps
  <1>7. /\ Request' = Request /\ term <= term' /\ Len(requests) <= Len(requests')
        /\ \A p \in Request : rep[p] # "unknown" => rep'[p] = rep[p]
    BY <1>1, <1>3, <1>4, <1>5, SMT DEF Request, Typed
  <1> QED BY <1>1, <1>3, <1>6, <1>7, MonitorStep

\* Entries are replaced in a new term; those that are committed stay.
LEMMA NewTermInv ==
    ASSUME Formed, IInv, Recorded, NEW o, NewTerm(o)
    PROVE  IInv' /\ Recorded'
  <1>1. TypeOK /\ Typed
    BY Types DEF IInv
  <1>2. /\ UNCHANGED <<requests, core_status, thread, ran, skipped, replies>> /\ term' = term + 1
        /\ rep' = [p \in Request |-> IF p >= o /\ rep[p] = "unknown" THEN "failed" ELSE rep[p]]
    BY DEF NewTerm, outVars
  <1>3. /\ rep \in Seq(Reps) /\ Len(rep) = Len(requests) /\ Request = 1..Len(rep) /\ Len(rep) \in Nat
        /\ \A p \in 1..Len(rep) : rep[p] \in Reps
    BY <1>1, SMT DEF TypeOK, Reps, Request
  <1>4. \A p \in Request : rep'[p] \in Reps /\ (rep[p] # "unknown" => rep'[p] = rep[p])
    BY <1>2, <1>3 DEF Reps
  <1>5. rep' \in [1..Len(rep) -> Reps]
    BY <1>2, <1>3, <1>4
  <1>6. rep' \in Seq(Reps) /\ Len(rep') = Len(requests)
    BY <1>3, <1>5, SMT
  <1>7. TypeOK'
    BY <1>1, <1>2, <1>6, SMT DEF TypeOK, Reps
  <1>8. Request' = Request /\ term <= term' /\ Len(requests) <= Len(requests')
    BY <1>1, <1>2, SMT DEF Request, Typed
  <1> QED BY <1>1, <1>2, <1>4, <1>7, <1>8, MonitorStep

\* The invariant holds when the server starts.
LEMMA InitInv == ASSUME Formed, Init PROVE IInv /\ Recorded
  <1>1. /\ requests = <<>> /\ rep = <<>> /\ term = 1 /\ ran = {} /\ skipped = {} /\ replies = {}
        /\ Request = {}
    BY SMT DEF Init, Request
  <1>2. ASSUME NEW c \in Core
        PROVE  /\ core_status[c] \in Status /\ thread[c] \in Thread
               /\ thread[c].pc = "idle" /\ thread[c].request = 0 /\ core_status[c].exec_term = 0
               /\ core_status[c].stable = 0 /\ core_status[c].nonce = 0
    BY SMT DEF Init, Status, Thread, Location, Ended
  <1>3. TypeOK
    <2>1. core_status \in [Core -> Status] /\ thread \in [Core -> Thread]
      BY <1>2 DEF Init
    <2> QED BY <1>1, <2>1, SMT DEF TypeOK
  <1>4. TermInv /\ DecidedInv
    BY <1>1, <1>2, SMT DEF TermInv, DecidedInv
  <1>5. "idle" \notin Leading \cup Following \cup Opening \cup Meeting \cup Inside /\ "idle" \in Ended
    BY DEF Leading, Following, Opening, Meeting, Waiting, Inside, Ended
  <1>6. RoleInv
    BY <1>1, <1>2, <1>5, SMT DEF RoleInv
  <1>7. NonceInv
    BY <1>2, <1>5, SMT DEF NonceInv, NonceAt
  <1>8. \A c \in Core : ReadAt(c) /\ InsideAt(c)
    BY <1>2, <1>5 DEF ReadAt, InsideAt
  <1> QED BY <1>1, <1>3, <1>4, <1>6, <1>7, <1>8, ZenonT(40) DEF IInv, Recorded

\* A core records its own request only.
LEMMA RecordedStep ==
    ASSUME Formed, IInv, Recorded, NEW c \in Core, Execute(c)
    PROVE  Recorded'
  <1>1. requests' = requests
    BY DEF Execute, Dequeue, Stable, AwaitFailed, AwaitSuccess, Run, Answer, GiveUp, serverVars,
           Lead, LeadOpen, LeadNonce, LeadReset, LeadClose, LeadEnter, LeadGather, LeadCheck, LeadFail,
           LeadExcuse, LeadLeave, LeadRelease, LeadPart,
           Follow, FollowTerm, FollowStable, FollowNonce, FollowAgain, FollowJoin, FollowMeet,
           FollowVerdict, FollowAway
  <1>2. \/ UNCHANGED <<ran, skipped, replies>>
        \/ /\ thread[c].pc # "idle"
           /\ ran' \subseteq ran \cup {<<thread[c].request, c>>}
           /\ skipped' \subseteq skipped \cup {<<thread[c].request, c>>}
           /\ replies' \subseteq replies \cup {thread[c].request}
    <2>1. CASE Dequeue(c)
      BY <2>1 DEF Dequeue, outVars
    <2>2. CASE Stable(c) \/ AwaitFailed(c) \/ Run(c)
      BY <2>2 DEF Stable, AwaitFailed, Run, At, GiveUp
    <2>3. CASE AwaitSuccess(c) \/ Answer(c)
      BY <2>3 DEF AwaitSuccess, Answer, Reply, At
    <2>4. CASE Lead(c)
      BY <2>4 DEF Lead, LeadOpen, LeadNonce, LeadReset, LeadClose, LeadEnter, LeadGather, LeadCheck,
                  LeadFail, LeadExcuse, LeadLeave, LeadRelease, LeadPart, At, GiveUp, outVars
    <2>5. CASE Follow(c)
      BY <2>5 DEF Follow, FollowTerm, FollowStable, FollowNonce, FollowAgain, FollowJoin, FollowMeet,
                  FollowVerdict, FollowAway, At, GiveUp, outVars
    <2> QED BY <2>1, <2>2, <2>3, <2>4, <2>5 DEF Execute
  <1>3. thread[c].pc # "idle" => thread[c].request \in Request
    BY Types, Whereabouts DEF IInv
  <1>4. Request' = Request
    BY <1>1 DEF Request
  <1>5. CASE UNCHANGED <<ran, skipped, replies>>
    BY <1>4, <1>5 DEF Recorded
  <1>6. CASE ~UNCHANGED <<ran, skipped, replies>>
    BY <1>2, <1>3, <1>4, <1>6 DEF Recorded
  <1> QED BY <1>5, <1>6

\* Every step keeps the invariant.
LEMMA NextInv ==
    ASSUME Formed, IInv, Recorded, [Next]_vars
    PROVE  IInv' /\ Recorded'
  <1>1. CASE UNCHANGED vars
    <2>1. UNCHANGED <<requests, rep, term, core_status, thread, ran, skipped, replies>>
      BY <1>1 DEF vars, serverVars, outVars
    <2>2. TypeOK /\ Typed /\ TypeOK'
      BY <2>1, Types DEF IInv, TypeOK
    <2>3. Request' = Request /\ term <= term' /\ Len(requests) <= Len(requests')
      BY <2>1, <2>2, SMT DEF Request, Typed
    <2> QED BY <2>1, <2>2, <2>3, MonitorStep
  <1>2. CASE Monitor
    BY <1>2, IssueInv, ApplylogInv, NewTermInv DEF Monitor
  <1>3. ASSUME NEW c \in Core, Execute(c) PROVE IInv'
    <2>1. CASE Lead(c)
      BY <2>1, LeadOpenInv, LeadNonceInv, LeadResetInv, LeadCloseInv, LeadBitsInv, LeadGatherInv,
         LeadCheckInv, LeadFailInv, LeadPartInv, ZenonT(40) DEF Lead
    <2>2. CASE Follow(c)
      BY <2>2, FollowTermInv, FollowStableInv, FollowNonceInv, FollowAgainInv, FollowJoinInv,
         FollowMeetInv, FollowVerdictInv, FollowAwayInv DEF Follow
    <2> QED BY <1>3, <2>1, <2>2, DequeueInv, StableInv, AwaitFailedInv, AwaitSuccessInv, RunInv,
               AnswerInv DEF Execute
  <1> QED BY <1>1, <1>2, <1>3, RecordedStep DEF Next

-----------------------------------------------------------------------------
(* The theorems.                                                           *)

INSTANCE WellFoundedInduction
INSTANCE FiniteSetTheorems

\* The first core of a mask is one of its cores.
LEMMA FirstIn == ASSUME NEW M, M \subseteq Nat, M # {} PROVE First(M) \in M
  <1> DEFINE R == {ss \in Nat \X Nat : ss[1] < ss[2]}
  <1>1. IsWellFoundedOn(R, Nat)
    BY NatLessThanWellFounded, Zenon DEF OpToRel
  <1>a. \A a, b \in Nat : a < b => <<a, b>> \in R
    OBVIOUS
  <1> HIDE DEF R
  <1>2. PICK x \in M : \A y \in M : <<y, x>> \notin R
    BY <1>1, WFMin
  <1>3. \A y \in M : x <= y
    <2> TAKE y \in M
    <2>1. x \in Nat /\ y \in Nat /\ (y < x => <<y, x>> \in R) /\ <<y, x>> \notin R
      BY <1>2, <1>a, Zenon
    <2> QED BY <2>1, SMT
  <1> QED BY <1>3 DEF First

\* The masks of the requests have a first core.
LEMMA RequestsAreFormed == Formed
  BY FirstIn, RequestsFormed DEF Formed

\* No core runs a request of several cores before all of them have come to it
\* (wait_barrier_leader, wait_barrier_follower), and they all run it or all give
\* it up unless one has gone on to a later term: for any number of cores,
\* requests and terms.
THEOREM AgreeUnlessOvertakenAlways == Spec => []AgreeUnlessOvertaken
  <1>0. Formed
    BY RequestsAreFormed
  <1>1. IInv => AgreeUnlessOvertaken
    <2> SUFFICES ASSUME IInv, NEW o \in Request, Gang(o)
                 PROVE  /\ \A c, d \in requests[o].mask : <<o, c>> \in ran => thread[d].request >= o
                        /\ \/ \A c \in requests[o].mask : <<o, c>> \notin ran
                           \/ \A c \in requests[o].mask : <<o, c>> \notin skipped
                           \/ \E c \in requests[o].mask : core_status[c].exec_term > requests[o].term
      BY DEF AgreeUnlessOvertaken
    <2>1. Typed
      BY <1>0, Types DEF IInv
    <2>2. \A c, d \in requests[o].mask : <<o, c>> \in ran => thread[d].request >= o
      <3> SUFFICES ASSUME NEW c \in requests[o].mask, NEW d \in requests[o].mask, <<o, c>> \in ran
                   PROVE  thread[d].request >= o
        OBVIOUS
      <3>1. o <= thread[d].request
        BY DEF IInv, RanAt
      <3>2. o \in Nat /\ thread[d].request \in Nat
        BY <2>1 DEF Typed
      <3> QED BY <3>1, <3>2
    <2>3. ASSUME NEW c \in requests[o].mask, <<o, c>> \in ran, NEW d \in requests[o].mask, <<o, d>> \in skipped
          PROVE  Overtaken(o)
      BY <2>3 DEF IInv, RanAt, SkippedAt
    <2> QED BY <2>2, <2>3 DEF Overtaken
  <1>2. Init => IInv /\ Recorded
    BY <1>0, InitInv
  <1>3. IInv /\ Recorded /\ [Next]_vars => IInv' /\ Recorded'
    BY <1>0, NextInv
  <1> QED BY <1>1, <1>2, <1>3, PTL DEF Spec

\* A request of several cores that was answered was given up on none of them:
\* the leader core answers only what it runs itself (exec_rpc_internal), and it
\* runs only what it has told no other core to give up.
THEOREM AnsweredRunsOnAllAlways == Spec => []AnsweredRunsOnAll
  <1>0. Formed
    BY RequestsAreFormed
  <1>1. IInv => AnsweredRunsOnAll
    BY DEF IInv, AnsweredAt, AnsweredRunsOnAll
  <1>2. Init => IInv /\ Recorded
    BY <1>0, InitInv
  <1>3. IInv /\ Recorded /\ [Next]_vars => IInv' /\ Recorded'
    BY <1>0, NextInv
  <1> QED BY <1>1, <1>2, <1>3, PTL DEF Spec

-----------------------------------------------------------------------------
(* AsyncClient.                                                            *)

CONSTANTS max_inflight, PKT_BURST, MaxCalls, MaxLost, MaxJunk

VARIABLES
    channel_aseq, sender, msg_inflight, to_lstnr, pendresponse_map, listener, pkt_array, sent,
    answers, gangs, executed, callbacks, lost, junk

Async == INSTANCE AsyncClient

\* The listener's books: the calls on the ring and in the map.
Booked == to_lstnr \cup pendresponse_map

\* The call being made is counted only at the end of make_rpc_async.
Uncounted == IF sender = "idle" THEN 0 ELSE 1

Results == {<<>>, <<"success">>, <<"timed_out">>}

CallTypes ==
    /\ channel_aseq \in 0..MaxCalls
    /\ sender \in {"idle", "tx", "count"}
    /\ msg_inflight \in Int
    /\ to_lstnr \subseteq Async!Made /\ pendresponse_map \subseteq Async!Made
    /\ callbacks \in [0..(MaxCalls - 1) -> Results]

\* The counter and the books agree, and the books are the calls outstanding.
BooksAgree ==
    /\ Async!Outstanding = Booked
    /\ gangs \subseteq Async!Made
    /\ to_lstnr \cap pendresponse_map = {}
    /\ IsFiniteSet(Booked)
    /\ Cardinality(Booked) = msg_inflight + Uncounted
    /\ Cardinality(Booked) <= max_inflight
    /\ \A n \in 0..(MaxCalls - 1) : n >= channel_aseq => callbacks[n] = <<>>

\* An answer is one to a call that was executed.
AnswersExecuted ==
    /\ answers \subseteq executed /\ pkt_array \subseteq executed
    /\ \A n \in Async!Made : callbacks[n] = <<"success">> => n \in executed

AsyncInv == CallTypes /\ BooksAgree /\ AnswersExecuted

-----------------------------------------------------------------------------
\* The window holds a call.
LEMMA Window == Async!WindowFormed => max_inflight \in Nat \ {0} /\ MaxCalls \in Nat
  BY DEF Async!WindowFormed

\* Initially no call is made and nothing is outstanding.
LEMMA AsyncInitInv == ASSUME Async!WindowFormed PROVE Async!Init => AsyncInv
  <1> SUFFICES ASSUME Async!Init PROVE AsyncInv
    OBVIOUS
  <1>1. Async!Made = {}
    BY SMT DEF Async!Init, Async!Made
  <1>2. Booked = {} /\ Async!Outstanding = {}
    BY <1>1 DEF Async!Init, Booked, Async!Outstanding
  <1>3. IsFiniteSet(Booked) /\ Cardinality(Booked) = 0
    BY <1>2, FS_EmptySet
  <1>4. CallTypes
    BY SMT, <1>1, Window DEF Async!Init, CallTypes, Results
  <1>5. BooksAgree
    BY SMT, <1>1, <1>2, <1>3, Window DEF Async!Init, BooksAgree, Uncounted
  <1>6. AnswersExecuted
    BY <1>1 DEF Async!Init, AnswersExecuted
  <1> QED BY <1>4, <1>5, <1>6 DEF AsyncInv

\* A step that leaves the books, the counter and the callbacks alone.
LEMMA BooksUnchanged ==
    ASSUME AsyncInv, UNCHANGED <<channel_aseq, gangs, sender, msg_inflight, callbacks>>,
           Booked' = Booked, to_lstnr' \cap pendresponse_map' = {}
    PROVE  CallTypes' /\ BooksAgree'
  <1>1. Async!Made' = Async!Made /\ Async!Outstanding' = Async!Outstanding /\ Uncounted' = Uncounted
    BY DEF Async!Made, Async!Outstanding, Uncounted
  <1>2. to_lstnr' \subseteq Async!Made' /\ pendresponse_map' \subseteq Async!Made'
    BY <1>1 DEF AsyncInv, CallTypes, Booked
  <1>3. CallTypes'
    BY <1>2 DEF AsyncInv, CallTypes
  <1>4. BooksAgree'
    BY <1>1 DEF AsyncInv, BooksAgree
  <1> QED BY <1>3, <1>4

\* The callback of a call that waits in the map.
LEMMA CompleteBooks ==
    ASSUME Async!WindowFormed,
           AsyncInv, NEW n \in pendresponse_map, NEW result \in {"success", "timed_out"},
           Async!Complete(n, result), UNCHANGED <<channel_aseq, gangs, sender, to_lstnr>>
    PROVE  /\ CallTypes' /\ BooksAgree'
           /\ Async!Made' = Async!Made
           /\ callbacks'[n] = <<result>>
           /\ \A m \in Async!Made : m # n => callbacks'[m] = callbacks[m]
  <1> USE DEF AsyncInv, Async!Complete
  <1>a. channel_aseq \in 0..MaxCalls /\ pendresponse_map \subseteq Async!Made
    BY DEF CallTypes
  <1>b. Async!Made \subseteq 0..(MaxCalls - 1)
    BY SMT, <1>a, Window DEF Async!Made
  <1>1. Async!Made' = Async!Made /\ n \in Async!Made /\ Async!Made \subseteq 0..(MaxCalls - 1)
    BY <1>a, <1>b DEF Async!Made
  <1>2. n \in Async!Outstanding
    BY DEF BooksAgree, Booked
  <1>3. callbacks[n] = <<>> /\ n \notin gangs
    BY <1>2 DEF Async!Outstanding
  <1>c. Append(<<>>, result) = <<result>> /\ <<result>> # <<>>
    BY SMT
  <1>d. <<result>> \in Results
    BY DEF Results
  <1>4. Append(callbacks[n], result) = <<result>> /\ <<result>> \in Results /\ <<result>> # <<>>
    BY <1>3, <1>c, <1>d
  <1>5. callbacks' = [callbacks EXCEPT ![n] = <<result>>]
    BY <1>4
  <1>6. /\ callbacks' \in [0..(MaxCalls - 1) -> Results]
        /\ callbacks'[n] = <<result>>
        /\ \A m \in 0..(MaxCalls - 1) : m # n => callbacks'[m] = callbacks[m]
    BY <1>1, <1>4, <1>5 DEF CallTypes
  <1>7. CallTypes'
    BY SMT, <1>1, <1>6 DEF CallTypes
  <1>8. Booked' = Booked \ {n} /\ n \in Booked
    BY DEF Booked, AsyncInv, BooksAgree
  <1>9. Async!Outstanding' = Async!Outstanding \ {n}
    BY <1>1, <1>4, <1>6 DEF Async!Outstanding
  <1>10. IsFiniteSet(Booked') /\ Cardinality(Booked') = Cardinality(Booked) - 1
    BY <1>8, FS_RemoveElement DEF BooksAgree
  <1>11. Cardinality(Booked') = msg_inflight' + Uncounted' /\ Cardinality(Booked') <= max_inflight
    <2>1. /\ msg_inflight' = msg_inflight - 1 /\ Uncounted' = Uncounted
          /\ msg_inflight \in Int /\ Uncounted \in Int
      BY SMT DEF CallTypes, Uncounted
    <2>2. Cardinality(Booked) = msg_inflight + Uncounted /\ Cardinality(Booked) <= max_inflight
      BY DEF BooksAgree
    <2> QED BY SMT, <1>10, <2>1, <2>2, Window
  <1>12. \A m \in 0..(MaxCalls - 1) : m >= channel_aseq => m # n
    BY SMT, <1>1, <1>a, Window DEF Async!Made
  <1>13. \A m \in 0..(MaxCalls - 1) : m >= channel_aseq' => callbacks'[m] = <<>>
    BY <1>6, <1>12 DEF BooksAgree
  <1>14. to_lstnr' \cap pendresponse_map' = {} /\ gangs' \subseteq Async!Made'
    BY <1>1 DEF BooksAgree
  <1>15. BooksAgree'
    BY <1>8, <1>9, <1>10, <1>11, <1>13, <1>14 DEF BooksAgree
  <1> QED BY <1>1, <1>6, <1>7, <1>15

\* Every step keeps the invariant.
LEMMA AsyncNextInv ==
    ASSUME Async!WindowFormed PROVE AsyncInv /\ [Async!Next]_(Async!vars) => AsyncInv'
  <1> SUFFICES ASSUME AsyncInv, [Async!Next]_(Async!vars) PROVE AsyncInv'
    OBVIOUS
  <1>1. CASE Async!Enqueue
    <2> USE <1>1 DEF Async!Enqueue
    <2>1. channel_aseq \in 0..MaxCalls /\ channel_aseq < MaxCalls
      BY DEF AsyncInv, CallTypes
    <2>2. Async!Made' = Async!Made \cup {channel_aseq} /\ channel_aseq \notin Async!Made
      BY SMT, <2>1, Window DEF Async!Made
    <2>3. channel_aseq \in 0..(MaxCalls - 1) /\ channel_aseq' \in 0..MaxCalls
      BY SMT, <2>1, Window
    <2>4. callbacks[channel_aseq] = <<>>
      BY SMT, <2>1, <2>3, Window DEF AsyncInv, BooksAgree
    <2>5. CallTypes'
      BY <2>2, <2>3 DEF AsyncInv, CallTypes
    <2>6. Booked' = Booked \cup {channel_aseq} /\ channel_aseq \notin Booked
      BY <2>2 DEF Booked, AsyncInv, CallTypes
    <2>7. channel_aseq \notin gangs
      BY <2>2 DEF AsyncInv, BooksAgree
    <2>8. Async!Outstanding' = Async!Outstanding \cup {channel_aseq}
      BY <2>2, <2>4, <2>7 DEF Async!Outstanding
    <2>9. /\ IsFiniteSet(Booked') /\ Cardinality(Booked') = Cardinality(Booked) + 1
      BY <2>6, FS_AddElement DEF AsyncInv, BooksAgree
    <2>10. /\ Uncounted = 0 /\ Uncounted' = 1 /\ msg_inflight \in Int
           /\ Cardinality(Booked) = msg_inflight /\ msg_inflight < max_inflight
      BY SMT DEF AsyncInv, CallTypes, BooksAgree, Uncounted, Async!Admit
    <2>11. Cardinality(Booked') = msg_inflight' + Uncounted' /\ Cardinality(Booked') <= max_inflight
      BY SMT, <2>9, <2>10, Window
    <2>12. \A n \in 0..(MaxCalls - 1) : n >= channel_aseq' => n >= channel_aseq
      BY SMT, <2>1, Window
    <2>13. to_lstnr' \cap pendresponse_map' = {}
      BY <2>6 DEF Booked, AsyncInv, BooksAgree
    <2>14. BooksAgree'
      BY <2>2, <2>6, <2>8, <2>9, <2>11, <2>12, <2>13 DEF AsyncInv, BooksAgree
    <2>15. AnswersExecuted'
      <3>1. callbacks[channel_aseq] # <<"success">>
        BY SMT, <2>4
      <3>2. UNCHANGED <<answers, executed, pkt_array, callbacks>>
        BY DEF Async!netVars
      <3> QED BY <2>2, <3>1, <3>2 DEF AsyncInv, AnswersExecuted
    <2> QED BY <2>5, <2>14, <2>15 DEF AsyncInv
  <1>2. CASE Async!EnqueueGang
    <2> USE <1>2 DEF Async!EnqueueGang
    <2>1. channel_aseq \in 0..MaxCalls /\ channel_aseq < MaxCalls
      BY DEF AsyncInv, CallTypes
    <2>2. Async!Made' = Async!Made \cup {channel_aseq} /\ channel_aseq \notin Async!Made
      BY SMT, <2>1, Window DEF Async!Made
    <2>3. channel_aseq \in 0..(MaxCalls - 1) /\ channel_aseq' \in 0..MaxCalls
      BY SMT, <2>1, Window
    <2>4. callbacks[channel_aseq] = <<>>
      BY SMT, <2>1, <2>3, Window DEF AsyncInv, BooksAgree
    <2>5. CallTypes'
      BY <2>2, <2>3 DEF AsyncInv, CallTypes
    <2>6. Booked' = Booked /\ Async!Outstanding' = Async!Outstanding /\ Uncounted' = Uncounted
      BY <2>2 DEF Booked, Async!Outstanding, Uncounted
    <2>7. \A n \in 0..(MaxCalls - 1) : n >= channel_aseq' => n >= channel_aseq
      BY SMT, <2>1, Window
    <2>8. BooksAgree'
      BY <2>2, <2>6, <2>7 DEF AsyncInv, BooksAgree
    <2>9. AnswersExecuted'
      BY SMT, <2>2, <2>4 DEF AsyncInv, AnswersExecuted, Async!netVars
    <2> QED BY <2>5, <2>8, <2>9 DEF AsyncInv
  <1>3. CASE Async!Tx
    <2> USE <1>3 DEF Async!Tx, Async!callVars
    <2>1. /\ Async!Made' = Async!Made /\ Booked' = Booked /\ Async!Outstanding' = Async!Outstanding
          /\ Uncounted' = Uncounted
      BY DEF Async!Made, Booked, Async!Outstanding, Uncounted
    <2>2. CallTypes'
      BY <2>1 DEF AsyncInv, CallTypes
    <2>3. BooksAgree'
      BY <2>1 DEF AsyncInv, BooksAgree
    <2>4. AnswersExecuted'
      BY <2>1 DEF AsyncInv, AnswersExecuted
    <2> QED BY <2>2, <2>3, <2>4 DEF AsyncInv
  <1>4. CASE Async!Count
    <2> USE <1>4 DEF Async!Count, Async!callVars
    <2>1. Async!Made' = Async!Made /\ Booked' = Booked /\ Async!Outstanding' = Async!Outstanding
      BY DEF Async!Made, Booked, Async!Outstanding
    <2>2. msg_inflight' + Uncounted' = msg_inflight + Uncounted /\ msg_inflight' \in Int
      BY SMT DEF AsyncInv, CallTypes, Uncounted
    <2>3. CallTypes'
      BY <2>1, <2>2 DEF AsyncInv, CallTypes
    <2>4. BooksAgree'
      BY <2>1, <2>2 DEF AsyncInv, BooksAgree
    <2>5. AnswersExecuted'
      BY <2>1 DEF AsyncInv, AnswersExecuted, Async!netVars
    <2> QED BY <2>3, <2>4, <2>5 DEF AsyncInv
  <1>5. ASSUME NEW n \in to_lstnr, Async!DrainOne(n) PROVE AsyncInv'
    <2> USE <1>5 DEF Async!DrainOne, Async!callVars
    <2>1. Booked' = Booked /\ Async!Made' = Async!Made
      BY DEF Booked, Async!Made
    <2>2. to_lstnr' \cap pendresponse_map' = {}
      BY DEF AsyncInv, BooksAgree
    <2>3. CallTypes' /\ BooksAgree'
      BY <2>1, <2>2, BooksUnchanged
    <2>4. AnswersExecuted'
      BY <2>1 DEF AsyncInv, AnswersExecuted, Async!netVars
    <2> QED BY <2>3, <2>4 DEF AsyncInv
  <1>6. ASSUME NEW n \in pkt_array, Async!Found(n) PROVE AsyncInv'
    <2> USE <1>6 DEF Async!Found, Async!callVars
    <2>1. /\ CallTypes' /\ BooksAgree' /\ Async!Made' = Async!Made
          /\ \A m \in Async!Made : m # n => callbacks'[m] = callbacks[m]
      BY CompleteBooks
    <2>2. n \in executed
      BY DEF AsyncInv, AnswersExecuted
    <2>3. AnswersExecuted'
      BY <2>1, <2>2 DEF AsyncInv, AnswersExecuted, Async!netVars
    <2> QED BY <2>1, <2>3 DEF AsyncInv
  <1>7. ASSUME NEW n \in pendresponse_map, Async!Expire(n) PROVE AsyncInv'
    <2> USE <1>7 DEF Async!Expire, Async!callVars
    <2>1. /\ CallTypes' /\ BooksAgree' /\ Async!Made' = Async!Made /\ callbacks'[n] = <<"timed_out">>
          /\ \A m \in Async!Made : m # n => callbacks'[m] = callbacks[m]
      BY CompleteBooks
    <2>2. <<"timed_out">> # <<"success">>
      OBVIOUS
    <2>3. AnswersExecuted'
      BY <2>1, <2>2 DEF AsyncInv, AnswersExecuted, Async!netVars
    <2> QED BY <2>1, <2>3 DEF AsyncInv
  <1>8. ASSUME UNCHANGED <<Async!callVars, sender, msg_inflight, to_lstnr, pendresponse_map, callbacks>>,
               answers' \subseteq executed', pkt_array' \subseteq executed', executed \subseteq executed'
        PROVE  AsyncInv'
    <2> USE <1>8 DEF Async!callVars
    <2>1. Booked' = Booked /\ Async!Made' = Async!Made
      BY DEF Booked, Async!Made
    <2>2. to_lstnr' \cap pendresponse_map' = {}
      BY DEF AsyncInv, BooksAgree
    <2>3. CallTypes' /\ BooksAgree'
      BY <2>1, <2>2, BooksUnchanged
    <2>4. AnswersExecuted'
      BY <2>1 DEF AsyncInv, AnswersExecuted
    <2> QED BY <2>3, <2>4 DEF AsyncInv
  <1>9. CASE Async!Rx
    BY <1>8, <1>9 DEF Async!Rx, Async!netVars, AsyncInv, AnswersExecuted
  <1>10. ASSUME NEW n \in pkt_array, Async!NotFound(n) PROVE AsyncInv'
    BY <1>8, <1>10 DEF Async!NotFound, Async!netVars, AsyncInv, AnswersExecuted
  <1>11. CASE Async!DrainEnd \/ Async!HandleEnd \/ Async!ScanEnd \/ Async!Junk
    BY <1>8, <1>11 DEF Async!DrainEnd, Async!HandleEnd, Async!ScanEnd, Async!Junk, Async!netVars, AsyncInv, AnswersExecuted
  <1>12. ASSUME NEW n \in sent, Async!Serve(n) PROVE AsyncInv'
    BY <1>8, <1>12 DEF Async!Serve, AsyncInv, AnswersExecuted
  <1>13. ASSUME NEW n \in sent \cup answers, Async!Lose(n) PROVE AsyncInv'
    BY <1>8, <1>13 DEF Async!Lose, AsyncInv, AnswersExecuted
  <1>14. CASE UNCHANGED Async!vars
    BY <1>8, <1>14 DEF Async!vars, Async!netVars, AsyncInv, AnswersExecuted
  <1> QED BY <1>1, <1>2, <1>3, <1>4, <1>5, <1>6, <1>7, <1>9, <1>10, <1>11, <1>12, <1>13, <1>14
          DEF Async!Next, Async!Send, Async!Listen, Async!ExpireOne

\* The invariant bounds the calls outstanding and the callbacks run.
LEMMA AsyncInvImplies == ASSUME Async!WindowFormed PROVE AsyncInv => Async!CallsAccounted
  <1> SUFFICES ASSUME AsyncInv PROVE Async!CallsAccounted
    OBVIOUS
  <1>1. Cardinality(Async!Outstanding) <= max_inflight
    BY DEF AsyncInv, BooksAgree
  <1>2. Async!Made \subseteq 0..(MaxCalls - 1)
    BY SMT, Window DEF AsyncInv, CallTypes, Async!Made
  <1>3. \A n \in Async!Made : callbacks[n] \in Results
    BY <1>2 DEF AsyncInv, CallTypes
  <1>4. \A r \in Results : Len(r) <= 1
    <2>1. Len(<<>>) = 0 /\ Len(<<"success">>) = 1 /\ Len(<<"timed_out">>) = 1
      OBVIOUS
    <2>2. \A r \in Results : Len(r) = 0 \/ Len(r) = 1
      BY <2>1, Zenon DEF Results
    <2>3. 0 <= 1 /\ 1 <= 1
      BY SMT
    <2> QED BY <2>2, <2>3, Zenon
  <1>5. \A n \in Async!Made : Len(callbacks[n]) <= 1
    BY <1>3, <1>4
  <1>6. \A n \in Async!Made : callbacks[n] = <<"success">> => n \in executed
    BY DEF AsyncInv, AnswersExecuted
  <1>7. Async!Cardinality(Async!Outstanding) = Cardinality(Async!Outstanding)
    BY DEF Async!Cardinality, Cardinality
  <1> QED BY <1>1, <1>5, <1>6, <1>7 DEF Async!CallsAccounted

\* Whatever the window and however the two threads interleave, at most
\* max_inflight calls are outstanding, no callback runs twice, and none reports
\* success for a call that was not executed (make_rpc_async, async_lstener_t).
THEOREM CallsAccountedAlways ==
    ASSUME Async!WindowFormed PROVE Async!Spec => []Async!CallsAccounted
  <1>1. Async!Init => AsyncInv
    BY AsyncInitInv
  <1>2. AsyncInv /\ [Async!Next]_(Async!vars) => AsyncInv'
    BY AsyncNextInv
  <1>3. AsyncInv => Async!CallsAccounted
    BY AsyncInvImplies
  <1> QED BY <1>1, <1>2, <1>3, PTL DEF Async!Spec

-----------------------------------------------------------------------------
(* Client, with the names MCDispatch gives its constants and variables.    *)

CONSTANTS replicas, SyncCalls, SyncTerms, SyncLost, MaxEarly

VARIABLES
    server, terms, client, call, returned, toServers, toClient, current_term, leading, log, done,
    dropped, early

Sync == INSTANCE Client WITH
    MaxCalls <- SyncCalls, MaxTerm <- SyncTerms, MaxLost <- SyncLost,
    sent <- toServers, answers <- toClient, executed <- done, lost <- dropped, leads <- leading

\* What a packet, an entry and an answer are made of.
IsPacket(m) == \E s, k, q, c, b :
    m = [to |-> s, kind |-> k, quorum_term |-> q, call |-> c, last |-> b]
IsEntry(e) == \E s, c, b, h : e = [at |-> s, call |-> c, last |-> b, held |-> h]
IsAnswer(m) == \E t, b : m = [snapshot |-> t, last |-> b]

PacketsFormed ==
    /\ \A m \in toServers : IsPacket(m)
    /\ \A e \in log : IsEntry(e)
    /\ \A m \in toClient : IsAnswer(m)

\* A packet with the last channel_seq is what the client waits for: while it
\* waits for the answer of a call, the packet asks for that call, the entry made
\* of it is one of that call, and an answer says that it was executed.
LastInv ==
    client = "answer?" =>
        /\ \A m \in toServers : m.last => m.kind = "rpc" /\ m.call = call
        /\ \A e \in log : e.last => e.call = call
        /\ \A m \in toClient : m.last => call \in done

SyncInv == PacketsFormed /\ LastInv /\ returned \subseteq done

-----------------------------------------------------------------------------
\* What send_to_server makes of the packets under way.
LEMMA OutdatedPackets ==
    ASSUME NEW S, \A m \in S : IsPacket(m)
    PROVE  \A m \in Sync!Outdated(S) : IsPacket(m) /\ ~m.last
  <1> SUFFICES ASSUME NEW p \in S PROVE IsPacket([p EXCEPT !.last = FALSE]) /\ ~[p EXCEPT !.last = FALSE].last
    BY DEF Sync!Outdated
  <1>1. PICK s, k, q, c, b : p = [to |-> s, kind |-> k, quorum_term |-> q, call |-> c, last |-> b]
    BY DEF IsPacket
  <1>2. \A x : [p EXCEPT !.last = x] = [to |-> s, kind |-> k, quorum_term |-> q, call |-> c, last |-> x]
    BY SMT, <1>1
  <1>3. [p EXCEPT !.last = FALSE] = [to |-> s, kind |-> k, quorum_term |-> q, call |-> c, last |-> FALSE]
    BY <1>2, Zenon
  <1>4. IsPacket([p EXCEPT !.last = FALSE])
    BY <1>3 DEF IsPacket
  <1>5. ~[to |-> s, kind |-> k, quorum_term |-> q, call |-> c, last |-> FALSE].last
    OBVIOUS
  <1> QED BY <1>3, <1>4, <1>5

\* The same of entries ...
LEMMA OutdatedEntries ==
    ASSUME NEW S, \A e \in S : IsEntry(e)
    PROVE  \A e \in Sync!Outdated(S) : IsEntry(e) /\ ~e.last
  <1> SUFFICES ASSUME NEW p \in S PROVE IsEntry([p EXCEPT !.last = FALSE]) /\ ~[p EXCEPT !.last = FALSE].last
    BY DEF Sync!Outdated
  <1>1. PICK s, c, b, h : p = [at |-> s, call |-> c, last |-> b, held |-> h]
    BY DEF IsEntry
  <1>2. \A x : [p EXCEPT !.last = x] = [at |-> s, call |-> c, last |-> x, held |-> h]
    BY SMT, <1>1
  <1>3. [p EXCEPT !.last = FALSE] = [at |-> s, call |-> c, last |-> FALSE, held |-> h]
    BY <1>2, Zenon
  <1>4. IsEntry([p EXCEPT !.last = FALSE])
    BY <1>3 DEF IsEntry
  <1>5. ~[at |-> s, call |-> c, last |-> FALSE, held |-> h].last
    OBVIOUS
  <1> QED BY <1>3, <1>4, <1>5

\* ... and of answers.
LEMMA OutdatedAnswers ==
    ASSUME NEW S, \A m \in S : IsAnswer(m)
    PROVE  \A m \in Sync!Outdated(S) : IsAnswer(m) /\ ~m.last
  <1> SUFFICES ASSUME NEW p \in S PROVE IsAnswer([p EXCEPT !.last = FALSE]) /\ ~[p EXCEPT !.last = FALSE].last
    BY DEF Sync!Outdated
  <1>1. PICK t, b : p = [snapshot |-> t, last |-> b]
    BY DEF IsAnswer
  <1>2. \A x : [p EXCEPT !.last = x] = [snapshot |-> t, last |-> x]
    BY SMT, <1>1
  <1> QED BY <1>2 DEF IsAnswer

\* A packet is sent: everything under way is outdated but it.
LEMMA SendFormed ==
    ASSUME PacketsFormed, NEW s, NEW kind, Sync!send_to_server(s, kind)
    PROVE  /\ PacketsFormed'
           /\ \A m \in toServers' : m.last => m.kind = kind /\ m.call = call
           /\ \A e \in log' : ~e.last
           /\ \A m \in toClient' : ~m.last
  <1> DEFINE new == [to |-> s, kind |-> kind, quorum_term |-> terms, call |-> call, last |-> TRUE]
  <1>1. IsPacket(new) /\ new.kind = kind /\ new.call = call
    BY DEF IsPacket
  <1>2. toServers' = Sync!Outdated(toServers) \cup {new} /\ toClient' = Sync!Outdated(toClient) /\ log' = Sync!Outdated(log)
    BY DEF Sync!send_to_server
  <1> HIDE DEF new
  <1>3. \A m \in Sync!Outdated(toServers) : IsPacket(m) /\ ~m.last
    BY OutdatedPackets DEF PacketsFormed
  <1>4. \A e \in Sync!Outdated(log) : IsEntry(e) /\ ~e.last
    BY OutdatedEntries DEF PacketsFormed
  <1>5. \A m \in Sync!Outdated(toClient) : IsAnswer(m) /\ ~m.last
    BY OutdatedAnswers DEF PacketsFormed
  <1> QED BY <1>1, <1>2, <1>3, <1>4, <1>5 DEF PacketsFormed

-----------------------------------------------------------------------------
\* Initially nothing is on its way.
LEMMA SyncInitInv == Sync!Init => SyncInv
  BY DEF Sync!Init, SyncInv, PacketsFormed, LastInv

\* Every step keeps the invariant.
LEMMA SyncNextInv == SyncInv /\ [Sync!Next]_(Sync!vars) => SyncInv'
  <1> SUFFICES ASSUME SyncInv, [Sync!Next]_(Sync!vars) PROVE SyncInv'
    OBVIOUS
  <1> USE DEF SyncInv, Sync!clientVars, Sync!serverVars
  <1>1. CASE Sync!UpdateServer
    <2>1. PacketsFormed'
      BY <1>1, SendFormed DEF Sync!UpdateServer
    <2> QED BY <1>1, <2>1 DEF Sync!UpdateServer, LastInv
  <1>2. CASE Sync!Call
    BY <1>2 DEF Sync!Call, LastInv, PacketsFormed
  <1>3. CASE Sync!Send
    <2>1. /\ PacketsFormed'
          /\ \A m \in toServers' : m.last => m.kind = "rpc" /\ m.call = call
          /\ \A e \in log' : ~e.last
          /\ \A m \in toClient' : ~m.last
      BY <1>3, SendFormed DEF Sync!Send
    <2> QED BY <1>3, <2>1 DEF Sync!Send, LastInv
  <1>4. ASSUME NEW m \in toClient, Sync!Drop(m) PROVE SyncInv'
    BY <1>4 DEF Sync!Drop, LastInv, PacketsFormed
  <1>5. ASSUME NEW m \in toClient, Sync!SetServer(m) PROVE SyncInv'
    BY <1>5 DEF Sync!SetServer, LastInv, PacketsFormed
  <1>6. ASSUME NEW m \in toClient, Sync!Return(m) PROVE SyncInv'
    <2>1. call \in done
      BY <1>6 DEF Sync!Return, Sync!Matches, LastInv
    <2> QED BY <1>6, <2>1 DEF Sync!Return, LastInv, PacketsFormed
  <1>7. CASE Sync!Timeout
    BY <1>7 DEF Sync!Timeout, LastInv, PacketsFormed
  <1>8. ASSUME NEW m \in toServers, Sync!AcceptStable(m) PROVE SyncInv'
    <2> DEFINE new == [snapshot |-> 2 * current_term[m.to] + 1, last |-> m.last]
    <2>1. IsAnswer(new) /\ new.last = m.last
      BY DEF IsAnswer
    <2>2. toClient' \subseteq toClient \cup {new} /\ toServers' \subseteq toServers
          /\ UNCHANGED <<Sync!clientVars, log, done>> /\ m.kind = "stable"
      BY <1>8 DEF Sync!AcceptStable
    <2> HIDE DEF new
    <2>3. client = "answer?" => ~m.last
      BY <2>2 DEF LastInv
    <2>4. PacketsFormed'
      BY <2>1, <2>2 DEF PacketsFormed
    <2>5. LastInv'
      BY <2>1, <2>2, <2>3 DEF LastInv
    <2> QED BY <2>2, <2>4, <2>5
  <1>9. ASSUME NEW m \in toServers, Sync!AcceptRpc(m) PROVE SyncInv'
    <2> DEFINE new == [at |-> m.to, call |-> m.call, last |-> m.last, held |-> m.quorum_term = Sync!Newest]
    <2>1. IsEntry(new) /\ new.last = m.last /\ new.call = m.call
      BY DEF IsEntry
    <2>2. log' \subseteq log \cup {new} /\ toServers' \subseteq toServers /\ UNCHANGED <<Sync!clientVars, toClient, done>>
      BY <1>9 DEF Sync!AcceptRpc
    <2> HIDE DEF new
    <2>3. PacketsFormed'
      BY <2>1, <2>2 DEF PacketsFormed
    <2>4. LastInv'
      BY <2>1, <2>2 DEF LastInv
    <2> QED BY <2>2, <2>3, <2>4
  <1>10. ASSUME NEW e \in log, Sync!Commit(e) PROVE SyncInv'
    <2> DEFINE new == [snapshot |-> 0, last |-> e.last]
    <2>1. IsAnswer(new) /\ new.last = e.last
      BY DEF IsAnswer
    <2>2. /\ toClient' \subseteq toClient \cup {new} /\ log' \subseteq log
          /\ done' = done \cup {e.call} /\ UNCHANGED <<Sync!clientVars, toServers>>
      BY <1>10 DEF Sync!Commit
    <2> HIDE DEF new
    <2>3. PacketsFormed'
      BY <2>1, <2>2 DEF PacketsFormed
    <2>4. LastInv'
      BY <2>1, <2>2 DEF LastInv
    <2> QED BY <2>2, <2>3, <2>4
  <1>11. ASSUME NEW e \in log, Sync!Pop(e) PROVE SyncInv'
    BY <1>11 DEF Sync!Pop, LastInv, PacketsFormed
  <1>12. ASSUME NEW s \in Sync!Server, Sync!Elect(s) PROVE SyncInv'
    <2>1. PICK H \in SUBSET log : log' = {[e EXCEPT !.held = e \in H] : e \in log}
      BY <1>12 DEF Sync!Elect
    <2>2. \A e \in log : \E f \in log :
            /\ IsEntry([e EXCEPT !.held = e \in H])
            /\ [e EXCEPT !.held = e \in H].last = f.last /\ [e EXCEPT !.held = e \in H].call = f.call
      <3> TAKE e \in log
      <3>1. PICK t, c, b, h : e = [at |-> t, call |-> c, last |-> b, held |-> h]
        BY DEF PacketsFormed, IsEntry
      <3>2. [e EXCEPT !.held = e \in H] = [at |-> t, call |-> c, last |-> b, held |-> e \in H]
        BY SMT, <3>1
      <3>3. IsEntry([e EXCEPT !.held = e \in H])
        BY <3>2 DEF IsEntry
      <3> WITNESS e \in log
      <3> QED BY <3>1, <3>2, <3>3
    <2>3. \A g \in log' : IsEntry(g) /\ \E f \in log : g.last = f.last /\ g.call = f.call
      BY <2>1, <2>2
    <2>4. PacketsFormed'
      BY <1>12, <2>3 DEF Sync!Elect, PacketsFormed
    <2>5. LastInv'
      BY <1>12, <2>3 DEF Sync!Elect, LastInv
    <2> QED BY <1>12, <2>4, <2>5 DEF Sync!Elect
  <1>13. ASSUME NEW s \in Sync!Server, Sync!Learn(s) PROVE SyncInv'
    BY <1>13 DEF Sync!Learn, LastInv, PacketsFormed
  <1>14. ASSUME NEW m \in toServers \cup toClient, Sync!Lose(m) PROVE SyncInv'
    BY <1>14 DEF Sync!Lose, LastInv, PacketsFormed
  <1>15. CASE UNCHANGED Sync!vars
    BY <1>15 DEF Sync!vars, LastInv, PacketsFormed
  <1> QED BY <1>1, <1>2, <1>3, <1>4, <1>5, <1>6, <1>7, <1>8, <1>9, <1>10, <1>11, <1>12, <1>13, <1>14,
             <1>15 DEF Sync!Next, Sync!Thread, Sync!Accept, Sync!Resolve, Sync!LearnTerm

\* However often a call is sent again and whichever servers lead, a call of
\* make_rpc, add_node or delete_node returns only after one of its attempts was
\* executed.
THEOREM ReturnedWasExecutedAlways == Sync!Spec => []Sync!ReturnedWasExecuted
  <1>1. Sync!Init => SyncInv
    BY SyncInitInv
  <1>2. SyncInv /\ [Sync!Next]_(Sync!vars) => SyncInv'
    BY SyncNextInv
  <1>3. SyncInv => Sync!ReturnedWasExecuted
    BY DEF SyncInv, Sync!ReturnedWasExecuted
  <1> QED BY <1>1, <1>2, <1>3, PTL DEF Sync!Spec
=============================================================================
