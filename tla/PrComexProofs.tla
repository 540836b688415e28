----------------------------- MODULE PrComexProofs -----------------------------
(***************************************************************************)
(* The theorems about the progress-rank runtime: types, answers that go to *)
(* the calls that asked, fences that leave no write behind, waits that     *)
(* complete what they wait for, mutexes held once, servers that quit last; *)
(* for any hosts, any programs and any number of handles.                  *)
(***************************************************************************)
EXTENDS PrComex, FiniteSetTheorems, SequenceTheorems, WellFoundedInduction, TLAPS

-----------------------------------------------------------------------------
(* Types *)

Somewhere  == {Null} \cup Addr
Entry   == Rank \X Addr
CallId  == (Nat \ {0}) \X (Nat \ {0})
Waiting == [call : CallId, nb : Handle]
ToMem   == {"OP_PUT", "OP_ACC", "OP_GET", "OP_FETCH_AND_ADD", "OP_SWAP"}
MsgOp   == ToMem \cup {"OP_FENCE", "OP_CREATE_MUTEXES", "OP_DESTROY_MUTEXES", "OP_LOCK",
                       "OP_UNLOCK", "OP_MALLOC", "OP_FREE", "OP_QUIT"}
Message == [op : MsgOp, rank : Nat, id : Int, val : Int, entries : SUBSET Entry,
            call : CallId, nb : Handle]

\* A message names memory or mutexes that are there to be asked for, and of
\* the host it goes to.
Sensible(h, m) ==
    /\ h.op \in ToMem => h.rank \in Worker /\ h.id \in Somewhere /\ h.entries = {}
    /\ h.op \in {"OP_LOCK", "OP_UNLOCK"} => h.rank \in Worker /\ master[h.rank] = m

InHand == [from : Worker, old : Int,
           msg : [op : {"OP_ACC", "OP_FETCH_AND_ADD", "OP_SWAP"}, rank : Rank,
                  id : Somewhere, val : Int, entries : {{}}, call : CallId, nb : Handle]]

\* The calls that can return a handle
Issuing == {"put", "acc", "get"}

JobOK == job \in Jobs /\ master = [r \in Ranks |-> MasterOf(job, r)]

ControlOK ==
    /\ pc \in [Worker -> Nat \ {0}] /\ stage \in [Worker -> Nat \ {0}]
    /\ mode \in [Worker -> {"run", "wait", "acc"}]
    /\ \A w \in Worker :
          /\ IF Active(w) THEN stage[w] <= Len(Stages(Cur(w).op)) ELSE stage[w] = 1
          /\ mode[w] # "run" => Active(w)
          /\ mode[w] = "acc" => srv[w] # <<>> /\ Cur(w).op = "acc"
          /\ mode[w] = "wait" /\ Cur(w).op \in Issuing => Cur(w).hdl = Blocking

HandlesOK ==
    /\ nb \in [Worker -> [next : Handle, cur : Handle, used : SUBSET Handle,
                          listed : SUBSET Handle]]
    /\ hdls \in [Worker -> [Name -> Handle]]

ChanOK ==
    /\ chan \in [Worker -> [Server -> Seq(Message)]]
    /\ \A w \in Worker, m \in Server :
          \A i \in DOMAIN chan[w][m] : Sensible(chan[w][m][i], m)

PostedOK == posted \in [Worker -> [Server -> Seq(Waiting)]]
LinksOK  == ChanOK /\ PostedOK

Flags   == [Worker -> [Server -> BOOLEAN]]
Cells   == [Rank -> [Somewhere -> Int]]
Sems    == [Rank -> Rank \cup {UNLOCKED}]
Updates == [Ranks -> {<<>>} \cup {<<u>> : u \in InHand}]
Ptrs    == [Worker -> [Segment -> [Worker -> Somewhere]]]
Caches  == [Ranks -> SUBSET Entry]

MemoryOK == /\ fence \in Flags /\ mem \in Cells /\ sem \in Sems /\ srv \in Updates
            /\ ptrs \in Ptrs /\ reg \in Caches

MutexesOK ==
    /\ num \in [Worker -> Seq(Int)] /\ mutexes \in [Worker -> Seq(Int)]
    /\ lq \in [Worker -> Seq(Seq(Worker))]
    /\ \A o \in Worker : Len(lq[o]) = Len(mutexes[o])
    /\ failed \in BOOLEAN

TypeInv == JobOK /\ ControlOK /\ HandlesOK /\ LinksOK /\ MemoryOK /\ MutexesOK

-----------------------------------------------------------------------------
(* Requests and answers *)

Now(w) == <<pc[w], stage[w]>>

\* The requests q of a worker at a master, and the receives p it has posted for
\* the answers: now is the call the worker is in, h its handle, and queued says
\* that the call has its request in the queue of a mutex.  Whatever was sent
\* for now is being waited for, and all that is waited for is now or a get.
Paired(q, p, now, waits, h, queued) ==
    /\ InOrder(q) /\ InOrder(p)
    /\ \A k \in DOMAIN q : \/ Before(q[k].call, now)
                           \/ waits /\ q[k].call = now
    /\ \A i \in DOMAIN p : \/ Before(p[i].call, now)
                           \/ waits /\ p[i].call = now /\ p[i].nb = h
    /\ \A k \in DOMAIN q : Answered(q[k]) =>
          /\ \E i \in DOMAIN p : p[i].call = q[k].call
          /\ q[k].op = "OP_GET" \/ (waits /\ q[k].call = now)
    /\ \A i \in DOMAIN p :
          \/ q = <<>> /\ waits /\ p[i].call = now
          \/ \E k \in DOMAIN q : Answered(q[k]) /\ q[k].call = p[i].call
    /\ queued => waits /\ q = <<>> /\ p # <<>>

PairedAt(w, m) ==
    Paired(Ongoing(w, m), posted[w][m], Now(w), mode[w] = "wait", nb[w].cur, Queued(w, m))

\* Nobody waits in two places at a master.
QueuedOnce ==
    \A o, u \in Worker : master[o] = master[u] =>
        \A i \in DOMAIN lq[o], j \in DOMAIN lq[u] :
            \A k \in DOMAIN lq[o][i], l \in DOMAIN lq[u][j] :
                lq[o][i][k] = lq[u][j][l] => o = u /\ i = j /\ k = l

\* The calls of w that were given a handle in the variable x: a direct
\* accumulate has it before it is done.
Given(w, x) == {i \in 1 .. pc[w] : /\ i < pc[w] \/ mode[w] = "acc"
                                   /\ job.calls[w][i].op \in Issuing
                                   /\ job.calls[w][i].hdl = x}
Latest(w, x, c) == c \in Given(w, x) /\ \A k \in Given(w, x) : k <= c

\* What is under way for the last of them is listed in this handle.
NamedAt(w, m) ==
    \A x \in Name : \A c \in Nat : Latest(w, x, c) =>
        /\ \A i \in DOMAIN posted[w][m] :
              posted[w][m][i].call = <<c, 1>> => posted[w][m][i].nb = hdls[w][x]
        /\ \A i \in DOMAIN Ongoing(w, m) :
              Ongoing(w, m)[i].call = <<c, 1>> => Ongoing(w, m)[i].nb = hdls[w][x]

\* A worker that waits for an answer has its request in a queue, or at the
\* master still.
WaitsSomewhere ==
    \A w \in Worker, m \in Server :
        posted[w][m] # <<>> => Ongoing(w, m) # <<>> \/ Queued(w, m)

-----------------------------------------------------------------------------
(* Writes and fences *)

IsWrite(h) == h.op \in {"OP_PUT", "OP_ACC"}

\* A master with writes of w is flagged, a fence has a request behind them, and
\* there is no flag in a barrier.
Flushed(q, flag, fences, now, synced) ==
    /\ \A i \in DOMAIN q : IsWrite(q[i]) => flag
    /\ fences => \A i \in DOMAIN q : IsWrite(q[i]) =>
                    \E k \in DOMAIN q : i < k /\ q[k].op = "OP_FENCE" /\ q[k].call = now
    /\ synced => ~flag

Fencing(w) == Active(w) /\ mode[w] = "wait" /\ Stage(w) = "fence"
FlushedAt(w, m) ==
    Flushed(Ongoing(w, m), fence[w][m], Fencing(w), Now(w), At(w, "sync"))

PrInv ==
    /\ TypeInv /\ QueuedOnce
    /\ \A w \in Worker, m \in Server : FlushedAt(w, m) /\ PairedAt(w, m) /\ NamedAt(w, m)

-----------------------------------------------------------------------------
(* Hosts *)

\* A finite set of numbers has a largest element and a smallest one.
LEMMA LargestOf ==
    ASSUME NEW S \in SUBSET Int, IsFiniteSet(S), S # {}
    PROVE  Max(S) \in S /\ \A y \in S : y <= Max(S)
<1> DEFINE Above(z) == {y \in S : z < y}
           Count    == {Cardinality(Above(z)) : z \in S}
<1>1. \A z \in S : IsFiniteSet(Above(z)) /\ Cardinality(Above(z)) \in Nat
  <2> TAKE z \in S
  <2>1. Above(z) \subseteq S
    OBVIOUS
  <2> HIDE DEF Above
  <2> QED
    BY <2>1, FS_Subset, FS_CardinalityType
<1>2. Count \in SUBSET Nat /\ Count # {}
  <2> HIDE DEF Above
  <2> QED
    BY <1>1
<1>3. PICK n \in Count : \A k \in Count : ~ (<<k, n>> \in OpToRel(<, Nat))
  <2> HIDE DEF Count
  <2> QED
    BY <1>2, NatLessThanWellFounded, WFMin
<1>4. PICK z \in S : n = Cardinality(Above(z))
  OBVIOUS
<1>5. Above(z) = {}
  <2> SUFFICES ASSUME NEW y \in Above(z) PROVE FALSE
    OBVIOUS
  <2>1. y \in S /\ z < y
    OBVIOUS
  <2>2. Above(y) \subseteq Above(z) /\ y \notin Above(y) /\ y \in Above(z)
    <3>1. \A x \in S : y < x => z < x
      BY <2>1
    <3>2. ~ (y < y)
      BY <2>1
    <3> QED
      BY <2>1, <3>1, <3>2
  <2>3. Cardinality(Above(y)) \in Count /\ Cardinality(Above(y)) \in Nat
    BY <1>1, <2>1
  <2>4. IsFiniteSet(Above(z)) /\ Above(y) # Above(z)
    BY <1>1, <2>2
  <2> HIDE DEF Above, Count
  <2>5. Cardinality(Above(y)) < Cardinality(Above(z))
    <3>1. /\ Cardinality(Above(y)) <= Cardinality(Above(z))
          /\ Cardinality(Above(y)) = Cardinality(Above(z)) => Above(y) = Above(z)
      BY <2>2, <2>4, FS_Subset
    <3> QED
      BY <1>1, <2>1, <2>3, <2>4, <3>1
  <2>6. <<Cardinality(Above(y)), n>> \in OpToRel(<, Nat)
    BY <1>1, <1>4, <2>3, <2>5 DEF OpToRel
  <2> QED
    BY <1>3, <2>3, <2>6
<1>6. \A y \in S : y <= z
  BY <1>5
<1> QED
  BY <1>6 DEF Max

LEMMA SmallestOf ==
    ASSUME NEW S \in SUBSET Int, IsFiniteSet(S), S # {}
    PROVE  Min(S) \in S /\ \A y \in S : Min(S) <= y
<1> DEFINE T == {-y : y \in S}
<1>1. IsFiniteSet(T) /\ T \in SUBSET Int /\ T # {}
  <2>1. T \in SUBSET Int /\ T # {}
    OBVIOUS
  <2>2. [y \in S |-> -y] \in Surjection(S, T)
    BY DEF Surjection
  <2> HIDE DEF T
  <2> QED
    BY <2>1, <2>2, FS_Surjection
<1>2. Max(T) \in T /\ \A y \in T : y <= Max(T)
  <2> HIDE DEF T
  <2> QED
    BY <1>1, LargestOf
<1>3. PICK z \in S : Max(T) = -z
  BY <1>2
<1>4. \A y \in S : z <= y
  <2> TAKE y \in S
  <2>1. -y \in T /\ -y <= -z
    BY <1>2, <1>3
  <2> QED
    BY <2>1
<1> QED
  BY <1>4 DEF Min

LEMMA StagesFacts ==
    ASSUME NEW c \in Call
    PROVE  /\ Len(Stages(c.op)) \in 1 .. 7
           /\ Stages(c.op)[1] # "sync"
           /\ \A i \in 1 .. Len(Stages(c.op)) :
                 i > 1 /\ Stages(c.op)[i] = "sync" => Stages(c.op)[i - 1] = "fence"
BY DEF Stages, Call

\* The master of a host is its own master; the programs name only workers.
LEMMA Hosts ==
    ASSUME JobOK
    PROVE  /\ Ranks \subseteq Rank /\ Rank \subseteq Nat
           /\ Worker \subseteq Ranks /\ Server \subseteq Ranks
           /\ Worker \cap Server = {} /\ Ranks = Worker \cup Server
           /\ \A r \in Ranks : master[r] \in Server
           /\ job.eager \in BOOLEAN
           /\ \A w \in Worker : job.calls[w] \in Seq(Call)
           /\ \A w \in Worker : \A i \in DOMAIN job.calls[w] :
                 job.calls[w][i] \in Call /\ job.calls[w][i].to \in Worker
                 /\ job.calls[w][i].grp \subseteq Worker
           /\ \A w \in Worker : \A i \in DOMAIN job.calls[w] :
                 job.calls[w][i].op \in {"wait", "test"} => job.calls[w][i].hdl \in Name
<1> DEFINE Host(r) == {q \in DOMAIN job.hostid : job.hostid[q] = job.hostid[r]}
<1>1. job \in Jobs /\ Ranks \subseteq Rank /\ Rank \subseteq Nat /\ IsFiniteSet(Rank)
  BY RankAssumption, JobAssumption DEF JobOK, Ranks
<1>2. \A r \in Ranks : master[r] = Max(Host(r))
  BY DEF JobOK, MasterOf
<1>3. \A r \in Ranks : Max(Host(r)) \in Host(r)
  <2> TAKE r \in Ranks
  <2>1. Host(r) \in SUBSET Int /\ Host(r) \subseteq Rank /\ r \in Host(r)
    <3>1. Host(r) \subseteq Ranks /\ r \in Host(r)
      BY DEF Ranks
    <3>2. Ranks \in SUBSET Int
      BY <1>1
    <3> HIDE DEF Host
    <3> QED
      BY <1>1, <3>1, <3>2
  <2>2. IsFiniteSet(Host(r))
    <3> HIDE DEF Host
    <3> QED
      BY <1>1, <2>1, FS_Subset
  <2> HIDE DEF Host
  <2> QED
    BY <2>1, <2>2, LargestOf
<1>4. \A r \in Ranks : master[r] \in Ranks /\ master[master[r]] = master[r]
  <2> TAKE r \in Ranks
  <2>1. master[r] \in Host(r)
    BY <1>2, <1>3
  <2>2. master[r] \in Ranks /\ Host(master[r]) = Host(r)
    BY <2>1 DEF Ranks
  <2> HIDE DEF Host
  <2> QED
    BY <1>2, <2>2
<1>5. Worker = Programmed(job)
  BY DEF JobOK, Worker, Programmed, Ranks
<1>6. \A w \in Worker : job.calls[w] \in Seq(Call)
  BY <1>1, <1>5, JobAssumption
<1>7. \A w \in Worker : \A i \in DOMAIN job.calls[w] :
         /\ job.calls[w][i].to \in Worker /\ job.calls[w][i].grp \subseteq Worker
         /\ job.calls[w][i].op \in {"wait", "test"} => job.calls[w][i].hdl \in Name
  BY <1>1, <1>5, JobAssumption
<1>8. \A w \in Worker : \A i \in DOMAIN job.calls[w] : job.calls[w][i] \in Call
  BY <1>6, ElementOfSeq
<1>9. job.eager \in BOOLEAN
  BY <1>1, JobAssumption
<1>10. Ranks = Worker \cup Server /\ Worker \cap Server = {}
       /\ \A r \in Ranks : master[r] \in Server
  BY <1>4 DEF Worker, Server
<1> QED
  BY <1>1, <1>6, <1>7, <1>8, <1>9, <1>10

-----------------------------------------------------------------------------
(* Types: what the parts of an action do *)

LEMMA SameHosts ==
    ASSUME UNCHANGED <<job, master>>
    PROVE  /\ Ranks' = Ranks /\ Worker' = Worker /\ Server' = Server
           /\ JobOK' <=> JobOK
BY DEF Ranks, Worker, Server, JobOK, MasterOf

LEMMA CallFacts ==
    ASSUME JobOK, ControlOK, NEW w \in Worker, Active(w)
    PROVE  /\ pc[w] \in Nat \ {0} /\ stage[w] \in Nat \ {0} /\ Now(w) \in CallId
           /\ pc[w] \in DOMAIN job.calls[w] /\ Cur(w) \in Call
           /\ Cur(w).to \in Worker /\ Cur(w).grp \subseteq Worker
           /\ master[Cur(w).to] \in Server /\ master[w] \in Server
           /\ stage[w] \in 1 .. Len(Stages(Cur(w).op))
           /\ Len(Stages(Cur(w).op)) \in 1 .. 7
<1>1. pc[w] \in Nat \ {0} /\ stage[w] \in Nat \ {0} /\ job.calls[w] \in Seq(Call)
  BY Hosts DEF ControlOK
<1>2. pc[w] \in DOMAIN job.calls[w]
  BY <1>1 DEF Active
<1>3. Cur(w) \in Call /\ Cur(w).to \in Worker /\ Cur(w).grp \subseteq Worker
  BY <1>2, Hosts DEF Cur
<1>4. Len(Stages(Cur(w).op)) \in 1 .. 7
  BY <1>3, StagesFacts
<1>5. stage[w] \in 1 .. Len(Stages(Cur(w).op))
  BY <1>1, <1>4 DEF ControlOK
<1>6. master[Cur(w).to] \in Server /\ master[w] \in Server
  BY <1>3, Hosts
<1> QED
  BY <1>1, <1>2, <1>3, <1>4, <1>5, <1>6 DEF Now, CallId

\* Some workers go on; the others stay where they are.
LEMMA Advancing ==
    ASSUME JobOK, ControlOK, NEW ws \in SUBSET Worker, \A w \in ws : Active(w),
           Advance(ws), UNCHANGED <<job, master>>,
           \A w \in Worker \ ws : srv'[w] = srv[w]
    PROVE  /\ ControlOK'
           /\ \A w \in Worker \ ws : pc'[w] = pc[w] /\ stage'[w] = stage[w] /\ mode'[w] = mode[w]
           /\ \A w \in ws : Before(Now(w), Now(w)') /\ mode'[w] = "run"
<1> DEFINE last(w) == stage[w] = Len(Stages(Cur(w).op))
<1>1. /\ pc' = [w \in Worker |-> IF w \in ws /\ last(w) THEN pc[w] + 1 ELSE pc[w]]
      /\ stage' = [w \in Worker |-> IF w \notin ws THEN stage[w]
                                    ELSE IF last(w) THEN 1 ELSE stage[w] + 1]
      /\ mode' = [w \in Worker |-> IF w \in ws THEN "run" ELSE mode[w]]
  BY DEF Advance
<1> HIDE DEF last
<1>2. /\ pc \in [Worker -> Nat \ {0}] /\ stage \in [Worker -> Nat \ {0}]
      /\ mode \in [Worker -> {"run", "wait", "acc"}]
  BY DEF ControlOK
<1>3. /\ pc' \in [Worker -> Nat \ {0}] /\ stage' \in [Worker -> Nat \ {0}]
      /\ mode' \in [Worker -> {"run", "wait", "acc"}]
  BY <1>1, <1>2
<1>4. \A w \in Worker \ ws : pc'[w] = pc[w] /\ stage'[w] = stage[w] /\ mode'[w] = mode[w]
  BY <1>1
<1>5. \A w \in ws : Before(Now(w), Now(w)') /\ mode'[w] = "run"
  BY <1>1, <1>2 DEF Before, Now
<1>6. ASSUME NEW w \in Worker
      PROVE  /\ IF Active(w)' THEN stage'[w] <= Len(Stages(Cur(w)'.op)) ELSE stage'[w] = 1
             /\ mode'[w] # "run" => Active(w)'
             /\ mode'[w] = "acc" => srv'[w] # <<>> /\ Cur(w)'.op = "acc"
             /\ mode'[w] = "wait" /\ Cur(w)'.op \in Issuing => Cur(w)'.hdl = Blocking
  <2>1. CASE w \notin ws
    <3>1. (Active(w)' <=> Active(w)) /\ Cur(w)' = Cur(w)
      BY <1>4, <2>1 DEF Active, Cur
    <3> QED
      BY <1>4, <2>1, <3>1 DEF ControlOK
  <2>2. CASE w \in ws /\ last(w)
    <3>1. pc'[w] = pc[w] + 1 /\ stage'[w] = 1 /\ mode'[w] = "run"
      BY <1>1, <2>2
    <3>2. ASSUME Active(w)' PROVE 1 <= Len(Stages(Cur(w)'.op))
      <4>1. pc'[w] \in DOMAIN job.calls[w]
        BY <1>3, <3>2, Hosts DEF Active
      <4>2. Cur(w)' \in Call
        BY <4>1, Hosts DEF Cur
      <4> QED
        BY <4>2, StagesFacts
    <3> QED
      BY <3>1, <3>2
  <2>3. CASE w \in ws /\ ~last(w)
    <3>1. pc'[w] = pc[w] /\ stage'[w] = stage[w] + 1 /\ mode'[w] = "run"
      BY <1>1, <2>3
    <3>2. Active(w)' /\ Cur(w)' = Cur(w)
      BY <2>3, <3>1 DEF Active, Cur
    <3>3. stage[w] + 1 <= Len(Stages(Cur(w).op))
      BY <2>3, CallFacts DEF last
    <3> QED
      BY <3>1, <3>2, <3>3
  <2> QED
    BY <2>1, <2>2, <2>3
<1>7. ControlOK'
  BY <1>3, <1>6, SameHosts DEF ControlOK
<1> QED
  BY <1>4, <1>5, <1>7

LEMMA Turning ==
    ASSUME JobOK, ControlOK, NEW w \in Worker, Active(w), NEW m \in {"wait", "acc"},
           Turn(w, m), UNCHANGED <<job, master>>, m = "acc" => srv'[w] # <<>> /\ Cur(w).op = "acc",
           m = "wait" /\ Cur(w).op \in Issuing => Cur(w).hdl = Blocking,
           \A v \in Worker \ {w} : srv'[v] = srv[v]
    PROVE  /\ ControlOK'
           /\ \A v \in Worker : pc'[v] = pc[v] /\ stage'[v] = stage[v]
           /\ \A v \in Worker \ {w} : mode'[v] = mode[v]
           /\ mode'[w] = m
<1>1. mode' = [mode EXCEPT ![w] = m] /\ UNCHANGED <<pc, stage>>
  BY DEF Turn
<1>2. mode' \in [Worker -> {"run", "wait", "acc"}] /\ mode'[w] = m
      /\ \A v \in Worker \ {w} : mode'[v] = mode[v]
  BY <1>1 DEF ControlOK
<1>3. \A v \in Worker : (Active(v)' <=> Active(v)) /\ Cur(v)' = Cur(v)
  BY <1>1 DEF Active, Cur
<1>4. ASSUME NEW v \in Worker
      PROVE  /\ IF Active(v)' THEN stage'[v] <= Len(Stages(Cur(v)'.op)) ELSE stage'[v] = 1
             /\ mode'[v] # "run" => Active(v)'
             /\ mode'[v] = "acc" => srv'[v] # <<>> /\ Cur(v)'.op = "acc"
             /\ mode'[v] = "wait" /\ Cur(v)'.op \in Issuing => Cur(v)'.hdl = Blocking
  <2>1. (Active(v)' <=> Active(v)) /\ Cur(v)' = Cur(v) /\ stage'[v] = stage[v]
    BY <1>1, <1>3
  <2>2. CASE v = w
    BY <1>2, <2>1, <2>2 DEF ControlOK
  <2>3. CASE v # w
    BY <1>2, <2>1, <2>3 DEF ControlOK
  <2> QED
    BY <2>2, <2>3
<1>5. /\ pc' \in [Worker -> Nat \ {0}] /\ stage' \in [Worker -> Nat \ {0}]
      /\ mode' \in [Worker -> {"run", "wait", "acc"}]
  BY <1>1, <1>2 DEF ControlOK
<1>6. ControlOK'
  BY <1>4, <1>5, SameHosts DEF ControlOK
<1> QED
  BY <1>1, <1>2, <1>6

\* What does not move keeps its type.
LEMMA SameControl ==
    ASSUME ControlOK, UNCHANGED <<job, master, pc, stage, mode>>,
           \A w \in Worker : srv'[w] = srv[w]
    PROVE  ControlOK'
<1>1. \A v \in Worker : (Active(v)' <=> Active(v)) /\ Cur(v)' = Cur(v)
  BY DEF Active, Cur
<1> QED
  BY <1>1, SameHosts DEF ControlOK

LEMMA SameHandles ==
    ASSUME HandlesOK, UNCHANGED <<job, master, nb, hdls>>
    PROVE  HandlesOK'
BY SameHosts DEF HandlesOK

LEMMA SameSensible ==
    ASSUME UNCHANGED <<job, master>>
    PROVE  \A h, m : Sensible(h, m)' <=> Sensible(h, m)
BY SameHosts DEF Sensible

LEMMA SameChan ==
    ASSUME ChanOK, UNCHANGED <<job, master, chan>>
    PROVE  ChanOK'
BY SameHosts, SameSensible DEF ChanOK

LEMMA SamePosted ==
    ASSUME PostedOK, UNCHANGED <<job, master, posted>>
    PROVE  PostedOK'
BY SameHosts DEF PostedOK

LEMMA SameMemory ==
    ASSUME UNCHANGED <<job, master>>, fence' \in Flags, mem' \in Cells, sem' \in Sems,
           srv' \in Updates, ptrs' \in Ptrs, reg' \in Caches
    PROVE  MemoryOK'
<1>1. Ranks' = Ranks /\ Worker' = Worker /\ Server' = Server
  BY SameHosts
<1>2. InHand' = InHand
  BY <1>1 DEF InHand
<1>3. Flags' = Flags /\ Cells' = Cells /\ Sems' = Sems /\ Updates' = Updates
      /\ Ptrs' = Ptrs /\ Caches' = Caches
  BY <1>1, <1>2 DEF Flags, Cells, Sems, Updates, Ptrs, Caches
<1> QED
  BY <1>3 DEF MemoryOK

\* A cell is written, ...
LEMMA Writing ==
    ASSUME mem \in Cells, NEW r \in Rank, NEW a \in Somewhere, NEW v \in Int
    PROVE  [mem EXCEPT ![r][a] = v] \in Cells
BY DEF Cells

\* ... and a semaphore taken or released.
LEMMA Semaphore ==
    ASSUME sem \in Sems, NEW r \in Rank, NEW v \in Rank \cup {UNLOCKED}
    PROVE  [sem EXCEPT ![r] = v] \in Sems
BY DEF Sems

LEMMA SameMutexes ==
    ASSUME MutexesOK, UNCHANGED <<job, master, num, mutexes, lq>>, failed' \in BOOLEAN
    PROVE  MutexesOK'
BY SameHosts DEF MutexesOK

LEMMA Asserting ==
    ASSUME MutexesOK, NEW ok, Assert(ok)
    PROVE  failed' \in BOOLEAN /\ (~failed' => ok) /\ (failed => failed')
BY DEF Assert, MutexesOK

-----------------------------------------------------------------------------
(* Handles *)

LEMMA HandleFacts == /\ MaxNb \in Nat \ {0} /\ IsFiniteSet(Handle)
                     /\ \A h \in Handle : h \in Nat
<1>1. MaxNb \in Nat \ {0}
  BY BoundAssumption
<1>2. MaxNb - 1 \in Int
  BY <1>1
<1>3. IsFiniteSet(0 .. MaxNb - 1)
  BY <1>2, FS_Interval
<1> QED
  BY <1>1, <1>3 DEF Handle

LEMMA InRing ==
    ASSUME NEW n \in Nat
    PROVE  n % MaxNb \in Handle
<1>1. MaxNb \in Nat \ {0}
  BY HandleFacts
<1> QED
  BY <1>1 DEF Handle

LEMMA Taking ==
    ASSUME HandlesOK, NEW w \in Worker, NEW lists, NEW x,
           TakeHandle(w, lists, x), UNCHANGED <<job, master>>
    PROVE  /\ HandlesOK' /\ Taken(w) \in Handle /\ nb'[w].cur = Taken(w)
           /\ \A v \in Worker \ {w} : nb'[v] = nb[v] /\ hdls'[v] = hdls[v]
           /\ \A y \in Name : hdls'[w][y] = IF y = x THEN Taken(w) ELSE hdls[w][y]
           /\ ~Pending(w, Taken(w))
<1>1. /\ nb[w] \in [next : Handle, cur : Handle, used : SUBSET Handle, listed : SUBSET Handle]
      /\ nb \in [Worker -> [next : Handle, cur : Handle, used : SUBSET Handle,
                            listed : SUBSET Handle]]
      /\ hdls \in [Worker -> [Name -> Handle]]
  BY DEF HandlesOK
<1>2. /\ Free(w) # {} /\ HandleFound(w)
      /\ nb' = [nb EXCEPT ![w] =
           [next |-> (Taken(w) + 1) % MaxNb, cur |-> Taken(w),
            used |-> IF x \in Name THEN nb[w].used \cup {Taken(w)} ELSE nb[w].used,
            listed |-> (nb[w].listed \ Examined(w)) \cup (IF lists THEN {Taken(w)} ELSE {})]]
      /\ hdls' = IF x \in Name THEN [hdls EXCEPT ![w][x] = Taken(w)] ELSE hdls
  BY DEF TakeHandle
<1>3. Place(w) \in Handle
  <2>1. Free(w) \subseteq Handle
    BY DEF Free
  <2>2. IsFiniteSet(Free(w)) /\ Free(w) \in SUBSET Int
    <3>1. IsFiniteSet(Free(w))
      BY <2>1, HandleFacts, FS_Subset
    <3>2. \A h \in Free(w) : h \in Int
      BY <2>1, HandleFacts
    <3> QED
      BY <3>1, <3>2
  <2> QED
    BY <1>2, <2>1, <2>2, SmallestOf DEF Place
<1>4. Taken(w) \in Handle
  <2>1. nb[w].next \in Nat /\ Place(w) \in Nat
    BY <1>1, <1>3, HandleFacts
  <2>2. nb[w].next + Place(w) \in Nat
    BY <2>1
  <2> QED
    BY <2>2, InRing DEF Taken, Nth
<1>5. (Taken(w) + 1) % MaxNb \in Handle
  <2>1. Taken(w) \in Nat
    BY <1>4, HandleFacts
  <2>2. Taken(w) + 1 \in Nat
    BY <2>1
  <2> QED
    BY <2>2, InRing
<1>6. nb'[w] \in [next : Handle, cur : Handle, used : SUBSET Handle, listed : SUBSET Handle]
      /\ nb'[w].cur = Taken(w)
  BY <1>1, <1>2, <1>4, <1>5
<1>7. \A v \in Worker \ {w} : nb'[v] = nb[v]
  BY <1>1, <1>2
<1>8. nb' \in [Worker -> [next : Handle, cur : Handle, used : SUBSET Handle,
                          listed : SUBSET Handle]]
  <2>1. nb' = [v \in Worker |-> nb'[v]]
    BY <1>1, <1>2
  <2> QED
    BY <1>1, <1>6, <1>7, <2>1
<1>9. /\ hdls' \in [Worker -> [Name -> Handle]]
      /\ \A v \in Worker \ {w} : hdls'[v] = hdls[v]
      /\ \A y \in Name : hdls'[w][y] = IF y = x THEN Taken(w) ELSE hdls[w][y]
  BY <1>1, <1>2, <1>4
<1>10. ~Pending(w, Taken(w))
  <2>1. Place(w) \in Nat
    BY <1>3, HandleFacts
  <2>2. Place(w) \in 0 .. Place(w)
    BY <2>1
  <2> QED
    BY <1>2, <2>2 DEF HandleFound, Examined, Taken
<1> QED
  BY <1>4, <1>6, <1>7, <1>8, <1>9, <1>10, SameHosts DEF HandlesOK

LEMMA Emptying ==
    ASSUME HandlesOK, NEW w \in Worker, NEW hs, NEW f,
           \/ nb' = Emptied(w, hs)
           \/ nb' = [Emptied(w, hs) EXCEPT ![w].used = @ \ f]
           \/ nb' = [nb EXCEPT ![w].used = @ \ f]
           \/ nb' = nb,
           UNCHANGED <<job, master, hdls>>
    PROVE  HandlesOK' /\ \A v \in Worker : nb'[v].cur = nb[v].cur
<1> DEFINE N == [next : Handle, cur : Handle, used : SUBSET Handle, listed : SUBSET Handle]
<1>1. nb \in [Worker -> N]
  BY DEF HandlesOK
<1>2. ASSUME NEW g \in [Worker -> N]
      PROVE  /\ [g EXCEPT ![w].listed = @ \ hs] \in [Worker -> N]
             /\ \A v \in Worker : [g EXCEPT ![w].listed = @ \ hs][v].cur = g[v].cur
             /\ [g EXCEPT ![w].used = @ \ f] \in [Worker -> N]
             /\ \A v \in Worker : [g EXCEPT ![w].used = @ \ f][v].cur = g[v].cur
  OBVIOUS
<1>3. nb' \in [Worker -> N] /\ \A v \in Worker : nb'[v].cur = nb[v].cur
  <2> HIDE DEF N
  <2>1. Emptied(w, hs) \in [Worker -> N]
        /\ \A v \in Worker : Emptied(w, hs)[v].cur = nb[v].cur
    BY <1>1, <1>2 DEF Emptied
  <2>2. /\ [Emptied(w, hs) EXCEPT ![w].used = @ \ f] \in [Worker -> N]
        /\ \A v \in Worker : [Emptied(w, hs) EXCEPT ![w].used = @ \ f][v].cur
                               = Emptied(w, hs)[v].cur
    BY <1>2, <2>1
  <2>3. /\ [nb EXCEPT ![w].used = @ \ f] \in [Worker -> N]
        /\ \A v \in Worker : [nb EXCEPT ![w].used = @ \ f][v].cur = nb[v].cur
    BY <1>1, <1>2
  <2> QED
    BY <1>1, <2>1, <2>2, <2>3
<1> QED
  BY <1>3, SameHosts DEF HandlesOK

-----------------------------------------------------------------------------
(* Sequences *)

LEMMA TailFacts ==
    ASSUME NEW T, NEW s \in Seq(T)
    PROVE  /\ SubSeq(s, 2, Len(s)) \in Seq(T)
           /\ s = <<>> => SubSeq(s, 2, Len(s)) = <<>>
           /\ s # <<>> => /\ Head(s) \in T /\ 1 \in DOMAIN s /\ Head(s) = s[1]
                          /\ Tail(s) \in Seq(T) /\ SubSeq(s, 2, Len(s)) = Tail(s)
                          /\ \A i \in DOMAIN Tail(s) : i + 1 \in DOMAIN s /\ Tail(s)[i] = s[i + 1]
                          /\ \A i \in DOMAIN s : i # 1 =>
                                i - 1 \in DOMAIN Tail(s) /\ Tail(s)[i - 1] = s[i]
<1>1. CASE s = <<>>
  BY <1>1
<1>2. CASE s # <<>>
  <2>1. Len(s) \in Nat /\ Len(s) >= 1 /\ DOMAIN s = 1 .. Len(s)
    BY <1>2
  <2>2. Tail(s) \in Seq(T) /\ Len(Tail(s)) = Len(s) - 1 /\ Head(s) = s[1] /\ Head(s) \in T
        /\ \A i \in 1 .. Len(Tail(s)) : Tail(s)[i] = s[i + 1]
    BY <1>2, <2>1
  <2>3. SubSeq(s, 2, Len(s)) = Tail(s)
    BY <1>2, <2>1, <2>2
  <2>4. DOMAIN Tail(s) = 1 .. Len(s) - 1
    BY <2>2
  <2>5. \A i \in DOMAIN Tail(s) : i + 1 \in DOMAIN s /\ Tail(s)[i] = s[i + 1]
    BY <2>1, <2>2, <2>4
  <2>6. \A i \in DOMAIN s : i # 1 => i - 1 \in DOMAIN Tail(s) /\ Tail(s)[i - 1] = s[i]
    <3> TAKE i \in DOMAIN s
    <3> HAVE i # 1
    <3>1. i - 1 \in DOMAIN Tail(s) /\ (i - 1) + 1 = i
      BY <2>1, <2>4
    <3> QED
      BY <3>1, <2>5
  <2> QED
    BY <1>2, <2>1, <2>2, <2>3, <2>5, <2>6
<1> QED
  BY <1>1, <1>2

LEMMA AppendFacts ==
    ASSUME NEW T, NEW s \in Seq(T), NEW e \in T
    PROVE  /\ Append(s, e) \in Seq(T) /\ Append(s, e) # <<>>
           /\ DOMAIN Append(s, e) = DOMAIN s \cup {Len(s) + 1}
           /\ Append(s, e)[Len(s) + 1] = e /\ Len(s) + 1 \in DOMAIN Append(s, e)
           /\ \A i \in DOMAIN s : i < Len(s) + 1 /\ i \in DOMAIN Append(s, e)
                                  /\ Append(s, e)[i] = s[i]
           /\ \A i \in DOMAIN Append(s, e) : i \in DOMAIN s \/ i = Len(s) + 1
<1>1. /\ Append(s, e) \in Seq(T) /\ Append(s, e) # <<>> /\ Len(Append(s, e)) = Len(s) + 1
      /\ \A i \in 1 .. Len(s) : Append(s, e)[i] = s[i]
      /\ Append(s, e)[Len(s) + 1] = e
  BY AppendProperties
<1>2. Len(s) \in Nat /\ DOMAIN s = 1 .. Len(s) /\ DOMAIN Append(s, e) = 1 .. Len(s) + 1
  BY <1>1
<1> QED
  BY <1>1, <1>2

LEMMA ConcatFacts ==
    ASSUME NEW T, NEW s \in Seq(T), NEW e \in T
    PROVE  /\ <<>> \o s = s
           /\ <<e>> \o s \in Seq(T) /\ <<e>> \o s # <<>>
           /\ Head(<<e>> \o s) = e /\ Tail(<<e>> \o s) = s
           /\ s # <<>> => <<Head(s)>> \o Tail(s) = s
           /\ \A f \in T : <<e>> \o Append(s, f) = Append(<<e>> \o s, f)
OBVIOUS

-----------------------------------------------------------------------------
(* Messages: what a send, a receive and an answer do to the links *)

\* A link of w to a master as it was
Linked(w, m) == Ongoing(w, m)' = Ongoing(w, m) /\ posted'[w][m] = posted[w][m]

LEMMA OngoingFacts ==
    ASSUME JobOK, LinksOK, MemoryOK, NEW w \in Worker, NEW m \in Server
    PROVE  /\ chan[w][m] \in Seq(Message) /\ posted[w][m] \in Seq(Waiting)
           /\ srv[m] = <<>> => Ongoing(w, m) = chan[w][m]
           /\ srv[m] # <<>> => /\ srv[m][1] \in InHand /\ srv[m] = <<srv[m][1]>>
                               /\ srv[m][1].msg \in Message
                               /\ Ongoing(w, m) = IF srv[m][1].from = w
                                                  THEN <<srv[m][1].msg>> \o chan[w][m]
                                                  ELSE chan[w][m]
           /\ Ongoing(w, m) \in Seq(Message)
<1>1. chan[w][m] \in Seq(Message) /\ posted[w][m] \in Seq(Waiting)
  BY DEF LinksOK, ChanOK, PostedOK
<1>2. m \in Ranks /\ Ranks \subseteq Rank /\ Rank \subseteq Nat
  BY Hosts
<1>3. srv[m] \in {<<>>} \cup {<<u>> : u \in InHand}
  BY <1>2 DEF MemoryOK, Updates
<1>4. srv[m] # <<>> => srv[m][1] \in InHand /\ srv[m] = <<srv[m][1]>>
  BY <1>3
<1>5. \A u \in InHand : u.msg \in Message
  <2> TAKE u \in InHand
  <2>1. /\ u.msg \in [op : {"OP_ACC", "OP_FETCH_AND_ADD", "OP_SWAP"}, rank : Rank,
                      id : Somewhere, val : Int, entries : {{}}, call : CallId, nb : Handle]
    BY DEF InHand
  <2>2. \A r \in Rank : r \in Nat
    BY <1>2
  <2>3. \A a \in Somewhere : a \in Int
    BY BoundAssumption DEF Somewhere, Addr, Null
  <2> QED
    BY <2>1, <2>2, <2>3 DEF Message, MsgOp, ToMem
<1>6. <<>> \o chan[w][m] = chan[w][m]
  BY <1>1, ConcatFacts, ConcatEmptySeq
<1>7. CASE srv[m] = <<>>
  BY <1>1, <1>6, <1>7 DEF Ongoing
<1>8. CASE srv[m] # <<>>
  <2>1. Ongoing(w, m) = IF srv[m][1].from = w THEN <<srv[m][1].msg>> \o chan[w][m]
                        ELSE chan[w][m]
    BY <1>6, <1>8 DEF Ongoing
  <2>2. srv[m][1].msg \in Message
    BY <1>4, <1>5, <1>8
  <2>3. <<srv[m][1].msg>> \o chan[w][m] \in Seq(Message)
    BY <1>1, <2>2, ConcatProperties
  <2> QED
    BY <1>1, <1>4, <1>8, <2>1, <2>2, <2>3
<1> QED
  BY <1>7, <1>8

\* The update in hand and the channel determine what is under way.
LEMMA SameOngoing ==
    ASSUME NEW w \in Worker, NEW m \in Server, UNCHANGED <<job, master>>,
           srv'[m] = srv[m], chan'[w][m] = chan[w][m]
    PROVE  Ongoing(w, m)' = Ongoing(w, m)
BY SameHosts DEF Ongoing

LEMMA Sending ==
    ASSUME JobOK, LinksOK, MemoryOK, UNCHANGED <<job, master>>,
           NEW w \in Worker, NEW ms \in SUBSET Server, NEW h \in Message,
           \A m \in ms : Sensible(h, m), Send(w, ms, h),
           \A m \in Server : srv'[m] = srv[m]
    PROVE  /\ ChanOK'
           /\ \A m \in ms : Ongoing(w, m)' = Append(Ongoing(w, m), h)
           /\ \A v \in Worker, m \in Server :
                 v # w \/ m \notin ms => Ongoing(v, m)' = Ongoing(v, m)
<1>1. /\ chan \in [Worker -> [Server -> Seq(Message)]]
      /\ \A v \in Worker, m \in Server : \A i \in DOMAIN chan[v][m] : Sensible(chan[v][m][i], m)
  BY DEF LinksOK, ChanOK
<1>2. \A s \in Seq(Message) : Append(s, h) \in Seq(Message)
  BY AppendFacts
<1>3. /\ chan' \in [Worker -> [Server -> Seq(Message)]]
      /\ \A m \in Server : chan'[w][m] = IF m \in ms THEN Append(chan[w][m], h) ELSE chan[w][m]
      /\ \A v \in Worker \ {w} : chan'[v] = chan[v]
  BY <1>1, <1>2 DEF Send
<1>8. \A m \in ms : m \in Server /\ chan'[w][m] = Append(chan[w][m], h)
  BY <1>3
<1>9. \A m \in Server : chan[w][m] \in Seq(Message)
  BY <1>1
<1>4. ASSUME NEW v \in Worker, NEW m \in Server, NEW i \in DOMAIN chan'[v][m]
      PROVE  Sensible(chan'[v][m][i], m)
  <2>1. CASE v = w /\ m \in ms
    <3>1. chan'[w][m] = Append(chan[w][m], h) /\ chan[w][m] \in Seq(Message)
      BY <1>8, <1>9, <2>1
    <3>4. chan'[v][m] = Append(chan[w][m], h)
      BY <2>1, <3>1
    <3>2. \/ i \in DOMAIN chan[w][m] /\ chan'[v][m][i] = chan[w][m][i]
          \/ chan'[v][m][i] = h
      <4>1. i \in DOMAIN Append(chan[w][m], h)
        BY <3>4
      <4>2. i \in DOMAIN chan[w][m] \/ i = Len(chan[w][m]) + 1
        BY <3>1, <4>1, AppendFacts
      <4> QED
        BY <3>1, <3>4, <4>2, AppendFacts
    <3> QED
      BY <1>1, <2>1, <3>2
  <2>2. CASE ~(v = w /\ m \in ms)
    <3>1. chan'[v][m] = chan[v][m]
      BY <1>3, <2>2
    <3> QED
      BY <1>1, <3>1
  <2> QED
    BY <2>1, <2>2
<1>5. ChanOK'
  <2>1. \A v \in Worker, m \in Server :
           \A i \in DOMAIN chan'[v][m] : Sensible(chan[v][m][i], m)'
    BY <1>4, SameSensible
  <2> QED
    BY <1>3, <2>1, SameHosts DEF ChanOK
<1>6. ASSUME NEW m \in ms PROVE Ongoing(w, m)' = Append(Ongoing(w, m), h)
  <2>1. m \in Server /\ chan'[w][m] = Append(chan[w][m], h) /\ srv'[m] = srv[m] /\ m \in Server'
    BY <1>3, SameHosts
  <2>2. chan[w][m] \in Seq(Message) /\ chan'[w][m] \in Seq(Message)
    BY <1>1, <1>3, <2>1
  <2>3. CASE srv[m] # <<>> /\ srv[m][1].from = w
    <3>1. srv[m][1].msg \in Message
      BY <2>1, <2>3, OngoingFacts
    <3>2. Ongoing(w, m) = <<srv[m][1].msg>> \o chan[w][m]
          /\ Ongoing(w, m)' = <<srv[m][1].msg>> \o chan'[w][m]
      BY <2>1, <2>3 DEF Ongoing
    <3>3. <<srv[m][1].msg>> \o Append(chan[w][m], h) = Append(<<srv[m][1].msg>> \o chan[w][m], h)
      BY <2>2, <3>1, ConcatFacts
    <3> QED
      BY <2>1, <3>2, <3>3
  <2>4. CASE ~(srv[m] # <<>> /\ srv[m][1].from = w)
    <3>1. Ongoing(w, m) = <<>> \o chan[w][m] /\ Ongoing(w, m)' = <<>> \o chan'[w][m]
      BY <2>1, <2>4 DEF Ongoing
    <3>2. Ongoing(w, m) = chan[w][m] /\ Ongoing(w, m)' = chan'[w][m]
      BY <2>2, <3>1, ConcatEmptySeq
    <3> QED
      BY <2>1, <3>2
  <2> QED
    BY <2>3, <2>4
<1>7. ASSUME NEW v \in Worker, NEW m \in Server, v # w \/ m \notin ms
      PROVE  Ongoing(v, m)' = Ongoing(v, m)
  <2>1. chan'[v][m] = chan[v][m]
    BY <1>3, <1>7
  <2> QED
    BY <2>1, SameOngoing
<1> QED
  BY <1>5, <1>6, <1>7

LEMMA Preposting ==
    ASSUME PostedOK, HandlesOK, UNCHANGED <<job, master>>,
           NEW w \in Worker, NEW ms \in SUBSET Server, Prepost(w, ms),
           Now(w) \in CallId, Taken(w) \in Handle
    PROVE  /\ PostedOK'
           /\ \A m \in ms : posted'[w][m] = Append(posted[w][m], [call |-> Now(w), nb |-> Taken(w)])
           /\ \A v \in Worker, m \in Server :
                 v # w \/ m \notin ms => posted'[v][m] = posted[v][m]
<1> DEFINE e == [call |-> Now(w), nb |-> Taken(w)]
<1>1. e \in Waiting
  BY DEF Waiting
<1>2. posted' = [posted EXCEPT ![w] =
        [m \in Server |-> IF m \in ms THEN Append(posted[w][m], e) ELSE posted[w][m]]]
  BY DEF Prepost, Now, PostedOK
<1> HIDE DEF e
<1>3. posted \in [Worker -> [Server -> Seq(Waiting)]]
  BY DEF PostedOK
<1>4. \A s \in Seq(Waiting) : Append(s, e) \in Seq(Waiting)
  BY <1>1, AppendFacts
<1>5. /\ posted' \in [Worker -> [Server -> Seq(Waiting)]]
      /\ \A m \in Server : posted'[w][m] = IF m \in ms THEN Append(posted[w][m], e)
                                           ELSE posted[w][m]
      /\ \A v \in Worker \ {w} : posted'[v] = posted[v]
  BY <1>2, <1>3, <1>4
<1>6. PostedOK'
  BY <1>5, SameHosts DEF PostedOK
<1>7. \A m \in ms : posted'[w][m] = Append(posted[w][m], e)
  BY <1>5
<1> QED
  BY <1>5, <1>6, <1>7 DEF e

\* A server takes a message out of a channel.
LEMMA Receiving ==
    ASSUME JobOK, LinksOK, MemoryOK, UNCHANGED <<job, master>>,
           NEW w \in Worker, NEW m \in Server, NEW ops, Incoming(m, w, ops), Receive(m, w)
    PROVE  /\ ChanOK' /\ Msg(m, w) \in Message /\ Sensible(Msg(m, w), m) /\ Msg(m, w).op \in ops
           /\ srv[m] = <<>> /\ chan[w][m] # <<>> /\ Ongoing(w, m) = chan[w][m]
           /\ Msg(m, w) = Head(Ongoing(w, m))
           /\ chan'[w][m] = Tail(chan[w][m]) /\ chan'[w][m] \in Seq(Message)
           /\ \A v \in Worker, k \in Server : v # w \/ k # m => chan'[v][k] = chan[v][k]
<1>1. /\ chan \in [Worker -> [Server -> Seq(Message)]]
      /\ \A v \in Worker, k \in Server : \A i \in DOMAIN chan[v][k] : Sensible(chan[v][k][i], k)
  BY DEF LinksOK, ChanOK
<1>2. srv[m] = <<>> /\ chan[w][m] # <<>> /\ Msg(m, w).op \in ops /\ Msg(m, w) = Head(chan[w][m])
  BY DEF Incoming, Msg
<1>3. Ongoing(w, m) = chan[w][m]
  BY <1>2, OngoingFacts
<1>4. chan[w][m] \in Seq(Message)
  BY <1>1
<1>5. /\ Head(chan[w][m]) \in Message /\ 1 \in DOMAIN chan[w][m]
      /\ Head(chan[w][m]) = chan[w][m][1] /\ Tail(chan[w][m]) \in Seq(Message)
      /\ \A i \in DOMAIN Tail(chan[w][m]) : i + 1 \in DOMAIN chan[w][m]
                                            /\ Tail(chan[w][m])[i] = chan[w][m][i + 1]
  BY <1>2, <1>4, TailFacts
<1>6. /\ chan' \in [Worker -> [Server -> Seq(Message)]]
      /\ chan'[w][m] = Tail(chan[w][m])
      /\ \A v \in Worker, k \in Server : v # w \/ k # m => chan'[v][k] = chan[v][k]
  BY <1>1, <1>5 DEF Receive
<1>7. \A v \in Worker, k \in Server :
         \A i \in DOMAIN chan'[v][k] : Sensible(chan'[v][k][i], k)
  <2> TAKE v \in Worker, k \in Server
  <2>1. CASE v = w /\ k = m
    <3>1. chan'[v][k] = Tail(chan[w][m])
      BY <1>6, <2>1
    <3>2. \A i \in DOMAIN Tail(chan[w][m]) : Sensible(Tail(chan[w][m])[i], m)
      BY <1>1, <1>5
    <3> QED
      BY <2>1, <3>1, <3>2
  <2>2. CASE ~(v = w /\ k = m)
    <3>1. chan'[v][k] = chan[v][k]
      BY <1>6, <2>2
    <3> QED
      BY <1>1, <3>1
  <2> QED
    BY <2>1, <2>2
<1>8. ChanOK'
  <2>1. \A v \in Worker, k \in Server :
           \A i \in DOMAIN chan'[v][k] : Sensible(chan[v][k][i], k)'
    BY <1>7, SameSensible
  <2> QED
    BY <1>6, <2>1, SameHosts DEF ChanOK
<1> QED
  BY <1>1, <1>2, <1>3, <1>5, <1>6, <1>8

\* What is taken is out of the way, if the server is done with it at once, ...
LEMMA Handled ==
    ASSUME JobOK, LinksOK, MemoryOK, UNCHANGED <<job, master>>,
           NEW w \in Worker, NEW m \in Server, NEW ops, Incoming(m, w, ops), Receive(m, w),
           srv' = srv
    PROVE  /\ Ongoing(w, m) # <<>> /\ Ongoing(w, m)' = Tail(Ongoing(w, m))
           /\ Head(Ongoing(w, m)).op \in ops
           /\ \A v \in Worker, k \in Server : v # w \/ k # m => Ongoing(v, k)' = Ongoing(v, k)
<1>1. /\ Msg(m, w).op \in ops
      /\ srv[m] = <<>> /\ chan[w][m] # <<>> /\ Ongoing(w, m) = chan[w][m]
      /\ Msg(m, w) = Head(Ongoing(w, m))
      /\ chan'[w][m] = Tail(chan[w][m]) /\ chan'[w][m] \in Seq(Message)
      /\ \A v \in Worker, k \in Server : v # w \/ k # m => chan'[v][k] = chan[v][k]
  BY Receiving
<1>2. Ongoing(w, m)' = <<>> \o chan'[w][m]
  BY <1>1 DEF Ongoing
<1>3. Ongoing(w, m)' = chan'[w][m]
  BY <1>1, <1>2, ConcatEmptySeq
<1>4. \A v \in Worker, k \in Server : v # w \/ k # m => Ongoing(v, k)' = Ongoing(v, k)
  <2> TAKE v \in Worker, k \in Server
  <2> HAVE v # w \/ k # m
  <2>1. chan'[v][k] = chan[v][k] /\ srv'[k] = srv[k]
    BY <1>1
  <2> QED
    BY <2>1, SameOngoing
<1> QED
  BY <1>1, <1>3, <1>4

\* ... or the update it stands for is begun: the message stays under way until
\* the update is made.
LEMMA Beginning ==
    ASSUME JobOK, LinksOK, MemoryOK, UNCHANGED <<job, master>>,
           NEW w \in Worker, NEW m \in Server,
           NEW ops \in SUBSET {"OP_ACC", "OP_FETCH_AND_ADD", "OP_SWAP"},
           Incoming(m, w, ops), Receive(m, w), Begin(m, w)
    PROVE  /\ srv' \in Updates /\ \A v \in Worker : srv'[v] = srv[v]
           /\ \A v \in Worker, k \in Server : Ongoing(v, k)' = Ongoing(v, k)
<1> DEFINE u == [from |-> w, msg |-> Msg(m, w), old |-> mem[Msg(m, w).rank][Msg(m, w).id]]
<1>1. /\ Msg(m, w) \in Message /\ Sensible(Msg(m, w), m) /\ Msg(m, w).op \in ops
      /\ srv[m] = <<>> /\ chan[w][m] # <<>> /\ Ongoing(w, m) = chan[w][m]
      /\ Msg(m, w) = Head(Ongoing(w, m))
      /\ chan'[w][m] = Tail(chan[w][m])
      /\ \A v \in Worker, k \in Server : v # w \/ k # m => chan'[v][k] = chan[v][k]
  BY Receiving
<1>2. m \in Ranks /\ Worker \subseteq Rank /\ m \notin Worker
  BY Hosts
<1>3. /\ Msg(m, w).rank \in Rank /\ Msg(m, w).id \in Somewhere /\ Msg(m, w).entries = {}
  BY <1>1, <1>2 DEF Sensible, ToMem
<1>4. mem[Msg(m, w).rank][Msg(m, w).id] \in Int
  BY <1>3 DEF MemoryOK, Cells
<1>5. u \in InHand
  BY <1>1, <1>3, <1>4 DEF InHand, Message
<1>6. srv' = [srv EXCEPT ![m] = <<u>>] /\ srv \in Updates
  BY DEF Begin, MemoryOK
<1> HIDE DEF u
<1>7. srv' \in Updates /\ srv'[m] = <<u>> /\ \A k \in Ranks \ {m} : srv'[k] = srv[k]
  BY <1>2, <1>5, <1>6 DEF Updates
<1>9. /\ m \in Server' /\ srv'[m] # <<>>
      /\ srv'[m][1].from = w /\ srv'[m][1].msg = Head(chan[w][m])
  <2>1. u.from = w /\ u.msg = Head(chan[w][m])
    BY <1>1 DEF u
  <2> QED
    BY <1>7, <2>1, SameHosts
<1>8. ASSUME NEW v \in Worker, NEW k \in Server PROVE Ongoing(v, k)' = Ongoing(v, k)
  <2>1. CASE k # m
    <3>1. srv'[k] = srv[k] /\ chan'[v][k] = chan[v][k]
      BY <1>1, <1>7, <2>1, Hosts
    <3> QED
      BY <3>1, SameOngoing
  <2>2. CASE k = m /\ v # w
    <3>1. Ongoing(v, k) = <<>> \o chan[v][k] /\ Ongoing(v, k)' = <<>> \o chan'[v][k]
      BY <1>1, <1>9, <2>2 DEF Ongoing
    <3> QED
      BY <1>1, <2>2, <3>1
  <2>3. CASE k = m /\ v = w
    <3>1. chan[w][m] \in Seq(Message)
      BY OngoingFacts
    <3>2. <<Head(chan[w][m])>> \o Tail(chan[w][m]) = chan[w][m]
      BY <1>1, <3>1, ConcatFacts, HeadTailProperties
    <3>3. Ongoing(w, m)' = <<Head(chan[w][m])>> \o chan'[w][m]
      BY <1>9 DEF Ongoing
    <3> QED
      BY <1>1, <2>3, <3>2, <3>3
  <2> QED
    BY <2>1, <2>2, <2>3
<1> QED
  BY <1>2, <1>7, <1>8, Hosts

LEMMA Applying ==
    ASSUME JobOK, LinksOK, MemoryOK, UNCHANGED <<job, master, chan>>,
           NEW m \in Server, srv[m] # <<>>, srv' = [srv EXCEPT ![m] = <<>>]
    PROVE  /\ srv' \in Updates /\ \A v \in Worker : srv'[v] = srv[v]
           /\ \E w \in Worker :
                 /\ w = srv[m][1].from /\ Head(Ongoing(w, m)) = srv[m][1].msg
                 /\ Ongoing(w, m) # <<>> /\ Ongoing(w, m)' = Tail(Ongoing(w, m))
                 /\ \A v \in Worker, k \in Server :
                       v # w \/ k # m => Ongoing(v, k)' = Ongoing(v, k)
<1>1. m \in Ranks /\ m \notin Worker /\ m \in Server' /\ srv \in Updates
  BY Hosts, SameHosts DEF MemoryOK
<1>2. srv' \in Updates /\ srv'[m] = <<>> /\ \A k \in Ranks \ {m} : srv'[k] = srv[k]
  BY <1>1 DEF Updates
<1>3. srv[m][1].from \in Worker
  <2>1. srv[m] \in {<<v>> : v \in InHand}
    BY <1>1 DEF Updates
  <2>2. srv[m][1] \in InHand
    BY <2>1
  <2> QED
    BY <2>2 DEF InHand
<1>4. PICK w \in Worker : w = srv[m][1].from
  BY <1>3
<1>5. srv[m][1].msg \in Message /\ chan[w][m] \in Seq(Message)
      /\ Ongoing(w, m) = <<srv[m][1].msg>> \o chan[w][m]
  BY <1>4, OngoingFacts
<1>6. Ongoing(w, m)' = <<>> \o chan[w][m]
  BY <1>2 DEF Ongoing
<1>7. /\ Ongoing(w, m) # <<>> /\ Ongoing(w, m)' = Tail(Ongoing(w, m))
      /\ Head(Ongoing(w, m)) = srv[m][1].msg
  BY <1>5, <1>6, ConcatFacts, ConcatEmptySeq
<1>8. ASSUME NEW v \in Worker, NEW k \in Server, v # w \/ k # m
      PROVE  Ongoing(v, k)' = Ongoing(v, k)
  <2>1. CASE k # m
    <3>1. srv'[k] = srv[k]
      BY <1>2, <2>1, Hosts
    <3> QED
      BY <3>1, SameOngoing
  <2>2. CASE k = m /\ v # w
    <3>1. Ongoing(v, k) = <<>> \o chan[v][k] /\ Ongoing(v, k)' = <<>> \o chan'[v][k]
      BY <1>2, <1>4, <2>2 DEF Ongoing
    <3> QED
      BY <3>1
  <2> QED
    BY <1>8, <2>1, <2>2
<1>9. \A v \in Worker : srv'[v] = srv[v]
  BY <1>1, <1>2, Hosts
<1> QED
  BY <1>2, <1>4, <1>7, <1>8, <1>9

\* The answer takes the first of the receives.
LEMMA Answering ==
    ASSUME PostedOK, UNCHANGED <<job, master>>,
           NEW w \in Worker, NEW m \in Server, Answer(m, w)
    PROVE  /\ PostedOK'
           /\ posted[w][m] # <<>> => posted'[w][m] = Tail(posted[w][m])
           /\ \A v \in Worker, k \in Server : v # w \/ k # m => posted'[v][k] = posted[v][k]
<1>1. posted \in [Worker -> [Server -> Seq(Waiting)]]
  BY DEF PostedOK
<1>2. posted[w][m] \in Seq(Waiting)
  BY <1>1
<1>3. SubSeq(posted[w][m], 2, Len(posted[w][m])) \in Seq(Waiting)
      /\ posted[w][m] # <<>> => SubSeq(posted[w][m], 2, Len(posted[w][m])) = Tail(posted[w][m])
  BY <1>2, TailFacts
<1>4. /\ posted' \in [Worker -> [Server -> Seq(Waiting)]]
      /\ posted'[w][m] = SubSeq(posted[w][m], 2, Len(posted[w][m]))
      /\ \A v \in Worker, k \in Server : v # w \/ k # m => posted'[v][k] = posted[v][k]
  BY <1>1, <1>3 DEF Answer
<1> QED
  BY <1>3, <1>4, SameHosts DEF PostedOK

-----------------------------------------------------------------------------
(* Steps: what each of them means for requests, answers and fences *)

\* A worker is where it was.
Stays(w) == /\ pc'[w] = pc[w] /\ stage'[w] = stage[w] /\ mode'[w] = mode[w]
            /\ nb'[w].cur = nb[w].cur /\ hdls'[w] = hdls[w]
            /\ \A m \in Server : fence'[w][m] = fence[w][m]

\* The call w is in was given a handle in the variable x.
Renamed(w, x) == /\ stage[w] = 1 /\ pc[w] \in Given(w, x)'
                 /\ \A k \in Given(w, x)' : k <= pc[w]
                 /\ hdls'[w][x] = nb'[w].cur

Renames(w) == \A x \in Name : \/ Given(w, x)' = Given(w, x) /\ hdls'[w][x] = hdls[w][x]
                              \/ Renamed(w, x)

\* No message moves.  The workers ws, which wait for nothing, may go on.
Calm(ws) ==
    /\ lq' = lq
    /\ \A w \in Worker, m \in Server : Linked(w, m)
    /\ \A w \in Worker \ ws : Stays(w)
    /\ \A w \in ws : /\ mode[w] # "wait" /\ mode'[w] # "wait"
                     /\ Now(w)' = Now(w) \/ Before(Now(w), Now(w)')
                     /\ \A m \in Server : fence'[w][m] = fence[w][m]
                     /\ At(w, "sync")' => \A m \in Server : ~fence[w][m]
                     /\ Renames(w)

\* w sends h to the masters ms, and waits or, if its call is non-blocking,
\* goes on.
Issues(w, ms, h) ==
    /\ lq' = lq
    /\ \A v \in Worker \ {w} : Stays(v)
    /\ \A v \in Worker, m \in Server : v # w \/ m \notin ms => Linked(v, m)
    /\ mode[w] = "run" /\ h \in Message /\ h.call = Now(w) /\ h.nb = nb'[w].cur
    /\ \A m \in ms :
          /\ Ongoing(w, m)' = Append(Ongoing(w, m), h)
          /\ posted'[w][m] = IF Answered(h)
                             THEN Append(posted[w][m], [call |-> Now(w), nb |-> nb'[w].cur])
                             ELSE posted[w][m]
    /\ \/ mode'[w] = "wait" /\ Now(w)' = Now(w)
       \/ mode'[w] = "run" /\ Before(Now(w), Now(w)') /\ h.op \in {"OP_PUT", "OP_ACC", "OP_GET"}
    /\ ~At(w, "sync")' /\ Renames(w)
    /\ \A m \in Server : IF m \in ms /\ IsWrite(h) THEN fence'[w][m]
                         ELSE fence'[w][m] = fence[w][m]
    /\ Fencing(w)' => h.op = "OP_FENCE" /\ ms = Flagged(w)

\* w has waited long enough.
Resumes(w) ==
    /\ lq' = lq
    /\ \A v \in Worker, m \in Server : Linked(v, m)
    /\ \A v \in Worker \ {w} : Stays(v)
    /\ mode[w] = "wait" /\ mode'[w] = "run" /\ Before(Now(w), Now(w)')
    /\ ~Pending(w, nb[w].cur)
    /\ \A m \in Server : IF Fencing(w) THEN ~fence'[w][m] ELSE fence'[w][m] = fence[w][m]
    /\ At(w, "sync")' => Fencing(w)
    /\ \A x \in Name : Given(w, x)' = Given(w, x) /\ hdls'[w][x] = hdls[w][x]

\* m is done with the first message of w, ...
Serves(w, m) ==
    /\ \A v \in Worker : Stays(v)
    /\ Ongoing(w, m) # <<>> /\ Ongoing(w, m)' = Tail(Ongoing(w, m))
    /\ \A v \in Worker, k \in Server : v # w \/ k # m => Ongoing(v, k)' = Ongoing(v, k)

\* ... which has no answer, ...
Drops(w, m) ==
    /\ Serves(w, m) /\ lq' = lq
    /\ ~Answered(Head(Ongoing(w, m)))
    /\ \A v \in Worker, k \in Server : posted'[v][k] = posted[v][k]

\* ... or is answered, while queues may be thrown away, ...
Fewer == /\ \A v \in Worker, k \in Server : Queued(v, k)' => Queued(v, k)
         /\ QueuedOnce => QueuedOnce'
         /\ ReplacedUnused => \A v \in Worker, k \in Server : Queued(v, k) => Queued(v, k)'
Replies(w, m) ==
    /\ Serves(w, m) /\ Fewer
    /\ Answered(Head(Ongoing(w, m)))
    /\ posted[w][m] # <<>> => posted'[w][m] = Tail(posted[w][m])
    /\ \A v \in Worker, k \in Server : v # w \/ k # m => posted'[v][k] = posted[v][k]

\* ... or put into a queue, ...
Enqueues(w, m) ==
    /\ Serves(w, m) /\ Head(Ongoing(w, m)).op = "OP_LOCK"
    /\ \A v \in Worker, k \in Server : posted'[v][k] = posted[v][k]
    /\ \A v \in Worker, k \in Server : Queued(v, k)' <=> Queued(v, k) \/ (v = w /\ k = m)
    /\ QueuedOnce /\ ~Queued(w, m) => QueuedOnce'

\* ... or hands a mutex to u.
Hands(w, m, u) ==
    /\ Serves(w, m) /\ Head(Ongoing(w, m)).op = "OP_UNLOCK"
    /\ posted[u][m] # <<>> => posted'[u][m] = Tail(posted[u][m])
    /\ \A v \in Worker, k \in Server : v # u \/ k # m => posted'[v][k] = posted[v][k]
    /\ Queued(u, m)
    /\ QueuedOnce => QueuedOnce' /\ ~Queued(u, m)'
    /\ \A v \in Worker, k \in Server : v # u \/ k # m => (Queued(v, k)' <=> Queued(v, k))

Served(m) == \E w \in Worker : \/ Drops(w, m) \/ Replies(w, m) \/ Enqueues(w, m)
                               \/ \E u \in Worker : Hands(w, m, u)

Stepped == \/ \E ws \in SUBSET Worker : Calm(ws)
           \/ \E w \in Worker : Resumes(w) \/ \E ms \in SUBSET Server, h \in Message : Issues(w, ms, h)
           \/ \E m \in Server : Served(m)

-----------------------------------------------------------------------------
(* Invariants of a link, under each kind of step *)

LEMMA BeforeFacts ==
    ASSUME NEW a \in CallId, NEW b \in CallId, NEW c \in CallId
    PROVE  /\ ~Before(a, a) /\ ~(Before(a, b) /\ Before(b, a))
           /\ Before(a, b) /\ Before(b, c) => Before(a, c)
<1>1. a[1] \in Nat /\ a[2] \in Nat /\ b[1] \in Nat /\ b[2] \in Nat /\ c[1] \in Nat /\ c[2] \in Nat
  BY DEF CallId
<1> QED
  BY <1>1 DEF Before

LEMMA OrderFacts ==
    ASSUME NEW s, InOrder(s), s \in Seq(Message) \/ s \in Seq(Waiting)
    PROVE  /\ \A i \in DOMAIN s : s[i].call \in CallId
           /\ s # <<>> => InOrder(Tail(s)) /\ \A i \in DOMAIN Tail(s) : Before(s[1].call, Tail(s)[i].call)
<1>1. PICK T \in {Message, Waiting} : s \in Seq(T)
  OBVIOUS
<1>2. \A i \in DOMAIN s : s[i] \in T
  BY <1>1
<1>3. \A e \in T : e.call \in CallId
  <2>1. \A e \in Message : e.call \in CallId
    BY DEF Message
  <2>2. \A e \in Waiting : e.call \in CallId
    BY DEF Waiting
  <2> QED
    BY <2>1, <2>2
<1>4. \A i \in DOMAIN s : s[i].call \in CallId
  BY <1>2, <1>3
<1>5. ASSUME s # <<>>
      PROVE  InOrder(Tail(s)) /\ \A i \in DOMAIN Tail(s) : Before(s[1].call, Tail(s)[i].call)
  <2>1. /\ 1 \in DOMAIN s /\ Tail(s) \in Seq(T)
        /\ \A i \in DOMAIN Tail(s) : i + 1 \in DOMAIN s /\ Tail(s)[i] = s[i + 1]
    BY <1>1, <1>5, TailFacts
  <2>2. \A i \in DOMAIN Tail(s) : i \in Nat /\ i >= 1
    BY <2>1
  <2>3. ASSUME NEW i \in DOMAIN Tail(s), NEW k \in DOMAIN Tail(s), i < k
        PROVE  Before(Tail(s)[i].call, Tail(s)[k].call)
    <3>1. i + 1 < k + 1
      BY <2>2, <2>3
    <3> QED
      BY <2>1, <3>1 DEF InOrder
  <2>4. ASSUME NEW i \in DOMAIN Tail(s) PROVE Before(s[1].call, Tail(s)[i].call)
    <3>1. 1 < i + 1
      BY <2>2
    <3> QED
      BY <2>1, <3>1 DEF InOrder
  <2> QED
    BY <2>3, <2>4 DEF InOrder
<1> QED
  BY <1>4, <1>5

\* A call after all the calls of a list
LEMMA Longer ==
    ASSUME NEW T \in {Message, Waiting}, NEW s \in Seq(T), InOrder(s), NEW e \in T,
           \A i \in DOMAIN s : Before(s[i].call, e.call)
    PROVE  InOrder(Append(s, e))
<1>1. /\ \A i \in DOMAIN s : i < Len(s) + 1 /\ Append(s, e)[i] = s[i]
      /\ Append(s, e)[Len(s) + 1] = e
      /\ \A i \in DOMAIN Append(s, e) : i \in DOMAIN s \/ i = Len(s) + 1
  BY AppendFacts
<1>2. \A i \in DOMAIN s : i \in Nat /\ Len(s) \in Nat
  OBVIOUS
<1>3. Len(s) \in Nat
  OBVIOUS
<1>4. ASSUME NEW i \in DOMAIN Append(s, e), NEW k \in DOMAIN Append(s, e), i < k
      PROVE  Before(Append(s, e)[i].call, Append(s, e)[k].call)
  <2>1. i \in DOMAIN s
    BY <1>1, <1>2, <1>3, <1>4
  <2>2. CASE k \in DOMAIN s
    BY <1>1, <1>4, <2>1, <2>2 DEF InOrder
  <2>3. CASE k = Len(s) + 1
    BY <1>1, <2>1, <2>3
  <2> QED
    BY <1>1, <2>2, <2>3
<1> QED
  BY <1>4 DEF InOrder

\* A worker that waits for nothing goes on, or starts to wait for others.
LEMMA PairedOn ==
    ASSUME NEW q \in Seq(Message), NEW p \in Seq(Waiting), NEW now \in CallId, NEW now2 \in CallId,
           NEW a, NEW a2, NEW h, NEW h2, NEW z, NEW z2,
           Paired(q, p, now, a, h, z), ~a, z2 => z, (now2 = now) \/ Before(now, now2)
    PROVE  Paired(q, p, now2, a2, h2, z2)
<1>1. InOrder(q) /\ InOrder(p) /\ ~z2
  BY DEF Paired
<1>2. \A k \in DOMAIN q : q[k].call \in CallId /\ Before(q[k].call, now)
  BY <1>1, OrderFacts DEF Paired
<1>3. \A k \in DOMAIN p : p[k].call \in CallId /\ Before(p[k].call, now)
  BY <1>1, OrderFacts DEF Paired
<1>4. \A c \in CallId : Before(c, now) => Before(c, now2)
  BY BeforeFacts
<1>5. \A k \in DOMAIN q : Answered(q[k]) =>
          (\E i \in DOMAIN p : p[i].call = q[k].call) /\ q[k].op = "OP_GET"
  BY DEF Paired
<1>6. \A i \in DOMAIN p : \E k \in DOMAIN q : Answered(q[k]) /\ q[k].call = p[i].call
  BY DEF Paired
<1> QED
  BY <1>1, <1>2, <1>3, <1>4, <1>5, <1>6 DEF Paired

\* It sends a message that nobody answers, ...
LEMMA PairedTold ==
    ASSUME NEW q \in Seq(Message), NEW p \in Seq(Waiting), NEW now \in CallId, NEW now2 \in CallId,
           NEW a, NEW a2, NEW h, NEW h2, NEW z, NEW z2, NEW e \in Message,
           Paired(q, p, now, a, h, z), ~a, z2 => z, (a2 /\ now2 = now) \/ Before(now, now2),
           e.call = now, ~Answered(e)
    PROVE  Paired(Append(q, e), p, now2, a2, h2, z2)
<1>1. Paired(q, p, now2, a2, h2, z2) /\ ~z2
  <2>1. Paired(q, p, now2, a2, h2, z2)
    BY PairedOn
  <2>2. ~z2
    BY DEF Paired
  <2> QED
    BY <2>1, <2>2
<1>2. /\ \A i \in DOMAIN q : i \in DOMAIN Append(q, e) /\ Append(q, e)[i] = q[i]
      /\ \A i \in DOMAIN Append(q, e) :
            i \in DOMAIN q \/ Append(q, e)[i] = e
  BY AppendFacts
<1>3. \A k \in DOMAIN q : Before(q[k].call, e.call)
  BY DEF Paired
<1>4. InOrder(Append(q, e)) /\ InOrder(p)
  BY <1>3, Longer DEF Paired
<1>5. \A k \in DOMAIN Append(q, e) : \/ Before(Append(q, e)[k].call, now2)
                                     \/ a2 /\ Append(q, e)[k].call = now2
  BY <1>1, <1>2 DEF Paired
<1>6. \A k \in DOMAIN Append(q, e) : Answered(Append(q, e)[k]) =>
         /\ \E i \in DOMAIN p : p[i].call = Append(q, e)[k].call
         /\ Append(q, e)[k].op = "OP_GET" \/ (a2 /\ Append(q, e)[k].call = now2)
  BY <1>1, <1>2 DEF Paired
<1>7. \A i \in DOMAIN p : \E k \in DOMAIN q : Answered(q[k]) /\ q[k].call = p[i].call
  BY DEF Paired
<1>8. \A i \in DOMAIN p :
         \E k \in DOMAIN Append(q, e) : Answered(Append(q, e)[k])
                                        /\ Append(q, e)[k].call = p[i].call
  BY <1>2, <1>7
<1>9. \A i \in DOMAIN p : \/ Before(p[i].call, now2)
                          \/ a2 /\ p[i].call = now2 /\ p[i].nb = h2
  BY <1>1 DEF Paired
<1> QED
  BY <1>1, <1>4, <1>5, <1>6, <1>8, <1>9 DEF Paired

\* ... or a request, with a receive for the answer.
LEMMA PairedAsked ==
    ASSUME NEW q \in Seq(Message), NEW p \in Seq(Waiting), NEW now \in CallId, NEW now2 \in CallId,
           NEW a, NEW a2, NEW h, NEW h2 \in Handle, NEW z, NEW z2, NEW e \in Message,
           Paired(q, p, now, a, h, z), ~a, z2 => z,
           (a2 /\ now2 = now) \/ (Before(now, now2) /\ e.op = "OP_GET"),
           e.call = now, Answered(e)
    PROVE  Paired(Append(q, e), Append(p, [call |-> now, nb |-> h2]), now2, a2, h2, z2)
<1> DEFINE r == [call |-> now, nb |-> h2]
<1>r. r \in Waiting /\ r.call = now /\ r.nb = h2
  BY DEF Waiting
<1> HIDE DEF r
<1>1. Paired(q, p, now2, a2, h2, z2) /\ ~z2
  <2>1. Paired(q, p, now2, a2, h2, z2)
    BY PairedOn
  <2>2. ~z2
    BY DEF Paired
  <2> QED
    BY <2>1, <2>2
<1>2. /\ \A i \in DOMAIN q : i \in DOMAIN Append(q, e) /\ Append(q, e)[i] = q[i]
      /\ \A i \in DOMAIN Append(q, e) :
            i \in DOMAIN q \/ Append(q, e)[i] = e
      /\ \E k \in DOMAIN Append(q, e) : Append(q, e)[k] = e
  BY AppendFacts
<1>3. /\ \A i \in DOMAIN p : i \in DOMAIN Append(p, r) /\ Append(p, r)[i] = p[i]
      /\ \A i \in DOMAIN Append(p, r) :
            i \in DOMAIN p \/ Append(p, r)[i] = r
      /\ \E k \in DOMAIN Append(p, r) : Append(p, r)[k] = r
  BY <1>r, AppendFacts
<1>4. InOrder(q) /\ InOrder(p)
      /\ (\A k \in DOMAIN q : Before(q[k].call, e.call))
      /\ (\A k \in DOMAIN p : Before(p[k].call, r.call))
  BY <1>r DEF Paired
<1>5. InOrder(Append(q, e)) /\ InOrder(Append(p, r))
  BY <1>4, <1>r, Longer
<1>6. \A k \in DOMAIN Append(q, e) : \/ Before(Append(q, e)[k].call, now2)
                                     \/ a2 /\ Append(q, e)[k].call = now2
  BY <1>1, <1>2 DEF Paired
<1>7. \A i \in DOMAIN Append(p, r) : \/ Before(Append(p, r)[i].call, now2)
                                     \/ a2 /\ Append(p, r)[i].call = now2 /\ Append(p, r)[i].nb = h2
  <2>1. \A i \in DOMAIN p : \/ Before(p[i].call, now2)
                            \/ a2 /\ p[i].call = now2 /\ p[i].nb = h2
    BY <1>1 DEF Paired
  <2>2. \/ Before(r.call, now2)
        \/ a2 /\ r.call = now2 /\ r.nb = h2
    BY <1>r
  <2> QED
    BY <1>3, <2>1, <2>2
<1>8. \A k \in DOMAIN q : Answered(q[k]) =>
          (\E i \in DOMAIN p : p[i].call = q[k].call) /\ q[k].op = "OP_GET"
  BY DEF Paired
<1>9. \A i \in DOMAIN p : \E k \in DOMAIN q : Answered(q[k]) /\ q[k].call = p[i].call
  BY DEF Paired
<1>10. \A k \in DOMAIN Append(q, e) : Answered(Append(q, e)[k]) =>
         /\ \E i \in DOMAIN Append(p, r) : Append(p, r)[i].call = Append(q, e)[k].call
         /\ Append(q, e)[k].op = "OP_GET" \/ (a2 /\ Append(q, e)[k].call = now2)
  <2> TAKE k \in DOMAIN Append(q, e)
  <2>1. CASE k \in DOMAIN q
    BY <1>2, <1>3, <1>8, <2>1
  <2>2. CASE Append(q, e)[k] = e
    BY <1>3, <1>r, <2>2
  <2> QED
    BY <1>2, <2>1, <2>2
<1>11. \A i \in DOMAIN Append(p, r) :
         \E k \in DOMAIN Append(q, e) : Answered(Append(q, e)[k])
                                        /\ Append(q, e)[k].call = Append(p, r)[i].call
  <2> TAKE i \in DOMAIN Append(p, r)
  <2>1. CASE i \in DOMAIN p
    BY <1>2, <1>3, <1>9, <2>1
  <2>2. CASE Append(p, r)[i] = r
    BY <1>2, <1>r, <2>2
  <2> QED
    BY <1>3, <2>1, <2>2
<1> QED
  BY <1>1, <1>5, <1>6, <1>7, <1>10, <1>11 DEF Paired, r

\* When nothing is pending for its handle all its requests are answered.
LEMMA PairedOver ==
    ASSUME NEW q \in Seq(Message), NEW p \in Seq(Waiting), NEW now \in CallId, NEW a, NEW h, NEW z,
           Paired(q, p, now, a, h, z), \A i \in DOMAIN p : p[i].nb # h
    PROVE  \A k \in DOMAIN q : q[k].call = now => ~Answered(q[k])
<1>1. InOrder(p)
  BY DEF Paired
<1>2. \A i \in DOMAIN p : p[i].call \in CallId
  BY <1>1, OrderFacts
<1>3. \A i \in DOMAIN p : Before(p[i].call, now) /\ p[i].call # now
  BY <1>2, BeforeFacts DEF Paired
<1> QED
  BY <1>3 DEF Paired

\* It has waited long enough.
LEMMA PairedResumed ==
    ASSUME NEW q \in Seq(Message), NEW p \in Seq(Waiting), NEW now \in CallId, NEW now2 \in CallId,
           NEW a, NEW a2, NEW h, NEW h2, NEW z, NEW z2,
           Paired(q, p, now, a, h, z), z2 => z, Before(now, now2),
           \A i \in DOMAIN p : p[i].nb # h
    PROVE  Paired(q, p, now2, a2, h2, z2)
<1>1. InOrder(q) /\ InOrder(p)
  BY DEF Paired
<1>2. /\ \A k \in DOMAIN q : q[k].call \in CallId
      /\ \A i \in DOMAIN p : p[i].call \in CallId
  BY <1>1, OrderFacts
<1>3. \A i \in DOMAIN p : Before(p[i].call, now) /\ p[i].call # now
  BY <1>2, BeforeFacts DEF Paired
<1>4. \A k \in DOMAIN q : Answered(q[k]) => q[k].call # now
  BY <1>3 DEF Paired
<1>5. \A c \in CallId : Before(c, now) => Before(c, now2)
  BY BeforeFacts
<1>6. \A i \in DOMAIN p : \E k \in DOMAIN q : Answered(q[k]) /\ q[k].call = p[i].call
  BY <1>3 DEF Paired
<1>7. \A k \in DOMAIN q : Before(q[k].call, now2)
  BY <1>2, <1>5 DEF Paired
<1>8. \A k \in DOMAIN q : Answered(q[k]) =>
          (\E i \in DOMAIN p : p[i].call = q[k].call) /\ q[k].op = "OP_GET"
  BY <1>4 DEF Paired
<1>9. ~z2
  <2> SUFFICES ASSUME z PROVE FALSE
    OBVIOUS
  <2>1. q = <<>> /\ p # <<>>
    BY DEF Paired
  <2>2. 1 \in DOMAIN p
    BY <2>1, TailFacts
  <2> QED
    BY <1>6, <2>1, <2>2
<1> QED
  BY <1>1, <1>2, <1>3, <1>4, <1>5, <1>6, <1>7, <1>8, <1>9 DEF Paired

\* The first request goes away without an answer, ...
LEMMA PairedDropped ==
    ASSUME NEW q \in Seq(Message), NEW p \in Seq(Waiting), NEW now \in CallId,
           NEW a, NEW h, NEW z, NEW z2,
           Paired(q, p, now, a, h, z), z2 => z, q # <<>>, ~Answered(Head(q))
    PROVE  Paired(Tail(q), p, now, a, h, z2)
<1>1. /\ Tail(q) \in Seq(Message) /\ Head(q) = q[1] /\ 1 \in DOMAIN q
      /\ \A i \in DOMAIN Tail(q) : i + 1 \in DOMAIN q /\ Tail(q)[i] = q[i + 1]
      /\ \A i \in DOMAIN q : i # 1 => i - 1 \in DOMAIN Tail(q) /\ Tail(q)[i - 1] = q[i]
  BY TailFacts
<1>2. InOrder(Tail(q)) /\ InOrder(p) /\ ~z2
  BY OrderFacts DEF Paired
<1>3. \A k \in DOMAIN Tail(q) : \/ Before(Tail(q)[k].call, now)
                                \/ a /\ Tail(q)[k].call = now
  BY <1>1 DEF Paired
<1>4. \A k \in DOMAIN Tail(q) : Answered(Tail(q)[k]) =>
          /\ \E i \in DOMAIN p : p[i].call = Tail(q)[k].call
          /\ Tail(q)[k].op = "OP_GET" \/ (a /\ Tail(q)[k].call = now)
  <2>1. \A k \in DOMAIN q : Answered(q[k]) =>
           /\ \E i \in DOMAIN p : p[i].call = q[k].call
           /\ q[k].op = "OP_GET" \/ (a /\ q[k].call = now)
    BY DEF Paired
  <2> QED
    BY <1>1, <2>1
<1>5. \A i \in DOMAIN p : \E k \in DOMAIN Tail(q) : Answered(Tail(q)[k]) /\ Tail(q)[k].call = p[i].call
  <2> TAKE i \in DOMAIN p
  <2>1. PICK k \in DOMAIN q : Answered(q[k]) /\ q[k].call = p[i].call
    BY DEF Paired
  <2>2. k # 1
    BY <1>1, <2>1
  <2>3. k - 1 \in DOMAIN Tail(q) /\ Tail(q)[k - 1] = q[k]
    BY <1>1, <2>2
  <2> QED
    BY <2>1, <2>3
<1>6. \A i \in DOMAIN p : \/ Before(p[i].call, now)
                          \/ a /\ p[i].call = now /\ p[i].nb = h
  BY DEF Paired
<1> QED
  BY <1>2, <1>3, <1>4, <1>5, <1>6 DEF Paired

\* ... or with one, which is the answer the first receive is for.
LEMMA PairedReplied ==
    ASSUME NEW q \in Seq(Message), NEW p \in Seq(Waiting), NEW now \in CallId,
           NEW a, NEW h, NEW z, NEW z2,
           Paired(q, p, now, a, h, z), z2 => z, q # <<>>, Answered(Head(q))
    PROVE  p # <<>> /\ Paired(Tail(q), Tail(p), now, a, h, z2)
<1>1. /\ Tail(q) \in Seq(Message) /\ Head(q) = q[1] /\ 1 \in DOMAIN q
      /\ \A i \in DOMAIN Tail(q) : i + 1 \in DOMAIN q /\ Tail(q)[i] = q[i + 1]
      /\ \A i \in DOMAIN q : i # 1 => i - 1 \in DOMAIN Tail(q) /\ Tail(q)[i - 1] = q[i]
  BY TailFacts
<1>2. PICK i0 \in DOMAIN p : p[i0].call = q[1].call
  BY <1>1 DEF Paired
<1>3. p # <<>>
  BY <1>2
<1>4. /\ Tail(p) \in Seq(Waiting) /\ 1 \in DOMAIN p
      /\ \A i \in DOMAIN Tail(p) : i + 1 \in DOMAIN p /\ Tail(p)[i] = p[i + 1]
      /\ \A i \in DOMAIN p : i # 1 => i - 1 \in DOMAIN Tail(p) /\ Tail(p)[i - 1] = p[i]
  BY <1>3, TailFacts
<1>5. /\ InOrder(q) /\ InOrder(p) /\ InOrder(Tail(q)) /\ InOrder(Tail(p))
      /\ \A i \in DOMAIN q : q[i].call \in CallId
      /\ \A i \in DOMAIN p : p[i].call \in CallId
      /\ \A i \in DOMAIN Tail(q) : Before(q[1].call, Tail(q)[i].call)
      /\ \A i \in DOMAIN Tail(p) : Before(p[1].call, Tail(p)[i].call)
  BY <1>3, OrderFacts DEF Paired
<1>6. \A i \in DOMAIN p : \E k \in DOMAIN q : Answered(q[k]) /\ q[k].call = p[i].call
  BY DEF Paired
<1>7. p[1].call = q[1].call
  <2>1. PICK k0 \in DOMAIN q : q[k0].call = p[1].call
    BY <1>4, <1>6
  <2>2. CASE k0 = 1
    BY <2>1, <2>2
  <2>3. CASE k0 # 1
    <3>1. Before(q[1].call, q[k0].call)
      BY <1>1, <1>5, <2>3
    <3>2. i0 # 1
      BY <1>1, <1>2, <1>5, <2>1, <3>1, BeforeFacts
    <3>3. Before(p[1].call, p[i0].call)
      BY <1>4, <1>5, <3>2
    <3>4. p[1].call \in CallId /\ p[i0].call \in CallId /\ q[1].call \in CallId
      BY <1>1, <1>4, <1>5
    <3> QED
      BY <1>2, <2>1, <3>1, <3>3, <3>4, BeforeFacts
  <2> QED
    BY <2>2, <2>3
<1>8. \A k \in DOMAIN Tail(q) : \/ Before(Tail(q)[k].call, now)
                                \/ a /\ Tail(q)[k].call = now
  BY <1>1 DEF Paired
<1>9. \A i \in DOMAIN Tail(p) : \/ Before(Tail(p)[i].call, now)
                                \/ a /\ Tail(p)[i].call = now /\ Tail(p)[i].nb = h
  BY <1>4 DEF Paired
<1>10. \A k \in DOMAIN Tail(q) : Answered(Tail(q)[k]) =>
          /\ \E i \in DOMAIN Tail(p) : Tail(p)[i].call = Tail(q)[k].call
          /\ Tail(q)[k].op = "OP_GET" \/ (a /\ Tail(q)[k].call = now)
  <2> TAKE k \in DOMAIN Tail(q)
  <2> HAVE Answered(Tail(q)[k])
  <2>1. k + 1 \in DOMAIN q /\ Tail(q)[k] = q[k + 1]
    BY <1>1
  <2>2. /\ \E i \in DOMAIN p : p[i].call = q[k + 1].call
        /\ q[k + 1].op = "OP_GET" \/ (a /\ q[k + 1].call = now)
    BY <2>1 DEF Paired
  <2>3. PICK i \in DOMAIN p : p[i].call = q[k + 1].call
    BY <2>2
  <2>4. Before(q[1].call, q[k + 1].call) /\ q[1].call \in CallId
    BY <1>1, <1>5, <2>1
  <2>5. i # 1
    BY <1>7, <2>3, <2>4, BeforeFacts
  <2>6. i - 1 \in DOMAIN Tail(p) /\ Tail(p)[i - 1].call = q[k + 1].call
    BY <1>4, <2>3, <2>5
  <2> QED
    BY <2>1, <2>2, <2>6
<1>11. \A i \in DOMAIN Tail(p) :
          \E k \in DOMAIN Tail(q) : Answered(Tail(q)[k]) /\ Tail(q)[k].call = Tail(p)[i].call
  <2> TAKE i \in DOMAIN Tail(p)
  <2>1. i + 1 \in DOMAIN p /\ Tail(p)[i] = p[i + 1]
    BY <1>4
  <2>2. PICK k \in DOMAIN q : Answered(q[k]) /\ q[k].call = p[i + 1].call
    BY <1>6, <2>1
  <2>3. Before(p[1].call, p[i + 1].call) /\ p[1].call \in CallId
    BY <1>4, <1>5, <2>1
  <2>4. k # 1
    BY <1>7, <2>2, <2>3, BeforeFacts
  <2>5. k - 1 \in DOMAIN Tail(q) /\ Tail(q)[k - 1] = q[k]
    BY <1>1, <2>4
  <2> QED
    BY <2>1, <2>2, <2>5
<1>12. ~z2
  BY DEF Paired
<1> QED
  BY <1>3, <1>5, <1>8, <1>9, <1>10, <1>11, <1>12 DEF Paired

\* The request of a lock waits in a queue: it was the only one, ...
LEMMA PairedQueued ==
    ASSUME NEW q \in Seq(Message), NEW p \in Seq(Waiting), NEW now \in CallId,
           NEW a, NEW h, NEW z, NEW z2,
           Paired(q, p, now, a, h, z), q # <<>>, Answered(Head(q)), Head(q).op # "OP_GET"
    PROVE  Tail(q) = <<>> /\ p # <<>> /\ Paired(Tail(q), p, now, a, h, z2) /\ ~z
<1>1. /\ Tail(q) \in Seq(Message) /\ Head(q) = q[1] /\ 1 \in DOMAIN q
      /\ \A i \in DOMAIN Tail(q) : i + 1 \in DOMAIN q /\ Tail(q)[i] = q[i + 1]
      /\ \A i \in DOMAIN q : i # 1 => i - 1 \in DOMAIN Tail(q) /\ Tail(q)[i - 1] = q[i]
  BY TailFacts
<1>2. a /\ q[1].call = now /\ \E i \in DOMAIN p : p[i].call = now
  BY <1>1 DEF Paired
<1>3. /\ InOrder(p) /\ \A i \in DOMAIN q : q[i].call \in CallId
      /\ \A i \in DOMAIN Tail(q) : Before(now, Tail(q)[i].call)
  BY <1>2, OrderFacts DEF Paired
<1>4. DOMAIN Tail(q) = {}
  <2> SUFFICES ASSUME NEW i \in DOMAIN Tail(q) PROVE FALSE
    OBVIOUS
  <2>1. i + 1 \in DOMAIN q /\ Tail(q)[i] = q[i + 1]
    BY <1>1
  <2>2. q[i + 1].call \in CallId /\ Before(now, q[i + 1].call)
    BY <1>3, <2>1
  <2>3. Before(q[i + 1].call, now) \/ q[i + 1].call = now
    BY <2>1 DEF Paired
  <2> QED
    BY <2>2, <2>3, BeforeFacts
<1>5. Tail(q) = <<>>
  BY <1>1, <1>4
<1>6. \A i \in DOMAIN p : p[i].call = now
  <2> TAKE i \in DOMAIN p
  <2>1. PICK k \in DOMAIN q : q[k].call = p[i].call
    BY DEF Paired
  <2>2. k = 1
    BY <1>1, <1>4, <2>1
  <2> QED
    BY <1>2, <2>1, <2>2
<1>7. p # <<>> /\ ~z
  BY <1>2 DEF Paired
<1>8. Paired(<<>>, p, now, a, h, z2)
  <2>1. InOrder(<<>>)
    BY DEF InOrder
  <2>2. \A i \in DOMAIN p : \/ Before(p[i].call, now)
                            \/ a /\ p[i].call = now /\ p[i].nb = h
    BY DEF Paired
  <2> QED
    BY <1>2, <1>3, <1>6, <1>7, <2>1, <2>2 DEF Paired
<1> QED
  BY <1>5, <1>7, <1>8

\* ... and the answer it gets later is the only one the worker waits for.
LEMMA PairedHanded ==
    ASSUME NEW q \in Seq(Message), NEW p \in Seq(Waiting), NEW now \in CallId,
           NEW a, NEW h, NEW z, NEW z2,
           Paired(q, p, now, a, h, z), z, ~z2
    PROVE  q = <<>> /\ p # <<>> /\ Paired(q, Tail(p), now, a, h, z2) /\ Tail(p) = <<>>
<1>1. q = <<>> /\ p # <<>> /\ a /\ InOrder(q)
  BY DEF Paired
<1>2. /\ Tail(p) \in Seq(Waiting) /\ 1 \in DOMAIN p
      /\ \A i \in DOMAIN Tail(p) : i + 1 \in DOMAIN p /\ Tail(p)[i] = p[i + 1]
  BY <1>1, TailFacts
<1>3. /\ \A i \in DOMAIN p : p[i].call \in CallId
      /\ \A i \in DOMAIN Tail(p) : Before(p[1].call, Tail(p)[i].call)
  BY <1>1, OrderFacts DEF Paired
<1>4. \A i \in DOMAIN p : p[i].call = now
  BY <1>1 DEF Paired
<1>5. DOMAIN Tail(p) = {}
  <2> SUFFICES ASSUME NEW i \in DOMAIN Tail(p) PROVE FALSE
    OBVIOUS
  <2>1. Before(now, now)
    BY <1>2, <1>3, <1>4
  <2> QED
    BY <2>1, BeforeFacts
<1>6. Tail(p) = <<>>
  BY <1>2, <1>5
<1>7. InOrder(<<>>) /\ DOMAIN <<>> = {}
  BY DEF InOrder
<1>8. Paired(<<>>, <<>>, now, a, h, z2)
  BY <1>7 DEF Paired
<1> QED
  BY <1>1, <1>6, <1>8

-----------------------------------------------------------------------------
(* Requests and answers, under each kind of step *)

LEMMA LinkTypes ==
    ASSUME TypeInv, NEW w \in Worker, NEW m \in Server
    PROVE  /\ Ongoing(w, m) \in Seq(Message) /\ posted[w][m] \in Seq(Waiting)
           /\ Now(w) \in CallId /\ nb[w].cur \in Handle
<1>1. Ongoing(w, m) \in Seq(Message) /\ posted[w][m] \in Seq(Waiting)
  BY OngoingFacts DEF TypeInv
<1>2. Now(w) \in CallId
  BY DEF TypeInv, ControlOK, Now, CallId
<1>3. nb[w].cur \in Handle
  BY DEF TypeInv, HandlesOK
<1> QED
  BY <1>1, <1>2, <1>3

LEMMA NowNext ==
    ASSUME TypeInv', UNCHANGED <<job, master>>, NEW w \in Worker
    PROVE  Now(w)' \in CallId /\ nb'[w].cur \in Handle
<1>1. Worker' = Worker
  BY SameHosts
<1>2. pc' \in [Worker' -> Nat \ {0}] /\ stage' \in [Worker' -> Nat \ {0}]
  BY DEF TypeInv, ControlOK
<1>3. nb'[w].cur \in Handle
  BY <1>1 DEF TypeInv, HandlesOK
<1> QED
  BY <1>1, <1>2, <1>3 DEF Now, CallId

LEMMA SameQueued ==
    ASSUME UNCHANGED <<job, master, lq>>
    PROVE  /\ \A w, m : Queued(w, m)' <=> Queued(w, m)
           /\ QueuedOnce' <=> QueuedOnce
BY SameHosts DEF Queued, QueuedOnce

LEMMA PairedKept ==
    ASSUME NEW w \in Worker, NEW m \in Server, PairedAt(w, m), Linked(w, m), Stays(w),
           Queued(w, m)' => Queued(w, m)
    PROVE  PairedAt(w, m)'
BY DEF PairedAt, Paired, Linked, Stays, Now

LEMMA PairedCalm ==
    ASSUME TypeInv, TypeInv', UNCHANGED <<job, master>>,
           \A w \in Worker, m \in Server : PairedAt(w, m),
           NEW ws \in SUBSET Worker, Calm(ws)
    PROVE  \A w \in Worker, m \in Server : PairedAt(w, m)'
<1> TAKE w \in Worker, m \in Server
<1>1. Linked(w, m) /\ (Queued(w, m)' <=> Queued(w, m)) /\ PairedAt(w, m)
  BY SameQueued DEF Calm
<1>2. CASE w \notin ws
  BY <1>1, <1>2, PairedKept DEF Calm
<1>3. CASE w \in ws
  <2>1. mode[w] # "wait" /\ (Now(w)' = Now(w) \/ Before(Now(w), Now(w)'))
    BY <1>3 DEF Calm
  <2>2. /\ Ongoing(w, m) \in Seq(Message) /\ posted[w][m] \in Seq(Waiting)
        /\ Now(w) \in CallId /\ Now(w)' \in CallId
    BY LinkTypes, NowNext
  <2>3. Paired(Ongoing(w, m), posted[w][m], Now(w), mode[w] = "wait", nb[w].cur, Queued(w, m))
    BY <1>1 DEF PairedAt
  <2>4. Paired(Ongoing(w, m), posted[w][m], Now(w)', mode'[w] = "wait", nb'[w].cur, Queued(w, m)')
    <3>1. ~(mode[w] = "wait") /\ ((Now(w)' = Now(w)) \/ Before(Now(w), Now(w)'))
      BY <2>1
    <3>2. Queued(w, m)' => Queued(w, m)
      BY <1>1
    <3> QED
      BY <2>2, <2>3, <3>1, <3>2, PairedOn, ZenonT(60)
  <2> QED
    BY <1>1, <2>4 DEF PairedAt, Linked
<1> QED
  BY <1>2, <1>3

LEMMA PairedIssues ==
    ASSUME TypeInv, TypeInv', UNCHANGED <<job, master>>,
           \A w \in Worker, m \in Server : PairedAt(w, m),
           NEW w \in Worker, NEW ms \in SUBSET Server, NEW e \in Message, Issues(w, ms, e)
    PROVE  \A v \in Worker, m \in Server : PairedAt(v, m)'
<1> TAKE v \in Worker, m \in Server
<1>1. (Queued(v, m)' <=> Queued(v, m)) /\ PairedAt(v, m)
  BY SameQueued DEF Issues
<1>2. CASE v # w
  BY <1>1, <1>2, PairedKept DEF Issues
<1>3. CASE v = w
  <2>1. /\ mode[w] # "wait" /\ (Now(w)' = Now(w) \/ Before(Now(w), Now(w)'))
        /\ \/ mode'[w] = "wait" /\ Now(w)' = Now(w)
           \/ Before(Now(w), Now(w)') /\ e.op \in {"OP_PUT", "OP_ACC", "OP_GET"}
        /\ e.call = Now(w)
    BY DEF Issues
  <2>2. /\ Ongoing(w, m) \in Seq(Message) /\ posted[w][m] \in Seq(Waiting)
        /\ Now(w) \in CallId /\ Now(w)' \in CallId /\ nb'[w].cur \in Handle
    BY LinkTypes, NowNext
  <2>3. Paired(Ongoing(w, m), posted[w][m], Now(w), mode[w] = "wait", nb[w].cur, Queued(w, m))
    BY <1>1, <1>3 DEF PairedAt
  <2>4. (Queued(w, m)' <=> Queued(w, m))
    BY <1>1, <1>3
  <2>5. CASE m \notin ms
    <3>1. Paired(Ongoing(w, m), posted[w][m], Now(w)', mode'[w] = "wait", nb'[w].cur, Queued(w, m)')
      <4>1. ~(mode[w] = "wait") /\ ((Now(w)' = Now(w)) \/ Before(Now(w), Now(w)'))
        BY <2>1
      <4>2. Queued(w, m)' => Queued(w, m)
        BY <2>4
      <4> QED
        BY <2>2, <2>3, <4>1, <4>2, PairedOn, ZenonT(60)
    <3>2. Linked(w, m)
      BY <2>5 DEF Issues
    <3> QED
      BY <1>3, <3>1, <3>2 DEF PairedAt, Linked
  <2>6. CASE m \in ms /\ ~Answered(e)
    <3>1. Paired(Append(Ongoing(w, m), e), posted[w][m], Now(w)', mode'[w] = "wait", nb'[w].cur,
                 Queued(w, m)')
      BY <2>1, <2>2, <2>3, <2>4, <2>6, PairedTold
    <3>2. Ongoing(w, m)' = Append(Ongoing(w, m), e) /\ posted'[w][m] = posted[w][m]
      BY <2>6 DEF Issues
    <3> QED
      BY <1>3, <3>1, <3>2 DEF PairedAt
  <2>7. CASE m \in ms /\ Answered(e)
    <3>1. (mode'[w] = "wait" /\ Now(w)' = Now(w)) \/ (Before(Now(w), Now(w)') /\ e.op = "OP_GET")
      BY <2>1, <2>7 DEF Answered
    <3>2. Paired(Append(Ongoing(w, m), e),
                 Append(posted[w][m], [call |-> Now(w), nb |-> nb'[w].cur]),
                 Now(w)', mode'[w] = "wait", nb'[w].cur, Queued(w, m)')
      BY <2>1, <2>2, <2>3, <2>4, <2>7, <3>1, PairedAsked
    <3>3. /\ Ongoing(w, m)' = Append(Ongoing(w, m), e)
          /\ posted'[w][m] = Append(posted[w][m], [call |-> Now(w), nb |-> nb'[w].cur])
      BY <2>7 DEF Issues
    <3> QED
      BY <1>3, <3>2, <3>3 DEF PairedAt
  <2> QED
    BY <2>5, <2>6, <2>7
<1> QED
  BY <1>2, <1>3

\* What is pending for a handle
LEMMA NotPending ==
    ASSUME NEW w \in Worker, NEW h, ~Pending(w, h), NEW m \in Server
    PROVE  /\ \A i \in DOMAIN posted[w][m] : posted[w][m][i].nb # h
           /\ job.eager \/ \A i \in DOMAIN chan[w][m] : chan[w][m][i].nb # h
BY DEF Pending

LEMMA PairedResumes ==
    ASSUME TypeInv, TypeInv', UNCHANGED <<job, master>>,
           \A w \in Worker, m \in Server : PairedAt(w, m),
           NEW w \in Worker, Resumes(w)
    PROVE  \A v \in Worker, m \in Server : PairedAt(v, m)'
<1> TAKE v \in Worker, m \in Server
<1>1. (Queued(v, m)' <=> Queued(v, m)) /\ PairedAt(v, m) /\ Linked(v, m)
  BY SameQueued DEF Resumes
<1>2. CASE v # w
  BY <1>1, <1>2, PairedKept DEF Resumes
<1>3. CASE v = w
  <2>1. Before(Now(w), Now(w)') /\ ~Pending(w, nb[w].cur)
    BY DEF Resumes
  <2>2. /\ Ongoing(w, m) \in Seq(Message) /\ posted[w][m] \in Seq(Waiting)
        /\ Now(w) \in CallId /\ Now(w)' \in CallId
    BY LinkTypes, NowNext
  <2>3. Paired(Ongoing(w, m), posted[w][m], Now(w), mode[w] = "wait", nb[w].cur, Queued(w, m))
    BY <1>1, <1>3 DEF PairedAt
  <2>4. (Queued(w, m)' <=> Queued(w, m)) /\ \A i \in DOMAIN posted[w][m] : posted[w][m][i].nb # nb[w].cur
    BY <1>1, <1>3, <2>1, NotPending
  <2>5. Paired(Ongoing(w, m), posted[w][m], Now(w)', mode'[w] = "wait", nb'[w].cur, Queued(w, m)')
    BY <2>1, <2>2, <2>3, <2>4, PairedResumed
  <2> QED
    BY <1>1, <1>3, <2>5 DEF PairedAt, Linked
<1> QED
  BY <1>2, <1>3

LEMMA PairedServed ==
    ASSUME TypeInv, TypeInv', UNCHANGED <<job, master>>, QueuedOnce,
           \A w \in Worker, m \in Server : PairedAt(w, m),
           NEW m0 \in Server, Served(m0)
    PROVE  QueuedOnce' /\ \A w \in Worker, m \in Server : PairedAt(w, m)'
<1>1. PICK w0 \in Worker : \/ Drops(w0, m0) \/ Replies(w0, m0) \/ Enqueues(w0, m0)
                           \/ \E u \in Worker : Hands(w0, m0, u)
  BY DEF Served
<1>2. Serves(w0, m0)
  BY <1>1 DEF Drops, Replies, Enqueues, Hands
<1>3. /\ \A v \in Worker : Stays(v)
      /\ Ongoing(w0, m0) # <<>> /\ Ongoing(w0, m0)' = Tail(Ongoing(w0, m0))
      /\ \A v \in Worker, k \in Server : v # w0 \/ k # m0 => Ongoing(v, k)' = Ongoing(v, k)
  BY <1>2 DEF Serves
<1>4. Paired(Ongoing(w0, m0), posted[w0][m0], Now(w0), mode[w0] = "wait", nb[w0].cur,
             Queued(w0, m0))
  BY DEF PairedAt
<1>5. Ongoing(w0, m0) \in Seq(Message) /\ posted[w0][m0] \in Seq(Waiting) /\ Now(w0) \in CallId
  BY LinkTypes
\* What is shown of the link is enough.
<1>6. ASSUME NEW v \in Worker, NEW k \in Server,
             Paired(Ongoing(v, k)', posted'[v][k], Now(v), mode[v] = "wait", nb[v].cur, Queued(v, k)')
      PROVE  PairedAt(v, k)'
  <2>1. Now(v)' = Now(v) /\ mode'[v] = mode[v] /\ nb'[v].cur = nb[v].cur
    BY <1>3 DEF Stays, Now
  <2> QED
    BY <1>6, <2>1 DEF PairedAt
<1>7. ASSUME NEW v \in Worker, NEW k \in Server, v # w0 \/ k # m0, posted'[v][k] = posted[v][k],
             Queued(v, k)' => Queued(v, k)
      PROVE  PairedAt(v, k)'
  BY <1>3, <1>7, PairedKept DEF Linked
<1>8. CASE Drops(w0, m0)
  <2>1. /\ ~Answered(Head(Ongoing(w0, m0)))
        /\ \A v \in Worker, k \in Server : posted'[v][k] = posted[v][k]
        /\ \A v \in Worker, k \in Server : Queued(v, k)' <=> Queued(v, k)
        /\ QueuedOnce'
    BY <1>8, SameQueued DEF Drops
  <2>2. PairedAt(w0, m0)'
    <3>1. Queued(w0, m0)' => Queued(w0, m0)
      BY <2>1
    <3>2. Paired(Tail(Ongoing(w0, m0)), posted[w0][m0], Now(w0), mode[w0] = "wait", nb[w0].cur,
                 Queued(w0, m0)')
      BY <1>3, <1>4, <1>5, <2>1, <3>1, PairedDropped
    <3> QED
      BY <1>3, <1>6, <2>1, <3>2
  <2> QED
    BY <1>7, <2>1, <2>2
<1>9. CASE Replies(w0, m0)
  <2>1. /\ Answered(Head(Ongoing(w0, m0)))
        /\ posted[w0][m0] # <<>> => posted'[w0][m0] = Tail(posted[w0][m0])
        /\ \A v \in Worker, k \in Server : v # w0 \/ k # m0 => posted'[v][k] = posted[v][k]
        /\ \A v \in Worker, k \in Server : Queued(v, k)' => Queued(v, k)
        /\ QueuedOnce'
    BY <1>9 DEF Replies, Fewer
  <2>2. PairedAt(w0, m0)'
    <3>1. Queued(w0, m0)' => Queued(w0, m0)
      BY <2>1
    <3>2. /\ posted[w0][m0] # <<>>
          /\ Paired(Tail(Ongoing(w0, m0)), Tail(posted[w0][m0]), Now(w0), mode[w0] = "wait",
                    nb[w0].cur, Queued(w0, m0)')
      BY <1>3, <1>4, <1>5, <2>1, <3>1, PairedReplied
    <3> QED
      BY <1>3, <1>6, <2>1, <3>2
  <2> QED
    BY <1>7, <2>1, <2>2
<1>10. CASE Enqueues(w0, m0)
  <2>1. /\ Head(Ongoing(w0, m0)).op = "OP_LOCK"
        /\ \A v \in Worker, k \in Server : posted'[v][k] = posted[v][k]
        /\ \A v \in Worker, k \in Server : Queued(v, k)' <=> Queued(v, k) \/ (v = w0 /\ k = m0)
        /\ ~Queued(w0, m0) => QueuedOnce'
    BY <1>10 DEF Enqueues
  <2>2. Answered(Head(Ongoing(w0, m0))) /\ Head(Ongoing(w0, m0)).op # "OP_GET"
    BY <2>1 DEF Answered
  <2>3. /\ Paired(Tail(Ongoing(w0, m0)), posted[w0][m0], Now(w0), mode[w0] = "wait", nb[w0].cur,
                  Queued(w0, m0)')
        /\ ~Queued(w0, m0)
    BY <1>3, <1>4, <1>5, <2>2, PairedQueued
  <2>4. PairedAt(w0, m0)'
    BY <1>3, <1>6, <2>1, <2>3
  <2> QED
    BY <1>7, <2>1, <2>3, <2>4
<1>11. ASSUME NEW u \in Worker, Hands(w0, m0, u)
       PROVE  QueuedOnce' /\ \A w \in Worker, m \in Server : PairedAt(w, m)'
  <2>1. /\ Head(Ongoing(w0, m0)).op = "OP_UNLOCK"
        /\ posted[u][m0] # <<>> => posted'[u][m0] = Tail(posted[u][m0])
        /\ \A v \in Worker, k \in Server : v # u \/ k # m0 => posted'[v][k] = posted[v][k]
        /\ Queued(u, m0)
        /\ QueuedOnce' /\ ~Queued(u, m0)'
        /\ \A v \in Worker, k \in Server : v # u \/ k # m0 => (Queued(v, k)' <=> Queued(v, k))
    BY <1>11 DEF Hands
  <2>2. ~Answered(Head(Ongoing(w0, m0)))
    BY <2>1 DEF Answered
  <2>3. Paired(Ongoing(u, m0), posted[u][m0], Now(u), mode[u] = "wait", nb[u].cur, Queued(u, m0))
    BY DEF PairedAt
  <2>4. Ongoing(u, m0) \in Seq(Message) /\ posted[u][m0] \in Seq(Waiting) /\ Now(u) \in CallId
    BY LinkTypes
  <2>5. /\ Ongoing(u, m0) = <<>> /\ posted[u][m0] # <<>>
        /\ Paired(Ongoing(u, m0), Tail(posted[u][m0]), Now(u), mode[u] = "wait", nb[u].cur,
                  Queued(u, m0)')
    BY <2>1, <2>3, <2>4, PairedHanded
  <2>6. u # w0
    BY <1>3, <2>5
  <2>7. PairedAt(u, m0)'
    BY <1>3, <1>6, <2>1, <2>5, <2>6
  <2>8. PairedAt(w0, m0)'
    <3>1. Queued(w0, m0)' => Queued(w0, m0)
      BY <2>1, <2>6
    <3>2. Paired(Tail(Ongoing(w0, m0)), posted[w0][m0], Now(w0), mode[w0] = "wait", nb[w0].cur,
                 Queued(w0, m0)')
      BY <1>3, <1>4, <1>5, <2>2, <3>1, PairedDropped
    <3> QED
      BY <1>3, <1>6, <2>1, <2>6, <3>2
  <2>9. \A v \in Worker, k \in Server :
           v # w0 \/ k # m0 => (v = u /\ k = m0) \/ PairedAt(v, k)'
    BY <1>7, <2>1
  <2> QED
    BY <2>1, <2>7, <2>8, <2>9
<1> QED
  BY <1>1, <1>8, <1>9, <1>10, <1>11

LEMMA PairedStepped ==
    ASSUME TypeInv, TypeInv', UNCHANGED <<job, master>>, QueuedOnce,
           \A w \in Worker, m \in Server : PairedAt(w, m), Stepped
    PROVE  QueuedOnce' /\ \A w \in Worker, m \in Server : PairedAt(w, m)'
<1>1. CASE \E ws \in SUBSET Worker : Calm(ws)
  <2>1. PICK ws \in SUBSET Worker : Calm(ws)
    BY <1>1
  <2>2. QueuedOnce'
    BY <2>1, SameQueued DEF Calm
  <2> QED
    BY <2>1, <2>2, PairedCalm
<1>2. ASSUME NEW w \in Worker, Resumes(w)
      PROVE  QueuedOnce' /\ \A v \in Worker, m \in Server : PairedAt(v, m)'
  <2>1. QueuedOnce'
    BY <1>2, SameQueued DEF Resumes
  <2> QED
    BY <1>2, <2>1, PairedResumes
<1>3. ASSUME NEW w \in Worker, NEW ms \in SUBSET Server, NEW h \in Message, Issues(w, ms, h)
      PROVE  QueuedOnce' /\ \A v \in Worker, m \in Server : PairedAt(v, m)'
  <2>1. QueuedOnce'
    BY <1>3, SameQueued DEF Issues
  <2> QED
    BY <1>3, <2>1, PairedIssues
<1>4. ASSUME NEW m \in Server, Served(m)
      PROVE  QueuedOnce' /\ \A v \in Worker, k \in Server : PairedAt(v, k)'
  BY <1>4, PairedServed
<1> QED
  BY <1>1, <1>2, <1>3, <1>4 DEF Stepped

-----------------------------------------------------------------------------
(* Writes, fences and names, under each kind of step *)

\* Every list of a worker that stays is what it was or has lost its head.
LEMMA Shrinks ==
    ASSUME TypeInv, TypeInv', UNCHANGED <<job, master>>, QueuedOnce,
           \A w \in Worker, m \in Server : PairedAt(w, m),
           NEW m0 \in Server, Served(m0), NEW v \in Worker, NEW k \in Server
    PROVE  /\ Stays(v)
           /\ Ongoing(v, k)' = Ongoing(v, k)
              \/ (Ongoing(v, k) # <<>> /\ Ongoing(v, k)' = Tail(Ongoing(v, k)))
           /\ posted'[v][k] = posted[v][k]
              \/ (posted[v][k] # <<>> /\ posted'[v][k] = Tail(posted[v][k]))
<1>1. PICK w0 \in Worker : \/ Drops(w0, m0) \/ Replies(w0, m0) \/ Enqueues(w0, m0)
                           \/ \E u \in Worker : Hands(w0, m0, u)
  BY DEF Served
<1>2. Serves(w0, m0)
  BY <1>1 DEF Drops, Replies, Enqueues, Hands
<1>3. /\ Stays(v)
      /\ Ongoing(w0, m0) # <<>> /\ Ongoing(w0, m0)' = Tail(Ongoing(w0, m0))
      /\ v # w0 \/ k # m0 => Ongoing(v, k)' = Ongoing(v, k)
  BY <1>2 DEF Serves
<1>4. \/ Ongoing(v, k)' = Ongoing(v, k)
      \/ Ongoing(v, k) # <<>> /\ Ongoing(v, k)' = Tail(Ongoing(v, k))
  BY <1>3
<1>5. CASE Drops(w0, m0) \/ Enqueues(w0, m0)
  <2>1. posted'[v][k] = posted[v][k]
    BY <1>5 DEF Drops, Enqueues
  <2> QED
    BY <1>3, <1>4, <2>1
<1>6. CASE Replies(w0, m0)
  <2>1. /\ Answered(Head(Ongoing(w0, m0)))
        /\ posted[w0][m0] # <<>> => posted'[w0][m0] = Tail(posted[w0][m0])
        /\ v # w0 \/ k # m0 => posted'[v][k] = posted[v][k]
        /\ Queued(w0, m0)' => Queued(w0, m0)
    BY <1>6 DEF Replies, Fewer
  <2>2. /\ Ongoing(w0, m0) \in Seq(Message) /\ posted[w0][m0] \in Seq(Waiting) /\ Now(w0) \in CallId
        /\ Paired(Ongoing(w0, m0), posted[w0][m0], Now(w0), mode[w0] = "wait", nb[w0].cur,
                  Queued(w0, m0))
    BY LinkTypes DEF PairedAt
  <2>3. posted[w0][m0] # <<>>
    BY <1>3, <2>1, <2>2, PairedReplied
  <2> QED
    BY <1>3, <1>4, <2>1, <2>3
<1>7. ASSUME NEW u \in Worker, Hands(w0, m0, u)
      PROVE  \/ posted'[v][k] = posted[v][k]
             \/ posted[v][k] # <<>> /\ posted'[v][k] = Tail(posted[v][k])
  <2>1. /\ posted[u][m0] # <<>> => posted'[u][m0] = Tail(posted[u][m0])
        /\ v # u \/ k # m0 => posted'[v][k] = posted[v][k]
        /\ Queued(u, m0)
    BY <1>7 DEF Hands
  <2>2. Paired(Ongoing(u, m0), posted[u][m0], Now(u), mode[u] = "wait", nb[u].cur, Queued(u, m0))
    BY DEF PairedAt
  <2>3. posted[u][m0] # <<>>
    BY <2>1, <2>2 DEF Paired
  <2> QED
    BY <2>1, <2>3
<1> QED
  BY <1>1, <1>3, <1>4, <1>5, <1>6, <1>7

\* A worker that stays is in the same call, and given the same handles.
LEMMA Staying ==
    ASSUME NEW w \in Worker, Stays(w), UNCHANGED <<job, master>>
    PROVE  /\ (Fencing(w)' <=> Fencing(w)) /\ (At(w, "sync")' <=> At(w, "sync"))
           /\ Now(w)' = Now(w) /\ \A x : Given(w, x)' = Given(w, x)
BY DEF Stays, Fencing, At, Active, Cur, Stage, Now, Given

LEMMA FlushedTail ==
    ASSUME NEW q \in Seq(Message), q # <<>>, NEW f, NEW fences, NEW now, NEW synced,
           Flushed(q, f, fences, now, synced)
    PROVE  Flushed(Tail(q), f, fences, now, synced)
<1>1. /\ Tail(q) \in Seq(Message)
      /\ \A i \in DOMAIN Tail(q) : i + 1 \in DOMAIN q /\ Tail(q)[i] = q[i + 1]
      /\ \A i \in DOMAIN q : i # 1 => i - 1 \in DOMAIN Tail(q) /\ Tail(q)[i - 1] = q[i]
  BY TailFacts
<1>2. \A i \in DOMAIN Tail(q) : i \in Nat /\ i >= 1
  BY <1>1
<1>3. ASSUME fences, NEW i \in DOMAIN Tail(q), IsWrite(Tail(q)[i])
      PROVE  \E k \in DOMAIN Tail(q) : i < k /\ Tail(q)[k].op = "OP_FENCE" /\ Tail(q)[k].call = now
  <2>1. PICK k \in DOMAIN q : i + 1 < k /\ q[k].op = "OP_FENCE" /\ q[k].call = now
    BY <1>1, <1>3 DEF Flushed
  <2>2. k \in Nat /\ k # 1 /\ i < k - 1
    BY <1>2, <2>1
  <2> QED
    BY <1>1, <2>1, <2>2
<1> QED
  BY <1>1, <1>3 DEF Flushed

LEMMA FlushedStepped ==
    ASSUME TypeInv, TypeInv', UNCHANGED <<job, master>>, QueuedOnce,
           \A w \in Worker, m \in Server : PairedAt(w, m) /\ FlushedAt(w, m), Stepped
    PROVE  \A w \in Worker, m \in Server : FlushedAt(w, m)'
<1> TAKE v \in Worker, m \in Server
<1>0. FlushedAt(v, m) /\ PairedAt(v, m) /\ Ongoing(v, m) \in Seq(Message)
      /\ posted[v][m] \in Seq(Waiting) /\ Now(v) \in CallId /\ Now(v)' \in CallId
  BY LinkTypes, NowNext
<1>1. ASSUME Stays(v), Ongoing(v, m)' = Ongoing(v, m)
             \/ (Ongoing(v, m) # <<>> /\ Ongoing(v, m)' = Tail(Ongoing(v, m)))
      PROVE  FlushedAt(v, m)'
  <2>1. fence'[v][m] = fence[v][m] /\ (Fencing(v)' <=> Fencing(v)) /\ Now(v)' = Now(v)
        /\ (At(v, "sync")' <=> At(v, "sync"))
    BY <1>1, Staying DEF Stays
  <2>2. Flushed(Ongoing(v, m), fence[v][m], Fencing(v), Now(v), At(v, "sync"))
    BY <1>0 DEF FlushedAt
  <2>3. Flushed(Ongoing(v, m)', fence[v][m], Fencing(v), Now(v), At(v, "sync"))
    BY <1>0, <1>1, <2>2, FlushedTail
  <2> QED
    BY <2>1, <2>3 DEF FlushedAt, Flushed
<1>2. ASSUME NEW ws \in SUBSET Worker, Calm(ws) PROVE FlushedAt(v, m)'
  <2>1. Ongoing(v, m)' = Ongoing(v, m)
    BY <1>2 DEF Calm, Linked
  <2>2. CASE v \notin ws
    BY <1>1, <1>2, <2>1, <2>2 DEF Calm
  <2>3. CASE v \in ws
    <3>1. mode'[v] # "wait" /\ fence'[v][m] = fence[v][m]
          /\ (At(v, "sync")' => ~fence[v][m])
      BY <1>2, <2>3 DEF Calm
    <3>2. ~Fencing(v)'
      BY <3>1 DEF Fencing
    <3> QED
      BY <1>0, <2>1, <3>1, <3>2 DEF FlushedAt, Flushed
  <2> QED
    BY <2>2, <2>3
<1>3. ASSUME NEW w \in Worker, NEW ms \in SUBSET Server, NEW h \in Message, Issues(w, ms, h)
      PROVE  FlushedAt(v, m)'
  <2>1. CASE v # w
    BY <1>1, <1>3, <2>1 DEF Issues, Linked
  <2>2. CASE v = w
    <3>1. /\ ~At(v, "sync")' /\ h.call = Now(v)
          /\ IF m \in ms /\ IsWrite(h) THEN fence'[v][m] ELSE fence'[v][m] = fence[v][m]
          /\ Fencing(v)' => h.op = "OP_FENCE" /\ ms = Flagged(v)
          /\ (mode'[v] = "wait" /\ Now(v)' = Now(v)) \/ mode'[v] = "run"
      BY <1>3, <2>2 DEF Issues
    <3>2. \A i \in DOMAIN Ongoing(v, m) : IsWrite(Ongoing(v, m)[i]) => fence[v][m]
      BY <1>0 DEF FlushedAt, Flushed
    <3>3. Fencing(v)' => Now(v)' = Now(v)
      BY <3>1 DEF Fencing
    <3>4. CASE m \notin ms
      <4>1. Ongoing(v, m)' = Ongoing(v, m)
        BY <1>3, <2>2, <3>4 DEF Issues, Linked
      <4>2. Fencing(v)' => ~fence[v][m]
        BY <3>1, <3>4 DEF Flagged
      <4> QED
        BY <3>1, <3>2, <3>4, <4>1, <4>2 DEF FlushedAt, Flushed
    <3>5. CASE m \in ms
      <4>1. Ongoing(v, m)' = Append(Ongoing(v, m), h)
        BY <1>3, <2>2, <3>5 DEF Issues
      <4>2. /\ \A i \in DOMAIN Ongoing(v, m) : i < Len(Ongoing(v, m)) + 1
                                               /\ Ongoing(v, m)'[i] = Ongoing(v, m)[i]
            /\ Ongoing(v, m)'[Len(Ongoing(v, m)) + 1] = h
            /\ Len(Ongoing(v, m)) + 1 \in DOMAIN Ongoing(v, m)'
            /\ \A i \in DOMAIN Ongoing(v, m)' : i \in DOMAIN Ongoing(v, m) \/ Ongoing(v, m)'[i] = h
        BY <1>0, <4>1, AppendFacts
      <4>3. \A i \in DOMAIN Ongoing(v, m)' : IsWrite(Ongoing(v, m)'[i]) => fence'[v][m]
        BY <3>1, <3>2, <3>5, <4>2
      <4>4. ASSUME Fencing(v)', NEW i \in DOMAIN Ongoing(v, m)', IsWrite(Ongoing(v, m)'[i])
            PROVE  \E k \in DOMAIN Ongoing(v, m)' :
                      i < k /\ Ongoing(v, m)'[k].op = "OP_FENCE" /\ Ongoing(v, m)'[k].call = Now(v)'
        <5>1. h.op = "OP_FENCE" /\ h.call = Now(v)'
          BY <3>1, <3>3, <4>4
        <5>2. i \in DOMAIN Ongoing(v, m)
          BY <4>2, <4>4, <5>1 DEF IsWrite
        <5> QED
          BY <4>2, <5>1, <5>2
      <4> QED
        BY <3>1, <4>3, <4>4 DEF FlushedAt, Flushed
    <3> QED
      BY <3>4, <3>5
  <2> QED
    BY <2>1, <2>2
<1>4. ASSUME NEW w \in Worker, Resumes(w) PROVE FlushedAt(v, m)'
  <2>1. CASE v # w
    BY <1>1, <1>4, <2>1 DEF Resumes, Linked
  <2>2. CASE v = w
    <3>1. /\ Ongoing(v, m)' = Ongoing(v, m)
          /\ IF Fencing(v) THEN ~fence'[v][m] ELSE fence'[v][m] = fence[v][m]
          /\ At(v, "sync")' => Fencing(v)
          /\ mode'[v] = "run" /\ Before(Now(v), Now(v)') /\ ~Pending(v, nb[v].cur)
      BY <1>4, <2>2 DEF Resumes, Linked
    <3>2. ~Fencing(v)'
      BY <3>1 DEF Fencing
    <3>3. \A i \in DOMAIN posted[v][m] : posted[v][m][i].nb # nb[v].cur
      BY <3>1, NotPending
    <3>4. \A k \in DOMAIN Ongoing(v, m) : Ongoing(v, m)[k].call = Now(v) => ~Answered(Ongoing(v, m)[k])
      <4>1. Paired(Ongoing(v, m), posted[v][m], Now(v), mode[v] = "wait", nb[v].cur, Queued(v, m))
        BY <1>0 DEF PairedAt
      <4> QED
        BY <1>0, <3>3, <4>1, PairedOver
    <3>5. Fencing(v) => \A i \in DOMAIN Ongoing(v, m) : ~IsWrite(Ongoing(v, m)[i])
      BY <1>0, <3>4 DEF FlushedAt, Flushed, Answered
    <3> QED
      BY <1>0, <3>1, <3>2, <3>5 DEF FlushedAt, Flushed
  <2> QED
    BY <2>1, <2>2
<1>5. ASSUME NEW k \in Server, Served(k) PROVE FlushedAt(v, m)'
  BY <1>1, <1>5, Shrinks
<1> QED
  BY <1>2, <1>3, <1>4, <1>5 DEF Stepped

LEMMA NamedStepped ==
    ASSUME TypeInv, TypeInv', UNCHANGED <<job, master>>, QueuedOnce,
           \A w \in Worker, m \in Server : PairedAt(w, m) /\ NamedAt(w, m), Stepped
    PROVE  \A w \in Worker, m \in Server : NamedAt(w, m)'
<1> SUFFICES ASSUME NEW v \in Worker, NEW m \in Server, NEW x \in Name, NEW c \in Nat,
                    Latest(v, x, c)'
             PROVE  /\ \A i \in DOMAIN posted'[v][m] :
                          posted'[v][m][i].call = <<c, 1>> => posted'[v][m][i].nb = hdls'[v][x]
                    /\ \A i \in DOMAIN Ongoing(v, m)' :
                          Ongoing(v, m)'[i].call = <<c, 1>> => Ongoing(v, m)'[i].nb = hdls'[v][x]
  BY SameHosts DEF NamedAt
<1> DEFINE q == Ongoing(v, m)
           p == posted[v][m]
           Right == hdls'[v][x]
<1>0. /\ q \in Seq(Message) /\ p \in Seq(Waiting) /\ Now(v) \in CallId
      /\ NamedAt(v, m) /\ PairedAt(v, m) /\ pc[v] \in Nat
  <2>1. pc[v] \in Nat
    BY DEF TypeInv, ControlOK
  <2> QED
    BY <2>1, LinkTypes
\* The same call has the handle.
<1>1. ASSUME Given(v, x)' = Given(v, x), hdls'[v][x] = hdls[v][x]
      PROVE  /\ Latest(v, x, c)
             /\ \A i \in DOMAIN p : p[i].call = <<c, 1>> => p[i].nb = hdls'[v][x]
             /\ \A i \in DOMAIN q : q[i].call = <<c, 1>> => q[i].nb = hdls'[v][x]
  <2>1. Latest(v, x, c)
    BY <1>1 DEF Latest
  <2> QED
    BY <1>0, <1>1, <2>1 DEF NamedAt
<1>2. ASSUME Stays(v),
             Ongoing(v, m)' = q \/ (q # <<>> /\ Ongoing(v, m)' = Tail(q)),
             posted'[v][m] = p \/ (p # <<>> /\ posted'[v][m] = Tail(p))
      PROVE  /\ \A i \in DOMAIN posted'[v][m] :
                   posted'[v][m][i].call = <<c, 1>> => posted'[v][m][i].nb = hdls'[v][x]
             /\ \A i \in DOMAIN Ongoing(v, m)' :
                   Ongoing(v, m)'[i].call = <<c, 1>> => Ongoing(v, m)'[i].nb = hdls'[v][x]
  <2>1. Given(v, x)' = Given(v, x) /\ hdls'[v][x] = hdls[v][x]
    BY <1>2, Staying DEF Stays
  <2>2. /\ \A i \in DOMAIN p : p[i].call = <<c, 1>> => p[i].nb = hdls'[v][x]
        /\ \A i \in DOMAIN q : q[i].call = <<c, 1>> => q[i].nb = hdls'[v][x]
    BY <1>1, <2>1
  <2> HIDE DEF p, q
  <2>3. q # <<>> => \A i \in DOMAIN Tail(q) : i + 1 \in DOMAIN q /\ Tail(q)[i] = q[i + 1]
    BY <1>0, TailFacts
  <2>4. p # <<>> => \A i \in DOMAIN Tail(p) : i + 1 \in DOMAIN p /\ Tail(p)[i] = p[i + 1]
    BY <1>0, TailFacts
  <2>5. \A i \in DOMAIN posted'[v][m] :
           posted'[v][m][i].call = <<c, 1>> => posted'[v][m][i].nb = hdls'[v][x]
    BY <1>2, <2>2, <2>4
  <2>6. \A i \in DOMAIN Ongoing(v, m)' :
           Ongoing(v, m)'[i].call = <<c, 1>> => Ongoing(v, m)'[i].nb = hdls'[v][x]
    BY <1>2, <2>2, <2>3
  <2> QED
    BY <2>5, <2>6
\* A call just named has nothing under way from before.
<1>3. ASSUME mode[v] # "wait", Renamed(v, x)
      PROVE  /\ c = pc[v] /\ Now(v) = <<c, 1>> /\ hdls'[v][x] = nb'[v].cur
             /\ \A i \in DOMAIN p : p[i].call # <<c, 1>>
             /\ \A i \in DOMAIN q : q[i].call # <<c, 1>>
  <2>1. c = pc[v]
    <3>1. c <= pc[v] /\ pc[v] <= c
      BY <1>3 DEF Renamed, Latest
    <3> QED
      BY <1>0, <3>1
  <2>2. Now(v) = <<c, 1>>
    BY <1>3, <2>1 DEF Renamed, Now
  <2>3. (\A i \in DOMAIN p : Before(p[i].call, Now(v))) /\ (\A i \in DOMAIN q : Before(q[i].call, Now(v)))
    BY <1>0, <1>3 DEF PairedAt, Paired
  <2>4. ~Before(Now(v), Now(v))
    BY <1>0, BeforeFacts
  <2> QED
    BY <1>3, <2>1, <2>2, <2>3, <2>4 DEF Renamed
<1>4. ASSUME NEW ws \in SUBSET Worker, Calm(ws)
      PROVE  /\ \A i \in DOMAIN p : p[i].call = <<c, 1>> => p[i].nb = hdls'[v][x]
             /\ \A i \in DOMAIN q : q[i].call = <<c, 1>> => q[i].nb = hdls'[v][x]
  <2>1. CASE v \notin ws
    <3>1. Given(v, x)' = Given(v, x) /\ hdls'[v][x] = hdls[v][x]
      BY <1>4, <2>1, Staying DEF Calm, Stays
    <3> QED
      BY <1>1, <3>1
  <2>2. CASE v \in ws
    <3>1. mode[v] # "wait" /\ Renames(v)
      BY <1>4, <2>2 DEF Calm
    <3> QED
      BY <1>1, <1>3, <3>1 DEF Renames
  <2> QED
    BY <2>1, <2>2
<1>5. ASSUME NEW w \in Worker, NEW ms \in SUBSET Server, NEW h \in Message, Issues(w, ms, h)
      PROVE  /\ \A i \in DOMAIN posted'[v][m] :
                   posted'[v][m][i].call = <<c, 1>> => posted'[v][m][i].nb = hdls'[v][x]
             /\ \A i \in DOMAIN Ongoing(v, m)' :
                   Ongoing(v, m)'[i].call = <<c, 1>> => Ongoing(v, m)'[i].nb = hdls'[v][x]
  <2>1. CASE v # w
    BY <1>2, <1>5, <2>1 DEF Issues, Linked
  <2>2. CASE v = w
    <3>1. mode[v] = "run" /\ Renames(v) /\ h.call = Now(v) /\ h.nb = nb'[v].cur
      BY <1>5, <2>2 DEF Issues
    <3>2. /\ \A i \in DOMAIN p : p[i].call = <<c, 1>> => p[i].nb = hdls'[v][x]
          /\ \A i \in DOMAIN q : q[i].call = <<c, 1>> => q[i].nb = hdls'[v][x]
      BY <1>1, <1>3, <3>1 DEF Renames
    \* what is new
    <3>3. Now(v) = <<c, 1>> => nb'[v].cur = hdls'[v][x]
      <4>1. CASE Renamed(v, x)
        BY <1>3, <3>1, <4>1
      <4>2. CASE Given(v, x)' = Given(v, x) /\ hdls'[v][x] = hdls[v][x]
        <5>1. c \in Given(v, x)
          BY <1>1, <4>2 DEF Latest
        <5>2. c < pc[v]
          BY <3>1, <5>1 DEF Given
        <5> QED
          BY <1>0, <5>2 DEF Now
      <4> QED
        BY <3>1, <4>1, <4>2 DEF Renames
    <3>4. CASE m \notin ms
      BY <1>5, <2>2, <3>2, <3>4 DEF Issues, Linked
    <3>5. CASE m \in ms
      <4> DEFINE r == [call |-> Now(v), nb |-> nb'[v].cur]
      <4>1. /\ Ongoing(v, m)' = Append(q, h)
            /\ posted'[v][m] = IF Answered(h) THEN Append(p, r) ELSE p
        BY <1>5, <2>2, <3>5 DEF Issues
      <4>2. r \in Waiting /\ r.call = Now(v) /\ r.nb = nb'[v].cur
        BY <1>0, NowNext DEF Waiting
      <4> HIDE DEF r, p, q
      <4>3. /\ \A i \in DOMAIN p : Append(p, r)[i] = p[i]
            /\ \A i \in DOMAIN Append(p, r) : i \in DOMAIN p \/ Append(p, r)[i] = r
        BY <1>0, <4>2, AppendFacts
      <4>4. /\ \A i \in DOMAIN q : Append(q, h)[i] = q[i]
            /\ \A i \in DOMAIN Append(q, h) : i \in DOMAIN q \/ Append(q, h)[i] = h
        BY <1>0, AppendFacts
      <4>5. \A i \in DOMAIN Append(p, r) :
               Append(p, r)[i].call = <<c, 1>> => Append(p, r)[i].nb = hdls'[v][x]
        BY <3>2, <3>3, <4>2, <4>3
      <4>6. \A i \in DOMAIN Append(q, h) :
               Append(q, h)[i].call = <<c, 1>> => Append(q, h)[i].nb = hdls'[v][x]
        BY <3>1, <3>2, <3>3, <4>4
      <4> QED
        BY <3>2, <4>1, <4>5, <4>6
    <3> QED
      BY <3>4, <3>5
  <2> QED
    BY <2>1, <2>2
<1>6. ASSUME NEW w \in Worker, Resumes(w)
      PROVE  /\ \A i \in DOMAIN p : p[i].call = <<c, 1>> => p[i].nb = hdls'[v][x]
             /\ \A i \in DOMAIN q : q[i].call = <<c, 1>> => q[i].nb = hdls'[v][x]
  <2>1. Given(v, x)' = Given(v, x) /\ hdls'[v][x] = hdls[v][x]
    BY <1>6, Staying DEF Resumes, Stays
  <2> QED
    BY <1>1, <2>1
<1>7. CASE \E ws \in SUBSET Worker : Calm(ws)
  BY <1>4, <1>7 DEF Calm, Linked
<1>8. CASE \E w \in Worker : Resumes(w)
  BY <1>6, <1>8 DEF Resumes, Linked
<1>9. ASSUME NEW k \in Server, Served(k)
      PROVE  /\ \A i \in DOMAIN posted'[v][m] :
                   posted'[v][m][i].call = <<c, 1>> => posted'[v][m][i].nb = hdls'[v][x]
             /\ \A i \in DOMAIN Ongoing(v, m)' :
                   Ongoing(v, m)'[i].call = <<c, 1>> => Ongoing(v, m)'[i].nb = hdls'[v][x]
  <2>1. /\ Stays(v)
        /\ Ongoing(v, m)' = q \/ (q # <<>> /\ Ongoing(v, m)' = Tail(q))
        /\ posted'[v][m] = p \/ (p # <<>> /\ posted'[v][m] = Tail(p))
    BY <1>9, Shrinks
  <2> QED
    BY <1>2, <2>1
<1> QED
  BY <1>5, <1>7, <1>8, <1>9 DEF Stepped

-----------------------------------------------------------------------------
(* Steps of workers *)

\* A call of one part
LEMMA Singles ==
    /\ \A op \in {"put", "acc", "get", "fadd", "swap", "wait", "test", "wait_all", "fence",
                  "fence_proc", "lock", "unlock"} :
          Stages(op) = <<op>> /\ Len(Stages(op)) = 1 /\ Stages(op)[1] = op
    /\ \A op \in Issuing : Stages(op) = <<op>> /\ Len(Stages(op)) = 1 /\ Stages(op)[1] = op
BY DEF Stages, Issuing

\* A worker enters a barrier from a fence.
LEMMA Arriving ==
    ASSUME JobOK, ControlOK, NEW ws \in SUBSET Worker, \A w \in ws : Active(w),
           Advance(ws), UNCHANGED <<job, master>>, NEW w \in ws, At(w, "sync")'
    PROVE  Stage(w) = "fence" /\ Cur(w).op \notin Issuing
<1>1. /\ pc'[w] = IF stage[w] = Len(Stages(Cur(w).op)) THEN pc[w] + 1 ELSE pc[w]
      /\ stage'[w] = IF stage[w] = Len(Stages(Cur(w).op)) THEN 1 ELSE stage[w] + 1
  BY DEF Advance
<1>2. /\ pc[w] \in Nat \ {0} /\ Cur(w) \in Call /\ stage[w] \in 1 .. Len(Stages(Cur(w).op))
      /\ Len(Stages(Cur(w).op)) \in 1 .. 7
  BY CallFacts
<1>3. Active(w)' /\ Stage(w)' = "sync"
  BY DEF At
<1>4. stage[w] # Len(Stages(Cur(w).op))
  <2> SUFFICES ASSUME stage[w] = Len(Stages(Cur(w).op)) PROVE FALSE
    OBVIOUS
  <2>1. pc'[w] = pc[w] + 1 /\ stage'[w] = 1
    BY <1>1
  <2>2. pc'[w] \in DOMAIN job.calls[w]
    BY <1>2, <1>3, <2>1, Hosts DEF Active
  <2>3. Cur(w)' \in Call
    BY <2>2, Hosts DEF Cur
  <2> QED
    BY <1>3, <2>1, <2>3, StagesFacts DEF Stage
<1>5. Cur(w)' = Cur(w) /\ stage'[w] = stage[w] + 1
  BY <1>1, <1>4 DEF Cur
<1>6. Stages(Cur(w).op)[stage[w] + 1] = "sync"
  BY <1>3, <1>5 DEF Stage
<1>7. stage[w] + 1 \in 1 .. Len(Stages(Cur(w).op)) /\ stage[w] + 1 > 1 /\ (stage[w] + 1) - 1 = stage[w]
  BY <1>2, <1>4
<1>8. Stages(Cur(w).op)[stage[w]] = "fence"
  BY <1>2, <1>6, <1>7, StagesFacts
<1>9. Cur(w).op \notin Issuing
  <2> SUFFICES ASSUME Cur(w).op \in Issuing PROVE FALSE
    OBVIOUS
  <2>1. Len(Stages(Cur(w).op)) = 1
    BY Singles
  <2>2. stage[w] \in 1 .. Len(Stages(Cur(w).op))
    BY <1>2
  <2> QED
    BY <1>4, <2>1, <2>2
<1> QED
  BY <1>8, <1>9 DEF Stage

\* A worker that goes on has been given the handles that it had, if its call
\* gives none or has given one.
LEMMA Passing ==
    ASSUME JobOK, ControlOK, NEW ws \in SUBSET Worker, \A w \in ws : Active(w),
           Advance(ws), UNCHANGED <<job, master>>, NEW w \in ws, NEW x \in Name,
           \/ Cur(w).op \notin Issuing
           \/ mode[w] = "acc"
           \/ mode[w] = "wait"
           \/ Cur(w).hdl # x
    PROVE  Given(w, x)' = Given(w, x)
<1>1. /\ pc'[w] = IF stage[w] = Len(Stages(Cur(w).op)) THEN pc[w] + 1 ELSE pc[w]
      /\ mode'[w] = "run"
  BY DEF Advance
<1>2. /\ pc[w] \in Nat \ {0} /\ Cur(w) \in Call /\ stage[w] \in 1 .. Len(Stages(Cur(w).op))
      /\ Cur(w) = job.calls[w][pc[w]]
  BY CallFacts DEF Cur
<1>3. mode[w] = "wait" /\ Cur(w).op \in Issuing => Cur(w).hdl # x
  BY NameAssumption DEF ControlOK
<1>4. mode[w] = "acc" => Cur(w).op \in Issuing
  BY DEF ControlOK, Issuing
<1>5. Cur(w).op \in Issuing => pc'[w] = pc[w] + 1
  <2>1. Cur(w).op \in Issuing => stage[w] = Len(Stages(Cur(w).op))
    <3> SUFFICES ASSUME Cur(w).op \in Issuing PROVE stage[w] = Len(Stages(Cur(w).op))
      OBVIOUS
    <3>1. Len(Stages(Cur(w).op)) = 1
      BY Singles
    <3>2. stage[w] \in 1 .. Len(Stages(Cur(w).op))
      BY <1>2
    <3> QED
      BY <3>1, <3>2
  <2> QED
    BY <1>1, <2>1
<1> DEFINE Gives(i) == job.calls[w][i].op \in Issuing /\ job.calls[w][i].hdl = x
<1>6. Given(w, x) = {i \in 1 .. pc[w] : (i < pc[w] \/ mode[w] = "acc") /\ Gives(i)}
  BY DEF Given
<1>7. Given(w, x)' = {i \in 1 .. pc'[w] : i < pc'[w] /\ Gives(i)}
  BY <1>1 DEF Given
<1>8. CASE pc'[w] = pc[w]
  <2>1. mode[w] # "acc"
    BY <1>1, <1>2, <1>4, <1>5, <1>8
  <2> HIDE DEF Gives
  <2> QED
    BY <1>6, <1>7, <1>8, <2>1
<1>9. CASE pc'[w] = pc[w] + 1
  <2>1. Gives(pc[w]) <=> Gives(pc[w]) /\ mode[w] = "acc"
    BY <1>2, <1>3
  <2> HIDE DEF Gives
  <2>2. \A i \in 1 .. pc[w] + 1 :
           i < pc[w] + 1 /\ Gives(i) <=> i \in 1 .. pc[w] /\ (i < pc[w] \/ mode[w] = "acc") /\ Gives(i)
    BY <1>2, <2>1
  <2> QED
    BY <1>2, <1>6, <1>7, <1>9, <2>2
<1> QED
  BY <1>1, <1>8, <1>9

\* A worker that goes on, or starts an accumulate, after its call has taken a
\* handle and returns it in the variable x
LEMMA Naming ==
    ASSUME JobOK, ControlOK, HandlesOK, NEW w \in Worker, UNCHANGED <<job, master>>,
           Calling(w, Issuing), Advance({w}) \/ Turn(w, "acc"),
           NEW lists, TakeHandle(w, lists, Cur(w).hdl)
    PROVE  Renames(w)
<1>1. Active(w) /\ mode[w] = "run" /\ Cur(w).op \in Issuing
  BY DEF Calling, At
<1>2. /\ pc[w] \in Nat \ {0} /\ Cur(w) \in Call /\ stage[w] \in 1 .. Len(Stages(Cur(w).op))
      /\ Cur(w) = job.calls[w][pc[w]]
  BY <1>1, CallFacts DEF Cur
<1>3. stage[w] = 1 /\ Len(Stages(Cur(w).op)) = 1
  <2>1. Len(Stages(Cur(w).op)) = 1
    BY <1>1, Singles
  <2> QED
    BY <1>2, <2>1
<1>4. \/ pc'[w] = pc[w] + 1 /\ mode'[w] = "run"
      \/ pc'[w] = pc[w] /\ mode'[w] = "acc"
  <2>1. CASE Advance({w})
    BY <1>3, <2>1 DEF Advance
  <2>2. CASE Turn(w, "acc")
    BY <2>2 DEF Turn, ControlOK
  <2> QED
    BY <2>1, <2>2
<1>5. /\ nb'[w].cur = Taken(w)
      /\ \A y \in Name : hdls'[w][y] = IF y = Cur(w).hdl THEN Taken(w) ELSE hdls[w][y]
  BY Taking
<1> SUFFICES ASSUME NEW x \in Name
             PROVE  \/ Given(w, x)' = Given(w, x) /\ hdls'[w][x] = hdls[w][x]
                    \/ Renamed(w, x)
  BY DEF Renames
<1> DEFINE Gives(i) == job.calls[w][i].op \in Issuing /\ job.calls[w][i].hdl = x
<1>6. Given(w, x) = {i \in 1 .. pc[w] : i < pc[w] /\ Gives(i)}
  BY <1>1 DEF Given
<1>7. Given(w, x)' = {i \in 1 .. pc'[w] : (i < pc'[w] \/ mode'[w] = "acc") /\ Gives(i)}
  BY DEF Given
<1>8. CASE Cur(w).hdl = x
  <2>1. Gives(pc[w])
    BY <1>1, <1>2, <1>8
  <2> HIDE DEF Gives
  <2>2. pc[w] \in Given(w, x)' /\ \A k \in Given(w, x)' : k <= pc[w]
    BY <1>2, <1>4, <1>7, <2>1
  <2> QED
    BY <1>3, <1>5, <1>8, <2>2 DEF Renamed
<1>9. CASE Cur(w).hdl # x
  <2>1. ~Gives(pc[w])
    BY <1>2, <1>9
  <2> HIDE DEF Gives
  <2>2. Given(w, x)' = Given(w, x)
    <3>1. \A i : i \in Given(w, x)' <=> i \in Given(w, x)
      BY <1>2, <1>4, <1>6, <1>7, <2>1
    <3>2. Given(w, x) \subseteq Nat /\ Given(w, x)' \subseteq Nat
      BY <1>6, <1>7
    <3> QED
      BY <3>1
  <2> QED
    BY <1>5, <1>9, <2>2
<1> QED
  BY <1>8, <1>9

LEMMA SameLinked ==
    ASSUME UNCHANGED <<job, master, chan, posted>>, \A m \in Server : srv'[m] = srv[m]
    PROVE  \A w \in Worker, m \in Server : Linked(w, m)
BY SameOngoing DEF Linked

\* The workers ws go on, and nothing else moves that matters here.
LEMMA Moving ==
    ASSUME JobOK, ControlOK, NEW ws \in SUBSET Worker,
           \A w \in ws : /\ Active(w) /\ mode[w] # "wait"
                         /\ Cur(w).op \notin Issuing \/ mode[w] = "acc"
                         /\ Stage(w) = "fence" => Flagged(w) = {},
           Advance(ws), UNCHANGED <<job, master, hdls, chan, posted, fence, lq>>,
           \A m \in Server : srv'[m] = srv[m], \A w \in Worker \ ws : srv'[w] = srv[w],
           \A w \in Worker \ ws : nb'[w].cur = nb[w].cur
    PROVE  ControlOK' /\ Stepped
<1>1. /\ ControlOK'
      /\ \A w \in Worker \ ws : pc'[w] = pc[w] /\ stage'[w] = stage[w] /\ mode'[w] = mode[w]
      /\ \A w \in ws : Before(Now(w), Now(w)') /\ mode'[w] = "run"
  BY Advancing
<1>2. \A w \in Worker, m \in Server : Linked(w, m)
  BY SameLinked
<1>3. \A w \in Worker \ ws : Stays(w)
  BY <1>1 DEF Stays
<1>4. ASSUME NEW w \in ws
      PROVE  /\ mode[w] # "wait" /\ mode'[w] # "wait"
             /\ Now(w)' = Now(w) \/ Before(Now(w), Now(w)')
             /\ \A m \in Server : fence'[w][m] = fence[w][m]
             /\ At(w, "sync")' => \A m \in Server : ~fence[w][m]
             /\ Renames(w)
  <2>1. mode[w] # "wait" /\ mode'[w] # "wait" /\ Before(Now(w), Now(w)')
    BY <1>1
  <2>2. ASSUME At(w, "sync")' PROVE \A m \in Server : ~fence[w][m]
    <3>1. Stage(w) = "fence"
      BY <2>2, Arriving
    <3> QED
      BY <3>1 DEF Flagged
  <2>3. Renames(w)
    <3>1. Cur(w).op \notin Issuing \/ mode[w] = "acc"
      OBVIOUS
    <3>2. \A x \in Name : Given(w, x)' = Given(w, x)
      BY <3>1, Passing
    <3> QED
      BY <3>2 DEF Renames
  <2> QED
    BY <2>1, <2>2, <2>3
<1>5. Calm(ws)
  BY <1>2, <1>3, <1>4 DEF Calm
<1> QED
  BY <1>1, <1>5 DEF Stepped

\* A direct put, get or accumulate takes its handle.
LEMMA MovingDirect ==
    ASSUME JobOK, ControlOK, HandlesOK, NEW w \in Worker, Calling(w, Issuing),
           NEW lists, TakeHandle(w, lists, Cur(w).hdl),
           \/ Advance({w})
           \/ Turn(w, "acc") /\ srv'[w] # <<>> /\ Cur(w).op = "acc",
           UNCHANGED <<job, master, chan, posted, fence, lq>>,
           \A m \in Server : srv'[m] = srv[m], \A v \in Worker \ {w} : srv'[v] = srv[v]
    PROVE  ControlOK' /\ HandlesOK' /\ Stepped
<1>1. Active(w) /\ mode[w] = "run" /\ Cur(w).op \in Issuing /\ Stage(w) = Cur(w).op
  BY DEF Calling, At
<1>2. /\ HandlesOK' /\ \A v \in Worker \ {w} : nb'[v] = nb[v] /\ hdls'[v] = hdls[v]
  BY Taking
<1>3. /\ ControlOK' /\ mode'[w] \in {"run", "acc"}
      /\ \A v \in Worker \ {w} : pc'[v] = pc[v] /\ stage'[v] = stage[v] /\ mode'[v] = mode[v]
      /\ Now(w)' = Now(w) \/ Before(Now(w), Now(w)')
      /\ ~At(w, "sync")'
  <2>1. CASE Advance({w})
    <3>1. ~At(w, "sync")'
      BY <1>1, <2>1, Arriving
    <3>2. /\ ControlOK'
          /\ \A v \in Worker \ {w} : pc'[v] = pc[v] /\ stage'[v] = stage[v] /\ mode'[v] = mode[v]
          /\ Before(Now(w), Now(w)') /\ mode'[w] = "run"
      BY <1>1, <2>1, Advancing
    <3> QED
      BY <3>1, <3>2
  <2>2. CASE Turn(w, "acc") /\ srv'[w] # <<>> /\ Cur(w).op = "acc"
    <3>1. /\ ControlOK' /\ \A v \in Worker : pc'[v] = pc[v] /\ stage'[v] = stage[v]
          /\ \A v \in Worker \ {w} : mode'[v] = mode[v]
          /\ mode'[w] = "acc"
      BY <1>1, <2>2, Turning
    <3> QED
      BY <3>1 DEF Now, At
  <2> QED
    BY <2>1, <2>2
<1>4. \A v \in Worker, m \in Server : Linked(v, m)
  BY SameLinked
<1>5. Renames(w)
  BY Naming
<1>6. Calm({w})
  BY <1>1, <1>2, <1>3, <1>4, <1>5 DEF Calm, Stays
<1> QED
  BY <1>2, <1>3, <1>6 DEF Stepped

\* A call sends h to the masters ms.
LEMMA Requesting ==
    ASSUME JobOK, ControlOK, HandlesOK, LinksOK, MemoryOK, NEW w \in Worker, Active(w),
           mode[w] = "run", NEW ms \in SUBSET Server, NEW h \in Message,
           \A m \in ms : Sensible(h, m), h.call = Now(w), h.nb = Taken(w),
           NEW x, TakeHandle(w, TRUE, x), Send(w, ms, h),
           \/ Answered(h) /\ Prepost(w, ms)
           \/ ~Answered(h) /\ posted' = posted,
           \/ /\ Turn(w, "wait") /\ x = Blocking
              /\ Cur(w).op \in Issuing => Cur(w).hdl = Blocking
           \/ /\ Advance({w}) /\ x = Cur(w).hdl /\ Calling(w, Issuing)
              /\ h.op \in {"OP_PUT", "OP_ACC", "OP_GET"},
           \A m \in Server : IF m \in ms /\ IsWrite(h) THEN fence'[w][m]
                             ELSE fence'[w][m] = fence[w][m],
           \A v \in Worker \ {w} : fence'[v] = fence[v],
           Stage(w) = "fence" => h.op = "OP_FENCE" /\ ms = Flagged(w),
           UNCHANGED <<job, master, lq, srv>>
    PROVE  ControlOK' /\ HandlesOK' /\ LinksOK' /\ Stepped
<1>1. /\ HandlesOK' /\ Taken(w) \in Handle /\ nb'[w].cur = Taken(w)
      /\ \A v \in Worker \ {w} : nb'[v] = nb[v] /\ hdls'[v] = hdls[v]
      /\ \A y \in Name : hdls'[w][y] = IF y = x THEN Taken(w) ELSE hdls[w][y]
  BY Taking
<1>2. /\ ChanOK'
      /\ \A m \in ms : Ongoing(w, m)' = Append(Ongoing(w, m), h)
      /\ \A v \in Worker, m \in Server :
            v # w \/ m \notin ms => Ongoing(v, m)' = Ongoing(v, m)
  BY Sending
<1>3. /\ PostedOK'
      /\ \A m \in ms : posted'[w][m] = IF Answered(h)
                                       THEN Append(posted[w][m], [call |-> Now(w), nb |-> Taken(w)])
                                       ELSE posted[w][m]
      /\ \A v \in Worker, m \in Server : v # w \/ m \notin ms => posted'[v][m] = posted[v][m]
  <2>1. CASE Answered(h) /\ Prepost(w, ms)
    <3>1. Now(w) \in CallId /\ PostedOK
      BY CallFacts DEF LinksOK
    <3> QED
      BY <1>1, <2>1, <3>1, Preposting
  <2>2. CASE ~Answered(h) /\ posted' = posted
    BY <2>2, SamePosted DEF LinksOK
  <2> QED
    BY <2>1, <2>2
<1>4. \A v \in Worker, m \in Server : v # w \/ m \notin ms => Linked(v, m)
  BY <1>2, <1>3 DEF Linked
<1>5. /\ ControlOK'
      /\ \A v \in Worker \ {w} : pc'[v] = pc[v] /\ stage'[v] = stage[v] /\ mode'[v] = mode[v]
      /\ ~At(w, "sync")' /\ Renames(w)
      /\ \/ mode'[w] = "wait" /\ Now(w)' = Now(w)
         \/ mode'[w] = "run" /\ Before(Now(w), Now(w)') /\ h.op \in {"OP_PUT", "OP_ACC", "OP_GET"}
      /\ Fencing(w)' => Stage(w) = "fence"
  <2>1. CASE /\ Turn(w, "wait") /\ x = Blocking
             /\ Cur(w).op \in Issuing => Cur(w).hdl = Blocking
    <3>1. /\ ControlOK' /\ \A v \in Worker : pc'[v] = pc[v] /\ stage'[v] = stage[v]
          /\ \A v \in Worker \ {w} : mode'[v] = mode[v]
          /\ mode'[w] = "wait"
      BY <2>1, Turning
    <3>2. \A y \in Name : Given(w, y)' = Given(w, y) /\ hdls'[w][y] = hdls[w][y]
      BY <1>1, <2>1, <3>1, NameAssumption DEF Given
    <3>3. Stage(w)' = Stage(w)
      BY <3>1 DEF Stage, Cur
    <3> QED
      BY <3>1, <3>2, <3>3 DEF Now, At, Renames, Fencing
  <2>2. CASE /\ Advance({w}) /\ x = Cur(w).hdl /\ Calling(w, Issuing)
             /\ h.op \in {"OP_PUT", "OP_ACC", "OP_GET"}
    <3>1. /\ ControlOK'
          /\ \A v \in Worker \ {w} : pc'[v] = pc[v] /\ stage'[v] = stage[v] /\ mode'[v] = mode[v]
          /\ Before(Now(w), Now(w)') /\ mode'[w] = "run"
      BY <2>2, Advancing
    <3>2. Cur(w).op \in Issuing
      BY <2>2 DEF Calling
    <3>3. ~At(w, "sync")'
      BY <2>2, <3>2, Arriving
    <3>4. Renames(w)
      BY <2>2, Naming
    <3> QED
      BY <2>2, <3>1, <3>3, <3>4 DEF Fencing
  <2> QED
    BY <2>1, <2>2
<1>6. \A v \in Worker \ {w} : Stays(v)
  BY <1>1, <1>5 DEF Stays
<1>7. Issues(w, ms, h)
  BY <1>1, <1>2, <1>3, <1>4, <1>5, <1>6 DEF Issues
<1> QED
  BY <1>1, <1>2, <1>3, <1>5, <1>7 DEF Stepped, LinksOK

\* It has waited long enough.
LEMMA Returning ==
    ASSUME TypeInv, NEW w \in Worker, Return(w)
    PROVE  TypeInv' /\ Stepped
<1> USE DEF TypeInv
<1>1. /\ Active(w) /\ mode[w] = "wait" /\ ~Pending(w, nb[w].cur) /\ Advance({w})
      /\ nb' = Emptied(w, {nb[w].cur})
      /\ UNCHANGED <<job, master, hdls, chan, posted, mem, sem, ptrs, reg, num, mutexes, lq, srv,
                     failed>>
  BY DEF Return, segs, servers
<1>2. fence' = IF Stage(w) # "fence" THEN fence
               ELSE [fence EXCEPT ![w] = [m \in Server |-> FALSE]]
  BY DEF Return
<1>3. /\ ControlOK' /\ Before(Now(w), Now(w)') /\ mode'[w] = "run"
      /\ \A v \in Worker \ {w} : pc'[v] = pc[v] /\ stage'[v] = stage[v] /\ mode'[v] = mode[v]
  BY <1>1, Advancing
<1>4. HandlesOK' /\ \A v \in Worker : nb'[v].cur = nb[v].cur
  BY <1>1, Emptying
<1>5. /\ fence' \in Flags
      /\ \A v \in Worker \ {w} : fence'[v] = fence[v]
      /\ \A m \in Server : IF Fencing(w) THEN ~fence'[w][m] ELSE fence'[w][m] = fence[w][m]
  <2>1. fence \in Flags
    BY DEF MemoryOK
  <2> QED
    BY <1>1, <1>2, <2>1 DEF Flags, Fencing
<1>6. MemoryOK'
  BY <1>1, <1>5, SameMemory DEF MemoryOK
<1>7. LinksOK' /\ MutexesOK' /\ JobOK'
  BY <1>1, SameChan, SamePosted, SameMutexes, SameHosts DEF LinksOK, MutexesOK
<1>8. At(w, "sync")' => Fencing(w)
  BY <1>1, Arriving DEF Fencing
<1>9. \A x \in Name : Given(w, x)' = Given(w, x)
  BY <1>1, Passing
<1>10. \A v \in Worker, m \in Server : Linked(v, m)
  BY <1>1, SameLinked
<1>11. Resumes(w)
  BY <1>1, <1>3, <1>4, <1>5, <1>8, <1>9, <1>10 DEF Resumes, Stays
<1> QED
  BY <1>3, <1>4, <1>6, <1>7, <1>11 DEF Stepped

\* A call of one part is in this part.
LEMMA StageOf ==
    ASSUME JobOK, ControlOK, NEW w \in Worker, Active(w)
    PROVE  Cur(w).op \in Issuing => Stage(w) = Cur(w).op
<1> SUFFICES ASSUME Cur(w).op \in Issuing PROVE Stage(w) = Cur(w).op
  OBVIOUS
<1>1. Stages(Cur(w).op)[1] = Cur(w).op /\ Len(Stages(Cur(w).op)) = 1
  BY Singles
<1>2. stage[w] \in 1 .. Len(Stages(Cur(w).op))
  BY CallFacts
<1>3. stage[w] = 1
  BY <1>1, <1>2
<1> QED
  BY <1>1, <1>3 DEF Stage

\* What a call is about
LEMMA Operands ==
    ASSUME JobOK, ControlOK, MemoryOK, NEW w \in Worker, Active(w)
    PROVE  /\ Cur(w).to \in Rank /\ Cur(w).to \in Worker /\ Cur(w).to \in Nat
           /\ Target(w) \in Somewhere /\ Target(w) \in Int
           /\ Cur(w).val \in Int /\ w \in Rank /\ w \in Nat
           /\ master[w] \in Server /\ master[Cur(w).to] \in Server
<1>1. Cur(w) \in Call /\ Cur(w).to \in Worker /\ master[Cur(w).to] \in Server /\ master[w] \in Server
  BY CallFacts
<1>2. Cur(w).val \in Int /\ Cur(w).seg \in Segment
  BY <1>1 DEF Call
<1>3. ptrs \in [Worker -> [Segment -> [Worker -> Somewhere]]]
  BY DEF MemoryOK, Ptrs
<1>4. Target(w) \in Somewhere
  BY <1>1, <1>2, <1>3 DEF Target
<1>5. Somewhere \subseteq Int
  BY BoundAssumption DEF Somewhere, Null, Addr
<1> QED
  BY <1>1, <1>2, <1>4, <1>5, Hosts

LEMMA Heading ==
    ASSUME JobOK, ControlOK, NEW w \in Worker, Active(w), Taken(w) \in Handle,
           NEW op \in MsgOp, NEW rank \in Nat, NEW id \in Int, NEW val \in Int,
           NEW entries \in SUBSET Entry
    PROVE  /\ Header(w, op, rank, id, val, entries) \in Message
           /\ Header(w, op, rank, id, val, entries).op = op
           /\ Header(w, op, rank, id, val, entries).rank = rank
           /\ Header(w, op, rank, id, val, entries).id = id
           /\ Header(w, op, rank, id, val, entries).val = val
           /\ Header(w, op, rank, id, val, entries).entries = entries
           /\ Header(w, op, rank, id, val, entries).call = Now(w)
           /\ Header(w, op, rank, id, val, entries).nb = Taken(w)
<1>1. Now(w) \in CallId
  BY CallFacts
<1> QED
  BY <1>1 DEF Header, Message, Now

-----------------------------------------------------------------------------
(* The actions of a worker *)

LEMMA Whole ==
    ASSUME TypeInv, UNCHANGED <<job, master>>, ControlOK', HandlesOK', LinksOK', MemoryOK',
           MutexesOK'
    PROVE  TypeInv'
BY SameHosts DEF TypeInv

LEMMA SameLinks ==
    ASSUME LinksOK, UNCHANGED <<job, master, chan, posted>>
    PROVE  LinksOK'
BY SameChan, SamePosted DEF LinksOK

\* Puts and gets of memory of the host
LEMMA PuttingDirect ==
    ASSUME TypeInv, NEW w \in Worker, DirectPut(w)
    PROVE  TypeInv' /\ Stepped
<1> USE DEF TypeInv
<1>1. /\ Calling(w, {"put"}) /\ TakeHandle(w, FALSE, Cur(w).hdl) /\ Advance({w})
      /\ Assert(Mapped(w)) /\ mem' = [mem EXCEPT ![Cur(w).to][Target(w)] = Cur(w).val]
      /\ UNCHANGED <<job, master, chan, posted, fence, sem, ptrs, reg, num, mutexes, lq, srv>>
  BY DEF DirectPut, segs, locks, servers
<1>2. Calling(w, Issuing) /\ Active(w)
  BY <1>1 DEF Calling, Issuing, At
<1>3. ControlOK' /\ HandlesOK' /\ Stepped
  BY <1>1, <1>2, MovingDirect
<1>4. mem' \in Cells
  <2>1. Cur(w).to \in Rank /\ Target(w) \in Somewhere /\ Cur(w).val \in Int
    BY <1>2, Operands
  <2> QED
    BY <1>1, <2>1, Writing DEF MemoryOK
<1>5. MemoryOK'
  BY <1>1, <1>4, SameMemory DEF MemoryOK
<1>6. MutexesOK'
  BY <1>1, Asserting, SameMutexes
<1> QED
  BY <1>1, <1>3, <1>5, <1>6, SameLinks, Whole

LEMMA GettingDirect ==
    ASSUME TypeInv, NEW w \in Worker, DirectGet(w)
    PROVE  TypeInv' /\ Stepped
<1> USE DEF TypeInv
<1>1. /\ Calling(w, {"get"}) /\ TakeHandle(w, FALSE, Cur(w).hdl) /\ Advance({w})
      /\ Assert(Mapped(w))
      /\ UNCHANGED <<job, master, chan, posted, fence, mem, sem, ptrs, reg, num, mutexes, lq, srv>>
  BY DEF DirectGet, segs, locks, servers
<1>2. Calling(w, Issuing)
  BY <1>1 DEF Calling, Issuing
<1>3. ControlOK' /\ HandlesOK' /\ Stepped
  BY <1>1, <1>2, MovingDirect
<1>4. MemoryOK'
  BY <1>1, SameMemory DEF MemoryOK
<1>5. MutexesOK'
  BY <1>1, Asserting, SameMutexes
<1> QED
  BY <1>1, <1>3, <1>4, <1>5, SameLinks, Whole

\* An accumulate in two steps
LEMMA Accumulating ==
    ASSUME TypeInv, NEW w \in Worker, DirectAcc(w)
    PROVE  TypeInv' /\ Stepped
<1> USE DEF TypeInv
<1> DEFINE u == [from |-> w, old |-> mem[Cur(w).to][Target(w)],
                 msg |-> Request(w, "OP_ACC", Cur(w).to, Target(w), Cur(w).val)]
<1>1. /\ Calling(w, {"acc"}) /\ TakeHandle(w, FALSE, Cur(w).hdl) /\ Turn(w, "acc")
      /\ Assert(Mapped(w)) /\ sem' = [sem EXCEPT ![Cur(w).to] = w]
      /\ srv' = [srv EXCEPT ![w] = <<u>>]
      /\ UNCHANGED <<job, master, chan, posted, fence, mem, ptrs, reg, num, mutexes, lq>>
  BY DEF DirectAcc, segs, locks
<1>2. Calling(w, Issuing) /\ Active(w) /\ Cur(w).op = "acc"
  BY <1>1 DEF Calling, Issuing, At
<1>3. /\ Cur(w).to \in Rank /\ Target(w) \in Somewhere /\ Cur(w).val \in Int
      /\ Now(w) \in CallId /\ Taken(w) \in Handle /\ w \in Rank
  BY <1>1, <1>2, Operands, CallFacts, Taking
<1>4. mem[Cur(w).to][Target(w)] \in Int
  BY <1>3 DEF MemoryOK, Cells
<1>5. u \in InHand
  BY <1>3, <1>4 DEF InHand, Request, Header, Now
<1> HIDE DEF u
<1>6. srv \in Updates /\ w \in Ranks
  BY Hosts DEF MemoryOK
<1>7. srv' \in Updates /\ srv'[w] # <<>> /\ \A r \in Ranks \ {w} : srv'[r] = srv[r]
  BY <1>1, <1>5, <1>6 DEF Updates
<1>8. /\ \A m \in Server : srv'[m] = srv[m]
      /\ \A v \in Worker \ {w} : srv'[v] = srv[v]
  BY <1>7, Hosts
<1>9. ControlOK' /\ HandlesOK' /\ Stepped
  BY <1>1, <1>2, <1>7, <1>8, MovingDirect
<1>10. sem' \in Sems
  BY <1>1, <1>3, Semaphore DEF MemoryOK
<1>11. MemoryOK'
  BY <1>1, <1>7, <1>10, SameMemory DEF MemoryOK
<1>12. MutexesOK'
  BY <1>1, Asserting, SameMutexes
<1> QED
  BY <1>1, <1>9, <1>11, <1>12, SameLinks, Whole

LEMMA Adding ==
    ASSUME TypeInv, NEW w \in Worker, DirectAccApply(w)
    PROVE  TypeInv' /\ Stepped
<1> USE DEF TypeInv
<1> DEFINE s == srv[w][1]
<1>1. /\ mode[w] = "acc" /\ Advance({w})
      /\ mem' = [mem EXCEPT ![s.msg.rank][s.msg.id] = s.old + s.msg.val]
      /\ sem' = [sem EXCEPT ![s.msg.rank] = UNLOCKED]
      /\ srv' = [srv EXCEPT ![w] = <<>>]
      /\ UNCHANGED <<job, master, nb, hdls, chan, posted, fence, ptrs, reg, num, mutexes, lq,
                     failed>>
  BY DEF DirectAccApply, segs, locks
<1>2. Active(w) /\ srv[w] # <<>> /\ Cur(w).op = "acc"
  BY <1>1 DEF ControlOK
<1>3. srv \in Updates /\ w \in Ranks
  BY Hosts DEF MemoryOK
<1>4. s \in InHand
  BY <1>2, <1>3 DEF Updates
<1>5. s.msg.rank \in Rank /\ s.msg.id \in Somewhere /\ s.old + s.msg.val \in Int
  BY <1>4 DEF InHand
<1> HIDE DEF s
<1>6. mem' \in Cells /\ sem' \in Sems
  BY <1>1, <1>5, Writing, Semaphore DEF MemoryOK
<1>7. srv' \in Updates /\ \A r \in Ranks \ {w} : srv'[r] = srv[r]
  BY <1>1, <1>3 DEF Updates
<1>8. /\ \A m \in Server : srv'[m] = srv[m]
      /\ \A v \in Worker \ {w} : srv'[v] = srv[v]
  BY <1>7, Hosts
<1>9. Stage(w) = "acc"
  BY <1>2, StageOf DEF Issuing
<1>10. ControlOK' /\ Stepped
  BY <1>1, <1>2, <1>8, <1>9, Moving
<1>11. MemoryOK'
  BY <1>1, <1>6, <1>7, SameMemory DEF MemoryOK
<1>12. MutexesOK' /\ HandlesOK'
  BY <1>1, SameMutexes, SameHandles DEF MutexesOK
<1> QED
  BY <1>1, <1>10, <1>11, <1>12, SameLinks, Whole

\* Writes and reads of other memory
LEMMA Writes ==
    ASSUME TypeInv, NEW w \in Worker, RemoteWrite(w)
    PROVE  TypeInv' /\ Stepped
<1> USE DEF TypeInv
<1> DEFINE m == master[Cur(w).to]
           op == IF Cur(w).op = "put" THEN "OP_PUT" ELSE "OP_ACC"
           h == Request(w, op, Cur(w).to, Target(w), Cur(w).val)
<1>1. /\ Calling(w, {"put", "acc"}) /\ TakeHandle(w, TRUE, Cur(w).hdl)
      /\ fence' = [fence EXCEPT ![w][m] = TRUE] /\ Send(w, {m}, h) /\ Sent(w)
      /\ UNCHANGED <<job, master, posted, mem, sem, ptrs, reg, num, mutexes, lq, srv, failed>>
  BY DEF RemoteWrite, segs, locks, servers
<1>2. Calling(w, Issuing) /\ Active(w) /\ mode[w] = "run" /\ Stage(w) # "fence"
  BY <1>1 DEF Calling, Issuing, At
<1>3. /\ Cur(w).to \in Nat /\ Cur(w).to \in Worker /\ m \in Server /\ Target(w) \in Somewhere
      /\ Target(w) \in Int /\ Cur(w).val \in Int /\ Taken(w) \in Handle
  BY <1>1, <1>2, Operands, Taking
<1>4. op \in MsgOp /\ op \in {"OP_PUT", "OP_ACC"} /\ {} \in SUBSET Entry
  BY DEF MsgOp, ToMem
<1> HIDE DEF op, m
<1>5. /\ h \in Message /\ h.op = op /\ h.rank = Cur(w).to /\ h.id = Target(w) /\ h.entries = {}
      /\ h.call = Now(w) /\ h.nb = Taken(w)
  BY <1>2, <1>3, <1>4, Heading DEF Request
<1> HIDE DEF h
<1>6. Sensible(h, m) /\ ~Answered(h) /\ IsWrite(h)
  BY <1>3, <1>4, <1>5 DEF Sensible, Answered, IsWrite, ToMem
<1>7. fence \in Flags
  BY DEF MemoryOK
<1>8. /\ fence' \in Flags /\ \A v \in Worker \ {w} : fence'[v] = fence[v]
      /\ \A k \in Server : IF k \in {m} /\ IsWrite(h) THEN fence'[w][k]
                           ELSE fence'[w][k] = fence[w][k]
  BY <1>1, <1>3, <1>6, <1>7 DEF Flags
<1>9. \/ Turn(w, "wait") /\ Cur(w).hdl = Blocking
      \/ Advance({w})
  BY <1>1 DEF Sent
<1>10. ControlOK' /\ HandlesOK' /\ LinksOK' /\ Stepped
  <2>1. {m} \in SUBSET Server /\ h.op \in {"OP_PUT", "OP_ACC", "OP_GET"}
    BY <1>3, <1>4, <1>5
  <2>2. \A k \in {m} : Sensible(h, k)
    BY <1>6
  <2>3. \/ Answered(h) /\ Prepost(w, {m})
        \/ ~Answered(h) /\ posted' = posted
    BY <1>1, <1>6
  <2>4. \/ /\ Turn(w, "wait") /\ Cur(w).hdl = Blocking
           /\ Cur(w).op \in Issuing => Cur(w).hdl = Blocking
        \/ /\ Advance({w}) /\ Cur(w).hdl = Cur(w).hdl /\ Calling(w, Issuing)
           /\ h.op \in {"OP_PUT", "OP_ACC", "OP_GET"}
    BY <1>2, <1>9, <2>1
  <2>5. Stage(w) = "fence" => h.op = "OP_FENCE" /\ {m} = Flagged(w)
    BY <1>2
  <2>6. UNCHANGED <<job, master, lq, srv>>
    BY <1>1
  <2> QED
    BY <1>1, <1>2, <1>5, <1>8, <2>1, <2>2, <2>3, <2>4, <2>5, <2>6, Requesting
<1>11. MemoryOK'
  BY <1>1, <1>8, SameMemory DEF MemoryOK
<1>12. MutexesOK'
  BY <1>1, SameMutexes DEF MutexesOK
<1> QED
  BY <1>1, <1>10, <1>11, <1>12, Whole

LEMMA Reads ==
    ASSUME TypeInv, NEW w \in Worker, RemoteGet(w)
    PROVE  TypeInv' /\ Stepped
<1> USE DEF TypeInv
<1> DEFINE m == master[Cur(w).to]
           h == Request(w, "OP_GET", Cur(w).to, Target(w), 0)
<1>1. /\ Calling(w, {"get"}) /\ TakeHandle(w, TRUE, Cur(w).hdl)
      /\ Prepost(w, {m}) /\ Send(w, {m}, h) /\ Sent(w)
      /\ UNCHANGED <<job, master, fence, mem, sem, ptrs, reg, num, mutexes, lq, srv, failed>>
  BY DEF RemoteGet, data, segs, locks, servers
<1>2. Calling(w, Issuing) /\ Active(w) /\ mode[w] = "run" /\ Stage(w) # "fence"
  BY <1>1 DEF Calling, Issuing, At
<1>3. /\ Cur(w).to \in Nat /\ Cur(w).to \in Worker /\ m \in Server /\ Target(w) \in Somewhere
      /\ Target(w) \in Int /\ Taken(w) \in Handle
  BY <1>1, <1>2, Operands, Taking
<1>4. "OP_GET" \in MsgOp /\ {} \in SUBSET Entry
  BY DEF MsgOp, ToMem
<1> HIDE DEF m
<1>5. /\ h \in Message /\ h.op = "OP_GET" /\ h.rank = Cur(w).to /\ h.id = Target(w)
      /\ h.entries = {} /\ h.call = Now(w) /\ h.nb = Taken(w)
  BY <1>2, <1>3, <1>4, Heading DEF Request
<1> HIDE DEF h
<1>6. Sensible(h, m) /\ Answered(h) /\ ~IsWrite(h)
  BY <1>3, <1>5 DEF Sensible, Answered, IsWrite, ToMem
<1>7. /\ fence' \in Flags /\ \A v \in Worker \ {w} : fence'[v] = fence[v]
      /\ \A k \in Server : IF k \in {m} /\ IsWrite(h) THEN fence'[w][k]
                           ELSE fence'[w][k] = fence[w][k]
  BY <1>1, <1>6 DEF MemoryOK
<1>8. \/ Turn(w, "wait") /\ Cur(w).hdl = Blocking
      \/ Advance({w})
  BY <1>1 DEF Sent
<1>9. ControlOK' /\ HandlesOK' /\ LinksOK' /\ Stepped
  <2>1. {m} \in SUBSET Server /\ h.op \in {"OP_PUT", "OP_ACC", "OP_GET"}
    BY <1>3, <1>5
  <2> QED
    BY <1>1, <1>2, <1>5, <1>6, <1>7, <1>8, <2>1, Requesting
<1>10. MemoryOK'
  BY <1>1, <1>7, SameMemory DEF MemoryOK
<1>11. MutexesOK'
  BY <1>1, SameMutexes DEF MutexesOK
<1> QED
  BY <1>1, <1>9, <1>10, <1>11, Whole

\* A call that asks the masters ms and waits for the answers.  The caches and
\* the numbers of mutexes may change.
LEMMA Asks ==
    ASSUME TypeInv, NEW w \in Worker, Active(w), mode[w] = "run", Cur(w).op \notin Issuing,
           NEW ms \in SUBSET Server, NEW op \in MsgOp, NEW rank \in Nat, NEW id \in Int,
           NEW val \in Int, NEW entries \in SUBSET Entry,
           op \in ToMem => rank \in Worker /\ id \in Somewhere /\ entries = {},
           op = "OP_LOCK" => rank \in Worker /\ \A m \in ms : master[rank] = m,
           op \notin {"OP_PUT", "OP_ACC", "OP_UNLOCK", "OP_QUIT"},
           Stage(w) = "fence" => op = "OP_FENCE" /\ ms = Flagged(w),
           Ask(w, ms, Header(w, op, rank, id, val, entries)),
           reg' \in Caches, num' \in [Worker -> Seq(Int)], failed' \in BOOLEAN,
           UNCHANGED <<job, master, fence, mem, sem, ptrs, mutexes, lq, srv>>
    PROVE  TypeInv' /\ Stepped
<1> USE DEF TypeInv
<1> DEFINE h == Header(w, op, rank, id, val, entries)
<1>1. /\ TakeHandle(w, TRUE, Blocking) /\ Prepost(w, ms) /\ Send(w, ms, h) /\ Turn(w, "wait")
  BY DEF Ask
<1>2. Taken(w) \in Handle
  BY <1>1, Taking
<1>3. /\ h \in Message /\ h.op = op /\ h.rank = rank /\ h.id = id /\ h.entries = entries
      /\ h.call = Now(w) /\ h.nb = Taken(w)
  BY <1>2, Heading
<1> HIDE DEF h
<1>4. (\A m \in ms : Sensible(h, m)) /\ Answered(h) /\ ~IsWrite(h)
  BY <1>3 DEF Sensible, Answered, IsWrite
<1>5. ControlOK' /\ HandlesOK' /\ LinksOK' /\ Stepped
  BY <1>1, <1>3, <1>4, Requesting
<1>6. MemoryOK'
  BY SameMemory DEF MemoryOK
<1>7. MutexesOK'
  BY SameHosts DEF MutexesOK
<1> QED
  BY <1>5, <1>6, <1>7, Whole

LEMMA Updating ==
    ASSUME TypeInv, NEW w \in Worker, Rmw(w)
    PROVE  TypeInv' /\ Stepped
<1> USE DEF TypeInv
<1> DEFINE op == IF Cur(w).op = "fadd" THEN "OP_FETCH_AND_ADD" ELSE "OP_SWAP"
<1>1. /\ Calling(w, {"fadd", "swap"})
      /\ Ask(w, {master[Cur(w).to]}, Header(w, op, Cur(w).to, Target(w), Cur(w).val, {}))
      /\ UNCHANGED <<job, master, fence, mem, sem, ptrs, reg, num, mutexes, lq, srv, failed>>
  BY DEF Rmw, Request, data, segs, locks, servers
<1>2. Active(w) /\ mode[w] = "run" /\ Stage(w) # "fence" /\ Cur(w).op \notin Issuing
  BY <1>1 DEF Calling, Issuing, At
<1>3. /\ Cur(w).to \in Nat /\ Cur(w).to \in Worker /\ master[Cur(w).to] \in Server
      /\ Target(w) \in Somewhere /\ Target(w) \in Int /\ Cur(w).val \in Int
  BY <1>2, Operands
<1>4. op \in MsgOp /\ op \in {"OP_FETCH_AND_ADD", "OP_SWAP"}
  BY DEF MsgOp, ToMem
<1> HIDE DEF op
<1>5. /\ {master[Cur(w).to]} \in SUBSET Server /\ {} \in SUBSET Entry
      /\ reg' \in Caches /\ num' \in [Worker -> Seq(Int)] /\ failed' \in BOOLEAN
  BY <1>1, <1>3 DEF MemoryOK, MutexesOK
<1> QED
  BY <1>1, <1>2, <1>3, <1>4, <1>5, Asks

\* The workers ws go on.  They may have changed memory, maps, caches and the
\* numbers of mutexes.
LEMMA Goes ==
    ASSUME TypeInv, NEW ws \in SUBSET Worker,
           \A w \in ws : /\ Active(w) /\ mode[w] = "run" /\ Cur(w).op \notin Issuing
                         /\ Stage(w) = "fence" => Flagged(w) = {},
           Advance(ws), HandlesOK', \A w \in Worker : nb'[w].cur = nb[w].cur,
           mem' \in Cells, ptrs' \in Ptrs, reg' \in Caches, num' \in [Worker -> Seq(Int)],
           failed' \in BOOLEAN,
           UNCHANGED <<job, master, hdls, chan, posted, fence, sem, mutexes, lq, srv>>
    PROVE  TypeInv' /\ Stepped
<1> USE DEF TypeInv
<1>1. ControlOK' /\ Stepped
  BY Moving
<1>2. MemoryOK'
  BY SameMemory DEF MemoryOK
<1>3. MutexesOK'
  BY SameHosts DEF MutexesOK
<1> QED
  BY <1>1, <1>2, <1>3, SameLinks, Whole

\* The end of a call that takes no handle and gives none
LEMMA Ends ==
    ASSUME TypeInv, NEW w \in Worker, Active(w), mode[w] = "run", Cur(w).op \notin Issuing,
           Stage(w) = "fence" => Flagged(w) = {}, Advance({w}),
           HandlesOK', \A v \in Worker : nb'[v].cur = nb[v].cur,
           mem' \in Cells, reg' \in Caches, num' \in [Worker -> Seq(Int)], failed' \in BOOLEAN,
           UNCHANGED <<job, master, hdls, chan, posted, fence, sem, ptrs, mutexes, lq, srv>>
    PROVE  TypeInv' /\ Stepped
<1>1. {w} \in SUBSET Worker /\ ptrs' \in Ptrs
  BY DEF TypeInv, MemoryOK
<1> QED
  BY <1>1, Goes

\* comex_wait, comex_test, comex_wait_all
LEMMA Completing ==
    ASSUME TypeInv, NEW w \in Worker, Wait(w) \/ Test(w) \/ WaitAll(w) \/ FenceProc(w)
    PROVE  TypeInv' /\ Stepped
<1> USE DEF TypeInv
<1> DEFINE h == hdls[w][Cur(w).hdl]
<1>1. /\ \/ Calling(w, {"wait"}) \/ Calling(w, {"test"})
         \/ At(w, "wait_all") \/ At(w, "fence_proc")
      /\ Advance({w})
      /\ \/ nb' = Emptied(w, Handle)
         \/ nb' = [Emptied(w, {h}) EXCEPT ![w].used = @ \ {h}]
         \/ nb' = [nb EXCEPT ![w].used = @ \ {h}]
         \/ nb' = nb
      /\ UNCHANGED <<job, master, hdls, chan, posted, fence, mem, sem, ptrs, reg, num, mutexes,
                     lq, srv, failed>>
  BY DEF Wait, Test, WaitAll, FenceProc, Complete, data, segs, locks, servers
<1>2. Active(w) /\ mode[w] = "run" /\ Stage(w) # "fence"
  BY <1>1 DEF Calling, At
<1>3. Cur(w).op \notin Issuing
  BY <1>1, <1>2, StageOf DEF Calling, At, Issuing
<1> HIDE DEF h
<1>4. HandlesOK' /\ \A v \in Worker : nb'[v].cur = nb[v].cur
  BY <1>1, Emptying
<1>5. mem' \in Cells /\ reg' \in Caches /\ num' \in [Worker -> Seq(Int)] /\ failed' \in BOOLEAN
  BY <1>1 DEF MemoryOK, MutexesOK
<1> QED
  BY <1>1, <1>2, <1>3, <1>4, <1>5, Ends

\* A fence of all, or of nothing
LEMMA Flushing ==
    ASSUME TypeInv, NEW w \in Worker, Fence(w)
    PROVE  TypeInv' /\ Stepped
<1> USE DEF TypeInv
<1>1. /\ At(w, "fence")
      /\ \/ Flagged(w) = {} /\ Advance({w}) /\ UNCHANGED <<nb, hdls, chan, posted>>
         \/ Ask(w, Flagged(w), Header(w, "OP_FENCE", 0, Null, 0, {}))
      /\ UNCHANGED <<job, master, fence, mem, sem, ptrs, reg, num, mutexes, lq, srv, failed>>
  BY DEF Fence, Request, data, segs, locks, servers
<1>2. Active(w) /\ mode[w] = "run" /\ Stage(w) = "fence"
  BY <1>1 DEF At
<1>3. Cur(w).op \notin Issuing
  BY <1>2, StageOf DEF Issuing
<1>4. mem' \in Cells /\ reg' \in Caches /\ num' \in [Worker -> Seq(Int)] /\ failed' \in BOOLEAN
  BY <1>1 DEF MemoryOK, MutexesOK
<1>5. CASE Flagged(w) = {} /\ Advance({w}) /\ UNCHANGED <<nb, hdls, chan, posted>>
  BY <1>1, <1>2, <1>3, <1>4, <1>5, SameHandles, Ends
<1>6. CASE Ask(w, Flagged(w), Header(w, "OP_FENCE", 0, Null, 0, {}))
  <2>1. /\ Flagged(w) \in SUBSET Server /\ "OP_FENCE" \in MsgOp /\ 0 \in Nat /\ Null \in Int
        /\ 0 \in Int /\ {} \in SUBSET Entry /\ "OP_FENCE" \notin ToMem
    BY DEF Flagged, MsgOp, Null, ToMem
  <2> QED
    BY <1>1, <1>2, <1>3, <1>4, <1>6, <2>1, Asks
<1> QED
  BY <1>1, <1>5, <1>6

LEMMA Releasing ==
    ASSUME TypeInv, NEW w \in Worker, Release(w)
    PROVE  TypeInv' /\ Stepped
<1> USE DEF TypeInv
<1> DEFINE a == ptrs[w][Cur(w).seg][w]
<1>1. /\ At(w, "release") /\ Advance({w})
      /\ IF a = Null THEN UNCHANGED <<reg, mem, failed>>
         ELSE /\ Assert(<<w, a>> \in reg[w])
              /\ reg' = [reg EXCEPT ![w] = @ \ {<<w, a>>}]
              /\ mem' = [mem EXCEPT ![w][a] = 0]
      /\ UNCHANGED <<job, master, nb, hdls, chan, posted, fence, sem, ptrs, num, mutexes, lq, srv>>
  BY DEF Release, locks, servers
<1>2. Active(w) /\ mode[w] = "run" /\ Stage(w) = "release"
  BY <1>1 DEF At
<1>3. Cur(w).op \notin Issuing
  BY <1>2, StageOf DEF Issuing
<1>4. a \in Somewhere /\ w \in Rank /\ w \in Ranks
  <2>1. Cur(w) \in Call
    BY <1>2, CallFacts
  <2>2. Cur(w).seg \in Segment
    BY <2>1 DEF Call
  <2> QED
    BY <2>2, Hosts DEF MemoryOK, Ptrs
<1> HIDE DEF a
<1>5. mem' \in Cells
  <2>1. mem \in Cells
    BY DEF MemoryOK
  <2>2. [mem EXCEPT ![w][a] = 0] \in Cells
    BY <1>4, <2>1, Writing
  <2> QED
    BY <1>1, <2>1, <2>2
<1>6. reg' \in Caches
  BY <1>1, <1>4 DEF MemoryOK, Caches
<1>7. failed' \in BOOLEAN /\ num' \in [Worker -> Seq(Int)]
  BY <1>1, Asserting DEF MutexesOK
<1> QED
  BY <1>1, <1>2, <1>3, <1>5, <1>6, <1>7, SameHandles, Ends

\* The segments that are told to the others and to the master
LEMMA EntriesType ==
    ASSUME JobOK, ControlOK, MemoryOK, NEW w \in Worker, Active(w)
    PROVE  Entries(w) \in SUBSET Entry
<1>1. /\ Cur(w) \in Call /\ Cur(w).grp \subseteq Worker /\ Worker \subseteq Rank
      /\ ptrs \in [Worker -> [Segment -> [Worker -> Somewhere]]]
  BY CallFacts, Hosts DEF MemoryOK, Ptrs
<1>2. Cur(w).seg \in Segment
  BY <1>1 DEF Call
<1>3. \A v \in Cur(w).grp : ptrs[w][Cur(w).seg][v] # Null => ptrs[w][Cur(w).seg][v] \in Addr
  BY <1>1, <1>2 DEF Somewhere
<1> QED
  BY <1>1, <1>3 DEF Entries, Entry

LEMMA Notifying ==
    ASSUME TypeInv, NEW w \in Worker, Notify(w)
    PROVE  TypeInv' /\ Stepped
<1> USE DEF TypeInv
<1> DEFINE malloc == Cur(w).op = "malloc"
           others == {e \in Entries(w) : e[1] # w}
           op == IF malloc THEN "OP_MALLOC" ELSE "OP_FREE"
<1>1. /\ At(w, "notify")
      /\ reg' = [reg EXCEPT ![w] = IF malloc THEN @ \cup others ELSE @ \ others]
      /\ Assert(IF malloc THEN others \cap reg[w] = {} ELSE others \subseteq reg[w])
      /\ \/ Ask(w, {master[w]}, Header(w, op, 0, Null, 0, Entries(w)))
         \/ Advance({w}) /\ UNCHANGED <<nb, hdls, chan, posted>>
      /\ UNCHANGED <<job, master, fence, mem, sem, ptrs, num, mutexes, lq, srv>>
  BY DEF Notify, data, locks, servers
<1>2. Active(w) /\ mode[w] = "run" /\ Stage(w) = "notify"
  BY <1>1 DEF At
<1>3. Cur(w).op \notin Issuing
  BY <1>2, StageOf DEF Issuing
<1>4. Entries(w) \in SUBSET Entry
  BY <1>2, EntriesType
<1>5. reg' \in Caches
  <2>1. others \in SUBSET Entry
    BY <1>4
  <2>2. reg \in [Ranks -> SUBSET Entry] /\ w \in Ranks
    BY Hosts DEF MemoryOK, Caches
  <2> HIDE DEF others, malloc
  <2> QED
    BY <1>1, <2>1, <2>2 DEF Caches
<1>6. failed' \in BOOLEAN /\ num' \in [Worker -> Seq(Int)] /\ mem' \in Cells
  BY <1>1, Asserting DEF MutexesOK, MemoryOK
<1>7. CASE Advance({w}) /\ UNCHANGED <<nb, hdls, chan, posted>>
  BY <1>1, <1>2, <1>3, <1>5, <1>6, <1>7, SameHandles, Ends
<1>8. CASE Ask(w, {master[w]}, Header(w, op, 0, Null, 0, Entries(w)))
  <2>1. /\ {master[w]} \in SUBSET Server /\ op \in MsgOp /\ 0 \in Nat /\ Null \in Int
        /\ 0 \in Int /\ op \in {"OP_MALLOC", "OP_FREE"}
    BY Hosts DEF MsgOp, Null
  <2>2. op \notin ToMem
    BY <2>1 DEF ToMem
  <2> HIDE DEF op
  <2> QED
    BY <1>1, <1>2, <1>3, <1>4, <1>5, <1>6, <1>8, <2>1, <2>2, Asks
<1> QED
  BY <1>1, <1>7, <1>8

\* The calls about mutexes
LEMMA Creating ==
    ASSUME TypeInv, NEW w \in Worker, Create(w)
    PROVE  TypeInv' /\ Stepped
<1> USE DEF TypeInv
<1>1. /\ At(w, "create")
      /\ Ask(w, {master[w]}, Header(w, "OP_CREATE_MUTEXES", 0, Null, Cur(w).val, {}))
      /\ UNCHANGED <<job, master, fence, mem, sem, ptrs, reg, num, mutexes, lq, srv, failed>>
  BY DEF Create, Request, data, segs, locks, servers
<1>2. Active(w) /\ mode[w] = "run" /\ Stage(w) = "create"
  BY <1>1 DEF At
<1>3. Cur(w).op \notin Issuing
  BY <1>2, StageOf DEF Issuing
<1>4. /\ {master[w]} \in SUBSET Server /\ "OP_CREATE_MUTEXES" \in MsgOp /\ 0 \in Nat
      /\ Null \in Int /\ Cur(w).val \in Int /\ {} \in SUBSET Entry
      /\ "OP_CREATE_MUTEXES" \notin ToMem
  BY <1>2, Operands DEF MsgOp, Null, ToMem
<1>5. /\ reg' \in Caches /\ num' \in [Worker -> Seq(Int)] /\ failed' \in BOOLEAN
  BY <1>1 DEF MemoryOK, MutexesOK
<1> QED
  BY <1>1, <1>2, <1>3, <1>4, <1>5, Asks

LEMMA Destroying ==
    ASSUME TypeInv, NEW w \in Worker, Destroy(w)
    PROVE  TypeInv' /\ Stepped
<1> USE DEF TypeInv
<1> DEFINE ns == IF w + 1 \in DOMAIN num[w] THEN {num[w][w + 1]} ELSE 0 .. 2
<1>1. /\ At(w, "destroy")
      /\ \/ \E n \in ns : Ask(w, {master[w]}, Header(w, "OP_DESTROY_MUTEXES", 0, Null, n, {}))
         \/ Advance({w}) /\ UNCHANGED <<nb, hdls, chan, posted>>
      /\ num' = [num EXCEPT ![w] = <<>>]
      /\ UNCHANGED <<job, master, fence, mem, sem, ptrs, reg, mutexes, lq, srv, failed>>
  BY DEF Destroy, Request, data, segs, servers
<1>2. Active(w) /\ mode[w] = "run" /\ Stage(w) = "destroy"
  BY <1>1 DEF At
<1>3. Cur(w).op \notin Issuing
  BY <1>2, StageOf DEF Issuing
<1>4. num \in [Worker -> Seq(Int)]
  BY DEF MutexesOK
<1>5. /\ mem' \in Cells /\ reg' \in Caches /\ num' \in [Worker -> Seq(Int)] /\ failed' \in BOOLEAN
  BY <1>1, <1>4 DEF MemoryOK, MutexesOK
<1>6. CASE Advance({w}) /\ UNCHANGED <<nb, hdls, chan, posted>>
  BY <1>1, <1>2, <1>3, <1>5, <1>6, SameHandles, Ends
<1>7. ASSUME NEW n \in ns, Ask(w, {master[w]}, Header(w, "OP_DESTROY_MUTEXES", 0, Null, n, {}))
      PROVE  TypeInv' /\ Stepped
  <2>1. n \in Int
    <3>1. num[w] \in Seq(Int)
      BY <1>4
    <3>2. \A i \in DOMAIN num[w] : num[w][i] \in Int
      BY <3>1, ElementOfSeq
    <3> QED
      BY <1>7, <3>2
  <2>2. /\ {master[w]} \in SUBSET Server /\ "OP_DESTROY_MUTEXES" \in MsgOp /\ 0 \in Nat
        /\ Null \in Int /\ {} \in SUBSET Entry /\ "OP_DESTROY_MUTEXES" \notin ToMem
    BY Hosts DEF MsgOp, Null, ToMem
  <2> QED
    BY <1>1, <1>2, <1>3, <1>5, <1>7, <2>1, <2>2, Asks
<1> QED
  BY <1>1, <1>6, <1>7

LEMMA Locking ==
    ASSUME TypeInv, NEW w \in Worker, Lock(w)
    PROVE  TypeInv' /\ Stepped
<1> USE DEF TypeInv
<1> DEFINE m == master[Cur(w).to]
<1>1. /\ Calling(w, {"lock"})
      /\ Ask(w, {m}, Header(w, "OP_LOCK", Cur(w).to, Cur(w).val, 0, {}))
      /\ UNCHANGED <<job, master, fence, mem, sem, ptrs, reg, num, mutexes, lq, srv, failed>>
  BY DEF Lock, Request, data, segs, locks, servers
<1>2. Active(w) /\ mode[w] = "run" /\ Stage(w) # "fence" /\ Cur(w).op \notin Issuing
  BY <1>1 DEF Calling, Issuing, At
<1>3. /\ Cur(w).to \in Nat /\ Cur(w).to \in Worker /\ {m} \in SUBSET Server /\ Cur(w).val \in Int
      /\ 0 \in Int /\ {} \in SUBSET Entry /\ "OP_LOCK" \in MsgOp /\ "OP_LOCK" \notin ToMem
  BY <1>2, Operands DEF MsgOp, ToMem
<1>4. /\ reg' \in Caches /\ num' \in [Worker -> Seq(Int)] /\ failed' \in BOOLEAN
  BY <1>1 DEF MemoryOK, MutexesOK
<1>5. Cur(w).to \in Worker /\ \A k \in {m} : master[Cur(w).to] = k
  BY <1>3
<1> DEFINE op == "OP_LOCK"
<1>6. /\ op \in MsgOp
      /\ op \in ToMem => Cur(w).to \in Worker /\ Cur(w).val \in Somewhere /\ {} = {}
      /\ op = "OP_LOCK" => Cur(w).to \in Worker /\ \A k \in {m} : master[Cur(w).to] = k
      /\ op \notin {"OP_PUT", "OP_ACC", "OP_UNLOCK", "OP_QUIT"}
      /\ Stage(w) = "fence" => op = "OP_FENCE" /\ {m} = Flagged(w)
      /\ Ask(w, {m}, Header(w, op, Cur(w).to, Cur(w).val, 0, {}))
  BY <1>1, <1>2, <1>3, <1>5
<1> HIDE DEF m, op
<1> QED
  BY <1>1, <1>2, <1>3, <1>4, <1>6, Asks

\* A message that nobody answers
LEMMA Tells ==
    ASSUME TypeInv, NEW w \in Worker, Active(w), mode[w] = "run", Cur(w).op \notin Issuing,
           NEW m \in Server, NEW op \in {"OP_UNLOCK", "OP_QUIT"}, NEW rank \in Nat, NEW id \in Int,
           op = "OP_UNLOCK" => rank \in Worker /\ master[rank] = m,
           Stage(w) # "fence",
           TakeHandle(w, TRUE, Blocking), Send(w, {m}, Header(w, op, rank, id, 0, {})),
           Turn(w, "wait"),
           UNCHANGED <<job, master, posted, fence, mem, sem, ptrs, reg, num, mutexes, lq, srv, failed>>
    PROVE  TypeInv' /\ Stepped
<1> USE DEF TypeInv
<1> DEFINE h == Header(w, op, rank, id, 0, {})
<1>1. Taken(w) \in Handle
  BY Taking
<1>2. 0 \in Int /\ {} \in SUBSET Entry /\ op \in MsgOp /\ op \notin ToMem
  BY DEF MsgOp, ToMem
<1>3. /\ h \in Message /\ h.op = op /\ h.rank = rank /\ h.id = id /\ h.entries = {}
      /\ h.call = Now(w) /\ h.nb = Taken(w)
  BY <1>1, <1>2, Heading
<1> HIDE DEF h
<1>4. (\A k \in {m} : Sensible(h, k)) /\ ~Answered(h) /\ ~IsWrite(h)
  BY <1>2, <1>3 DEF Sensible, Answered, IsWrite
<1>5. ControlOK' /\ HandlesOK' /\ LinksOK' /\ Stepped
  <2>1. {m} \in SUBSET Server /\ Send(w, {m}, h)
    BY DEF h
  <2>2. \A k \in Server : IF k \in {m} /\ IsWrite(h) THEN fence'[w][k]
                          ELSE fence'[w][k] = fence[w][k]
    BY <1>4
  <2>3. \/ Answered(h) /\ Prepost(w, {m})
        \/ ~Answered(h) /\ posted' = posted
    BY <1>4
  <2> QED
    BY <1>3, <1>4, <2>1, <2>2, <2>3, Requesting
<1>6. MemoryOK'
  BY SameMemory DEF MemoryOK
<1>7. MutexesOK'
  BY SameMutexes DEF MutexesOK
<1> QED
  BY <1>5, <1>6, <1>7, Whole

LEMMA Unlocking ==
    ASSUME TypeInv, NEW w \in Worker, Unlock(w)
    PROVE  TypeInv' /\ Stepped
<1> USE DEF TypeInv
<1> DEFINE m == master[Cur(w).to]
<1>1. /\ Calling(w, {"unlock"}) /\ TakeHandle(w, TRUE, Blocking) /\ Turn(w, "wait")
      /\ Send(w, {m}, Header(w, "OP_UNLOCK", Cur(w).to, Cur(w).val, 0, {}))
      /\ UNCHANGED <<job, master, posted, fence, mem, sem, ptrs, reg, num, mutexes, lq, srv, failed>>
  BY DEF Unlock, Request, data, segs, servers
<1>2. Active(w) /\ mode[w] = "run" /\ Stage(w) # "fence" /\ Cur(w).op \notin Issuing
  BY <1>1 DEF Calling, Issuing, At
<1>3. Cur(w).to \in Nat /\ Cur(w).to \in Worker /\ m \in Server /\ Cur(w).val \in Int
  BY <1>2, Operands
<1> QED
  BY <1>1, <1>2, <1>3, Tells

LEMMA Quitting ==
    ASSUME TypeInv, NEW w \in Worker, SendQuit(w)
    PROVE  TypeInv' /\ Stepped
<1> USE DEF TypeInv
<1>1. /\ At(w, "quit")
      /\ \/ /\ TakeHandle(w, TRUE, Blocking) /\ Turn(w, "wait")
            /\ Send(w, {master[w]}, Header(w, "OP_QUIT", 0, Null, 0, {}))
         \/ Advance({w}) /\ UNCHANGED <<nb, hdls, chan>>
      /\ UNCHANGED <<job, master, posted, fence, mem, sem, ptrs, reg, num, mutexes, lq, srv, failed>>
  BY DEF SendQuit, Request, data, segs, locks, servers
<1>2. Active(w) /\ mode[w] = "run" /\ Stage(w) = "quit"
  BY <1>1 DEF At
<1>3. Cur(w).op \notin Issuing
  BY <1>2, StageOf DEF Issuing
<1>4. /\ mem' \in Cells /\ reg' \in Caches /\ num' \in [Worker -> Seq(Int)] /\ failed' \in BOOLEAN
  BY <1>1 DEF MemoryOK, MutexesOK
<1>5. CASE Advance({w}) /\ UNCHANGED <<nb, hdls, chan>>
  BY <1>1, <1>2, <1>3, <1>4, <1>5, SameHandles, Ends
<1>6. CASE /\ TakeHandle(w, TRUE, Blocking) /\ Turn(w, "wait")
           /\ Send(w, {master[w]}, Header(w, "OP_QUIT", 0, Null, 0, {}))
  <2>1. master[w] \in Server /\ 0 \in Nat /\ Null \in Int
    BY Hosts DEF Null
  <2> QED
    BY <1>1, <1>2, <1>3, <1>6, <2>1, Tells
<1> QED
  BY <1>1, <1>5, <1>6

\* Nothing happens, or the call aborts.
LEMMA Standing ==
    ASSUME TypeInv, failed' \in BOOLEAN,
           UNCHANGED <<job, master, control, nb, hdls, chan, posted, data, segs, locks, servers>>
    PROVE  TypeInv' /\ Stepped
<1> USE DEF TypeInv
<1>1. UNCHANGED <<job, master, pc, stage, mode, nb, hdls, chan, posted, fence, mem, sem, ptrs, reg,
                  num, mutexes, lq, srv>>
  BY DEF control, data, segs, locks, servers
<1>2. ControlOK' /\ HandlesOK' /\ LinksOK'
  BY <1>1, SameControl, SameHandles, SameLinks
<1>3. MemoryOK' /\ MutexesOK'
  BY <1>1, SameMemory, SameMutexes DEF MemoryOK
<1>4. \A w \in Worker, m \in Server : Linked(w, m)
  BY <1>1, SameLinked
<1>5. Calm({})
  BY <1>1, <1>4 DEF Calm, Stays
<1> QED
  BY <1>1, <1>2, <1>3, <1>5, Whole DEF Stepped

-----------------------------------------------------------------------------
(* Collective steps *)

\* A finite set of numbers has an i-th smallest.
LEMMA Ranked ==
    ASSUME NEW S \in SUBSET Nat, IsFiniteSet(S), NEW i \in 1 .. Cardinality(S)
    PROVE  \E v \in S : Cardinality({u \in S : u <= v}) = i
<1> DEFINE Lowest(v) == {u \in S : u <= v}
           f == [v \in S |-> Cardinality(Lowest(v))]
           n == Cardinality(S)
<1>1. n \in Nat
  BY FS_CardinalityType
<1>2. \A v \in S : IsFiniteSet(Lowest(v)) /\ f[v] \in Nat /\ f[v] <= n /\ f[v] # 0
  <2> TAKE v \in S
  <2>1. Lowest(v) \in SUBSET S /\ Lowest(v) # {}
    BY v <= v
  <2> HIDE DEF Lowest
  <2>2. IsFiniteSet(Lowest(v)) /\ Cardinality(Lowest(v)) <= n
    BY <2>1, FS_Subset
  <2>3. Cardinality(Lowest(v)) \in Nat /\ Cardinality(Lowest(v)) # 0
    BY <2>1, <2>2, FS_CardinalityType, FS_EmptySet
  <2> QED
    BY <2>2, <2>3
<1>3. \A v, w \in S : v < w => f[v] < f[w]
  <2> SUFFICES ASSUME NEW v \in S, NEW w \in S, v < w PROVE f[v] < f[w]
    OBVIOUS
  <2>1. Lowest(v) \subseteq Lowest(w) /\ w \in Lowest(w) /\ w \notin Lowest(v)
    <3>1. v \in Nat /\ w \in Nat /\ \A u \in S : u \in Nat
      OBVIOUS
    <3>2. \A u \in S : u <= v => u <= w
      BY <3>1
    <3>3. w <= w /\ ~(w <= v)
      BY <3>1
    <3> QED
      BY <3>2, <3>3
  <2>2. f[v] \in Nat /\ f[w] \in Nat /\ IsFiniteSet(Lowest(w))
    BY <1>2
  <2>3. f[v] = Cardinality(Lowest(v)) /\ f[w] = Cardinality(Lowest(w))
    OBVIOUS
  <2> HIDE DEF Lowest, f
  <2>4. Cardinality(Lowest(v)) <= Cardinality(Lowest(w))
        /\ (Cardinality(Lowest(w)) = Cardinality(Lowest(v)) => Lowest(w) = Lowest(v))
    BY <2>1, <2>2, FS_Subset
  <2> QED
    BY <2>1, <2>2, <2>3, <2>4
<1>4. f \in Injection(S, 1 .. n)
  <2>1. f \in [S -> 1 .. n]
    <3>1. \A v \in S : f[v] \in 1 .. n
      <4> HIDE DEF f, n, Lowest
      <4> QED
        BY <1>1, <1>2
    <3> QED
      BY <3>1
  <2>2. \A v, w \in S : f[v] = f[w] => v = w
    <3>1. \A v \in S : v \in Nat /\ f[v] \in Nat
      BY <1>2
    <3> HIDE DEF f
    <3> QED
      BY <1>3, <3>1
  <2> HIDE DEF f, n
  <2> QED
    BY <2>1, <2>2 DEF Injection, IsInjective
<1>5. IsFiniteSet(1 .. n) /\ Cardinality(1 .. n) = n
  <2> HIDE DEF n
  <2>1. /\ IsFiniteSet(1 .. n)
        /\ Cardinality(1 .. n) = IF 1 > n THEN 0 ELSE n - 1 + 1
    BY <1>1, FS_Interval
  <2> QED
    BY <1>1, <2>1
<1>6. f \in Surjection(S, 1 .. n)
  <2>1. Cardinality(S) = Cardinality(1 .. n)
    BY <1>5
  <2> HIDE DEF f, n
  <2> QED
    BY <1>4, <1>5, <2>1, FS_Injection
<1>7. PICK v \in S : f[v] = i
  <2> HIDE DEF f
  <2> QED
    BY <1>6 DEF Surjection
<1> QED
  BY <1>7

\* Those that meet are in the same part of their calls.
LEMMA Meeting ==
    ASSUME TypeInv, NEW ws \in SUBSET Worker, NEW s \in {"sync", "gather"}, Met(ws, s)
    PROVE  \A w \in ws : /\ Active(w) /\ mode[w] = "run" /\ Cur(w).op \notin Issuing
                         /\ Stage(w) = s /\ Cur(w) \in Call
<1> SUFFICES ASSUME NEW w \in ws
             PROVE  /\ Active(w) /\ mode[w] = "run" /\ Cur(w).op \notin Issuing
                    /\ Stage(w) = s /\ Cur(w) \in Call
  OBVIOUS
<1>1. Active(w) /\ mode[w] = "run" /\ Stage(w) = s
  BY DEF Met, At
<1>2. JobOK /\ ControlOK /\ w \in Worker
  BY DEF TypeInv
<1>3. Cur(w).op \in Issuing => Stage(w) = Cur(w).op
  BY <1>1, <1>2, StageOf
<1>4. Cur(w) \in Call
  BY <1>1, <1>2, CallFacts
<1> QED
  BY <1>1, <1>3, <1>4 DEF Issuing

LEMMA Syncing ==
    ASSUME TypeInv, NEW ws \in SUBSET Worker, Sync(ws) \/ GatherFree(ws)
    PROVE  TypeInv' /\ Stepped
<1>1. /\ Met(ws, "sync") \/ Met(ws, "gather")
      /\ Advance(ws)
      /\ UNCHANGED <<job, master, nb, hdls, chan, posted, fence, mem, sem, ptrs, reg, num, mutexes,
                     lq, srv, failed>>
  BY DEF Sync, GatherFree, data, segs, locks, servers
<1>2. \A w \in ws : /\ Active(w) /\ mode[w] = "run" /\ Cur(w).op \notin Issuing
                    /\ Stage(w) = "fence" => Flagged(w) = {}
  <2>1. CASE Met(ws, "sync")
    BY <2>1, Meeting
  <2>2. CASE Met(ws, "gather")
    BY <2>2, Meeting
  <2> QED
    BY <1>1, <2>1, <2>2
<1>3. /\ mem' \in Cells /\ ptrs' \in Ptrs /\ reg' \in Caches /\ num' \in [Worker -> Seq(Int)]
      /\ failed' \in BOOLEAN /\ HandlesOK'
  BY <1>1, SameHandles DEF TypeInv, MemoryOK, MutexesOK
<1> QED
  BY <1>1, <1>2, <1>3, Goes

\* The segments of a comex_malloc
LEMMA Allocating ==
    ASSUME TypeInv, NEW ws \in SUBSET Worker, GatherMalloc(ws)
    PROVE  TypeInv' /\ Stepped
<1> USE DEF TypeInv
<1>1. /\ Met(ws, "gather") /\ Advance(ws) /\ \A w \in ws : Unused(w) # {}
      /\ reg' = [p \in Ranks |->
           IF p \in ws /\ Allocated(p) # Null THEN reg[p] \cup {<<p, Allocated(p)>>} ELSE reg[p]]
      /\ ptrs' = [w \in Worker |->
           IF w \notin ws THEN ptrs[w]
           ELSE [ptrs[w] EXCEPT ![Cur(w).seg] =
                   [v \in Worker |-> IF v \in ws THEN Allocated(v) ELSE Null]]]
      /\ UNCHANGED <<job, master, nb, hdls, chan, posted, fence, mem, sem, num, mutexes, lq, srv,
                     failed>>
  BY DEF GatherMalloc, data, locks, servers
<1>2. \A w \in ws : /\ Active(w) /\ mode[w] = "run" /\ Cur(w).op \notin Issuing
                    /\ Stage(w) = "gather" /\ Cur(w) \in Call
  BY <1>1, Meeting
<1>3. \A w \in ws : Allocated(w) \in Somewhere
  <2> TAKE w \in ws
  <2>1. Unused(w) \in SUBSET Addr /\ Unused(w) # {}
    BY <1>1 DEF Unused
  <2>2. Addr \in SUBSET Int /\ IsFiniteSet(Addr)
    <3>1. MaxAddr \in Int /\ 1 \in Int
      BY BoundAssumption
    <3> QED
      BY <3>1, FS_Interval DEF Addr
  <2>3. IsFiniteSet(Unused(w)) /\ Unused(w) \in SUBSET Int
    <3>1. IsFiniteSet(Unused(w))
      BY <2>1, <2>2, FS_Subset
    <3> QED
      BY <2>1, <2>2, <3>1
  <2>4. Min(Unused(w)) \in Unused(w)
    BY <2>1, <2>3, SmallestOf
  <2> QED
    BY <2>1, <2>4 DEF Allocated, Somewhere
<1>4. ptrs' \in Ptrs
  <2>1. ptrs \in [Worker -> [Segment -> [Worker -> Somewhere]]]
    BY DEF MemoryOK, Ptrs
  <2>2. [v \in Worker |-> IF v \in ws THEN Allocated(v) ELSE Null] \in [Worker -> Somewhere]
    BY <1>3 DEF Somewhere
  <2>3. \A w \in Worker : ptrs'[w] \in [Segment -> [Worker -> Somewhere]]
    BY <1>1, <2>1, <2>2
  <2> QED
    BY <1>1, <2>3 DEF Ptrs
<1>5. reg' \in Caches
  <2>1. reg \in [Ranks -> SUBSET Entry] /\ Ranks \subseteq Rank
    BY Hosts DEF MemoryOK, Caches
  <2>2. \A p \in ws : Allocated(p) # Null => Allocated(p) \in Addr
    BY <1>3 DEF Somewhere
  <2>3. \A p \in Ranks : p \in ws /\ Allocated(p) # Null => <<p, Allocated(p)>> \in Entry
    BY <2>1, <2>2 DEF Entry
  <2>4. \A p \in Ranks : reg'[p] \in SUBSET Entry
    BY <1>1, <2>1, <2>3
  <2> QED
    BY <1>1, <2>4 DEF Caches
<1>6. /\ mem' \in Cells /\ num' \in [Worker -> Seq(Int)] /\ failed' \in BOOLEAN /\ HandlesOK'
  BY <1>1, SameHandles DEF MemoryOK, MutexesOK
<1> QED
  BY <1>1, <1>2, <1>4, <1>5, <1>6, Goes

\* The numbers of mutexes of all
LEMMA Counting ==
    ASSUME TypeInv, NEW ws \in SUBSET Worker, GatherCreate(ws)
    PROVE  TypeInv' /\ Stepped
<1> USE DEF TypeInv
<1> DEFINE v(i) == CHOOSE x \in ws : Cardinality({u \in ws : u <= x}) = i
<1>1. /\ Met(ws, "gather") /\ Advance(ws)
      /\ Assert(\A w \in ws : num[w] = <<>>)
      /\ num' = [w \in Worker |-> [i \in 1 .. Cardinality(ws) |-> Cur(v(i)).val]]
      /\ UNCHANGED <<job, master, nb, hdls, chan, posted, fence, mem, sem, ptrs, reg, mutexes, lq,
                     srv>>
  BY DEF GatherCreate, data, segs, servers
<1>2. \A w \in ws : /\ Active(w) /\ mode[w] = "run" /\ Cur(w).op \notin Issuing
                    /\ Stage(w) = "gather" /\ Cur(w) \in Call
  BY <1>1, Meeting
<1>3. ws \in SUBSET Nat /\ IsFiniteSet(ws) /\ Cardinality(ws) \in Nat
  <2>1. ws \in SUBSET Rank /\ Rank \subseteq Nat
    BY Hosts
  <2> QED
    BY <2>1, RankAssumption, FS_Subset, FS_CardinalityType
<1>4. \A i \in 1 .. Cardinality(ws) : Cur(v(i)).val \in Int
  <2> TAKE i \in 1 .. Cardinality(ws)
  <2>1. \E x \in ws : Cardinality({u \in ws : u <= x}) = i
    BY <1>3, Ranked
  <2>2. v(i) \in ws
    BY <2>1
  <2> HIDE DEF v
  <2>3. Cur(v(i)) \in Call
    BY <1>2, <2>2
  <2> QED
    BY <2>3 DEF Call
<1>5. num' \in [Worker -> Seq(Int)]
  <2> HIDE DEF v
  <2>1. [i \in 1 .. Cardinality(ws) |-> Cur(v(i)).val] \in Seq(Int)
    <3> DEFINE n == Cardinality(ws)
    <3>1. [i \in 1 .. n |-> Cur(v(i)).val] \in [1 .. n -> Int]
      BY <1>4
    <3> QED
      BY <1>3, <3>1, SeqDef
  <2> QED
    BY <1>1, <2>1
<1>6. /\ mem' \in Cells /\ ptrs' \in Ptrs /\ reg' \in Caches /\ failed' \in BOOLEAN /\ HandlesOK'
  BY <1>1, Asserting, SameHandles DEF MemoryOK
<1> QED
  BY <1>1, <1>2, <1>5, <1>6, Goes

\* All leave.
LEMMA Leaving ==
    ASSUME TypeInv, Leave
    PROVE  TypeInv' /\ Stepped
<1> USE DEF TypeInv
<1>1. /\ Advance(Worker) /\ \A w \in Worker : At(w, "leave")
      /\ UNCHANGED <<job, master, nb, hdls, chan, posted, fence, mem, sem, ptrs, reg, num, mutexes,
                     lq, srv, failed>>
  BY DEF Leave, data, segs, locks, servers
<1>2. \A w \in Worker : /\ Active(w) /\ mode[w] = "run" /\ Cur(w).op \notin Issuing
                        /\ Stage(w) = "fence" => Flagged(w) = {}
  BY <1>1, StageOf DEF At, Issuing
<1>3. /\ mem' \in Cells /\ ptrs' \in Ptrs /\ reg' \in Caches /\ num' \in [Worker -> Seq(Int)]
      /\ failed' \in BOOLEAN /\ HandlesOK' /\ Worker \in SUBSET Worker
  BY <1>1, SameHandles DEF MemoryOK, MutexesOK
<1> QED
  BY <1>1, <1>2, <1>3, Goes

-----------------------------------------------------------------------------
(* The actions of a server *)

\* The queues of a rank are thrown away, ...
LEMMA Clearing ==
    ASSUME MutexesOK, UNCHANGED <<job, master>>, NEW w \in Worker, NEW e, NEW m \in Server,
           Incoming(m, w, {"OP_CREATE_MUTEXES", "OP_DESTROY_MUTEXES"}),
           \A i \in DOMAIN e : e[i] = <<>>, lq' = [lq EXCEPT ![w] = e]
    PROVE  Fewer
<1>1. lq \in [Worker -> Seq(Seq(Worker))]
  BY DEF MutexesOK
<1>2. Worker' = Worker /\ master' = master
  BY SameHosts
<1>3. \A o \in Worker : o # w => lq'[o] = lq[o]
  BY <1>1
<1>4. \A i \in DOMAIN lq'[w] : \A k \in DOMAIN lq'[w][i] : FALSE
  <2>1. lq'[w] = e /\ DOMAIN <<>> = {}
    BY <1>1
  <2> QED
    BY <2>1
<1>5. \A v \in Worker, k \in Server : Queued(v, k)' => Queued(v, k)
  BY <1>2, <1>3, <1>4 DEF Queued
<1>6. QueuedOnce => QueuedOnce'
  BY <1>2, <1>3, <1>4 DEF QueuedOnce
<1>7. ASSUME ReplacedUnused, NEW v \in Worker, NEW k \in Server, Queued(v, k)
      PROVE  Queued(v, k)'
  <2>1. \A i \in DOMAIN lq[w] : \A l \in DOMAIN lq[w][i] : FALSE
    <3>1. DOMAIN <<>> = {}
      OBVIOUS
    <3> QED
      BY <1>7, <3>1 DEF ReplacedUnused
  <2> QED
    BY <1>2, <1>3, <1>7, <2>1 DEF Queued
<1> QED
  BY <1>5, <1>6, <1>7 DEF Fewer

\* ... and one of them gets a new queue.
Put(s, i, e)     == [s EXCEPT ![i] = e]
Requeue(o, i, e) == lq' = [lq EXCEPT ![o] = Put(lq[o], i, e)]

LEMMA Replacing ==
    ASSUME NEW T, NEW s \in Seq(T), NEW i, NEW e \in T
    PROVE  /\ Put(s, i, e) \in Seq(T) /\ Len(Put(s, i, e)) = Len(s)
           /\ DOMAIN Put(s, i, e) = DOMAIN s
           /\ \A j \in DOMAIN s : Put(s, i, e)[j] = IF j = i THEN e ELSE s[j]
<1> DEFINE t == Put(s, i, e)
           n == Len(s)
<1>1. n \in Nat /\ s \in [1 .. n -> T] /\ DOMAIN s = 1 .. n
  BY LenProperties
<1>2. t \in [1 .. n -> T] /\ \A j \in DOMAIN s : t[j] = IF j = i THEN e ELSE s[j]
  <2> HIDE DEF n
  <2> QED
    BY <1>1 DEF Put
<1>3. DOMAIN t = 1 .. n /\ t \in Seq(T)
  <2> HIDE DEF n, t
  <2> QED
    BY <1>1, <1>2, SeqDef
<1>4. Len(t) = n
  <2> HIDE DEF n, t
  <2>1. Len(t) \in Nat /\ DOMAIN t = 1 .. Len(t)
    BY <1>3, LenProperties
  <2> QED
    BY <1>1, <1>3, <2>1
<1> QED
  BY <1>1, <1>2, <1>3, <1>4

LEMMA Requeued ==
    ASSUME MutexesOK, UNCHANGED <<job, master>>, NEW o \in Worker, NEW i \in DOMAIN mutexes[o],
           NEW e \in Seq(Worker), Requeue(o, i, e)
    PROVE  /\ lq' \in [Worker -> Seq(Seq(Worker))]
           /\ \A p \in Worker : Len(lq'[p]) = Len(lq[p]) /\ DOMAIN lq'[p] = DOMAIN lq[p]
           /\ i \in DOMAIN lq[o] /\ lq[o][i] \in Seq(Worker) /\ lq'[o][i] = e
           /\ \A p \in Worker : \A j \in DOMAIN lq[p] : p # o \/ j # i => lq'[p][j] = lq[p][j]
<1>1. /\ lq \in [Worker -> Seq(Seq(Worker))] /\ mutexes \in [Worker -> Seq(Int)]
      /\ Len(lq[o]) = Len(mutexes[o])
  BY DEF MutexesOK
<1>2. i \in DOMAIN lq[o]
  <2>1. DOMAIN lq[o] = 1 .. Len(lq[o]) /\ DOMAIN mutexes[o] = 1 .. Len(mutexes[o])
    BY <1>1, LenProperties
  <2> QED
    BY <1>1, <2>1
<1>3. lq[o] \in Seq(Seq(Worker)) /\ lq[o][i] \in Seq(Worker)
  <2>1. lq[o] \in Seq(Seq(Worker))
    BY <1>1
  <2> QED
    BY <1>2, <2>1, ElementOfSeq
<1> DEFINE new == Put(lq[o], i, e)
<1>4. lq' = [lq EXCEPT ![o] = new]
  BY DEF Requeue
<1>5. /\ new \in Seq(Seq(Worker)) /\ Len(new) = Len(lq[o]) /\ DOMAIN new = DOMAIN lq[o]
      /\ \A j \in DOMAIN lq[o] : new[j] = IF j = i THEN e ELSE lq[o][j]
  BY <1>3, Replacing
<1> HIDE DEF new
<1>6. lq'[o] = new /\ \A p \in Worker : p # o => lq'[p] = lq[p]
  BY <1>1, <1>4
<1>7. lq' \in [Worker -> Seq(Seq(Worker))]
  BY <1>1, <1>4, <1>5
<1> QED
  BY <1>1, <1>2, <1>3, <1>5, <1>6, <1>7

\* A worker joins a queue of m, ...
LEMMA Joining ==
    ASSUME MutexesOK, UNCHANGED <<job, master>>, NEW o \in Worker, NEW i \in DOMAIN mutexes[o],
           NEW w \in Worker, lq' = [lq EXCEPT ![o][i] = Append(@, w)]
    PROVE  /\ lq' \in [Worker -> Seq(Seq(Worker))]
           /\ \A p \in Worker : Len(lq'[p]) = Len(lq[p])
           /\ \A v \in Worker, k \in Server :
                 Queued(v, k)' <=> Queued(v, k) \/ (v = w /\ k = master[o])
           /\ QueuedOnce /\ ~Queued(w, master[o]) => QueuedOnce'
<1> DEFINE s == lq[o][i]
<1>1. s \in Seq(Worker) /\ lq' = [lq EXCEPT ![o][i] = Append(s, w)]
  <2>1. /\ lq \in [Worker -> Seq(Seq(Worker))] /\ mutexes \in [Worker -> Seq(Int)]
        /\ Len(lq[o]) = Len(mutexes[o])
    BY DEF MutexesOK
  <2>2. lq[o] \in Seq(Seq(Worker)) /\ i \in DOMAIN lq[o]
    <3>1. DOMAIN lq[o] = 1 .. Len(lq[o]) /\ DOMAIN mutexes[o] = 1 .. Len(mutexes[o])
      BY <2>1, LenProperties
    <3> QED
      BY <2>1, <3>1
  <2>3. s \in Seq(Worker)
    BY <2>2, ElementOfSeq
  <2> QED
    BY <2>1, <2>2, <2>3
<1> DEFINE t == Append(s, w)
<1>2. /\ t \in Seq(Worker) /\ DOMAIN t = DOMAIN s \cup {Len(s) + 1} /\ t[Len(s) + 1] = w
      /\ \A k \in DOMAIN s : t[k] = s[k]
  <2> HIDE DEF s
  <2> QED
    BY <1>1, AppendFacts
<1>3. /\ lq' \in [Worker -> Seq(Seq(Worker))]
      /\ \A p \in Worker : Len(lq'[p]) = Len(lq[p]) /\ DOMAIN lq'[p] = DOMAIN lq[p]
      /\ i \in DOMAIN lq[o] /\ lq'[o][i] = t
      /\ \A p \in Worker : \A j \in DOMAIN lq[p] : p # o \/ j # i => lq'[p][j] = lq[p][j]
  <2>1. Requeue(o, i, t) /\ t \in Seq(Worker)
    BY <1>1, <1>2 DEF Requeue, Put
  <2> HIDE DEF s, t
  <2> QED
    BY <2>1, Requeued
<1>4. Worker' = Worker /\ master' = master
  BY SameHosts
<1> DEFINE new(p, j, k) == p = o /\ j = i /\ k = Len(s) + 1
<1>5. \A p \in Worker : \A j \in DOMAIN lq'[p] : \A k \in DOMAIN lq'[p][j] :
         \/ new(p, j, k) /\ lq'[p][j][k] = w
         \/ ~new(p, j, k) /\ j \in DOMAIN lq[p] /\ k \in DOMAIN lq[p][j] /\ lq'[p][j][k] = lq[p][j][k]
  <2> SUFFICES ASSUME NEW p \in Worker, NEW j \in DOMAIN lq'[p], NEW k \in DOMAIN lq'[p][j]
               PROVE  \/ new(p, j, k) /\ lq'[p][j][k] = w
                      \/ /\ ~new(p, j, k) /\ j \in DOMAIN lq[p] /\ k \in DOMAIN lq[p][j]
                         /\ lq'[p][j][k] = lq[p][j][k]
    OBVIOUS
  <2>1. CASE p = o /\ j = i
    <3>1. lq'[p][j] = t /\ lq[p][j] = s /\ j \in DOMAIN lq[p]
      BY <1>3, <2>1
    <3>2. DOMAIN s = 1 .. Len(s) /\ Len(s) \in Nat
      BY <1>1, LenProperties
    <3> HIDE DEF s, t
    <3>3. k = Len(s) + 1 \/ (k \in DOMAIN s /\ k # Len(s) + 1)
      BY <1>2, <3>1, <3>2
    <3> QED
      BY <1>2, <2>1, <3>1, <3>3
  <2>2. CASE ~(p = o /\ j = i)
    <3> HIDE DEF s, t
    <3> QED
      BY <1>3, <2>2
  <2> QED
    BY <2>1, <2>2
<1>6. \A p \in Worker : \A j \in DOMAIN lq[p] : \A k \in DOMAIN lq[p][j] :
         j \in DOMAIN lq'[p] /\ k \in DOMAIN lq'[p][j] /\ lq'[p][j][k] = lq[p][j][k]
  <2> SUFFICES ASSUME NEW p \in Worker, NEW j \in DOMAIN lq[p], NEW k \in DOMAIN lq[p][j]
               PROVE  j \in DOMAIN lq'[p] /\ k \in DOMAIN lq'[p][j] /\ lq'[p][j][k] = lq[p][j][k]
    OBVIOUS
  <2>1. CASE p = o /\ j = i
    <3>1. lq'[p][j] = t /\ lq[p][j] = s
      BY <1>3, <2>1
    <3> HIDE DEF s, t
    <3> QED
      BY <1>2, <1>3, <2>1, <3>1
  <2>2. CASE ~(p = o /\ j = i)
    <3> HIDE DEF s, t
    <3> QED
      BY <1>3, <2>2
  <2> QED
    BY <2>1, <2>2
<1>7. i \in DOMAIN lq'[o] /\ Len(s) + 1 \in DOMAIN lq'[o][i] /\ lq'[o][i][Len(s) + 1] = w
  <2> HIDE DEF s, t
  <2> QED
    BY <1>2, <1>3
<1> DEFINE last == Len(s) + 1
<1> HIDE DEF s, t, last
<1>8. ASSUME NEW v \in Worker, NEW k \in Server
      PROVE  Queued(v, k)' <=> Queued(v, k) \/ (v = w /\ k = master[o])
  <2>1. Queued(v, k)' => Queued(v, k) \/ (v = w /\ k = master[o])
    BY <1>4, <1>5 DEF Queued
  <2>2. Queued(v, k) => Queued(v, k)'
    BY <1>4, <1>6 DEF Queued
  <2>3. Queued(w, master[o])'
    BY <1>4, <1>7 DEF Queued
  <2> QED
    BY <1>4, <2>1, <2>2, <2>3
<1>9. ASSUME QueuedOnce, ~Queued(w, master[o]) PROVE QueuedOnce'
  <2>1. \A p \in Worker : master[p] = master[o] => \A j \in DOMAIN lq[p] :
           \A k \in DOMAIN lq[p][j] : lq[p][j][k] # w
    BY <1>9 DEF Queued
  <2>2. SUFFICES ASSUME NEW p \in Worker, NEW q \in Worker, master[p] = master[q],
                        NEW j \in DOMAIN lq'[p], NEW l \in DOMAIN lq'[q],
                        NEW k \in DOMAIN lq'[p][j], NEW n \in DOMAIN lq'[q][l],
                        lq'[p][j][k] = lq'[q][l][n]
                 PROVE  p = q /\ j = l /\ k = n
    BY <1>4 DEF QueuedOnce
  <2>3. CASE new(p, j, k) /\ new(q, l, n)
    BY <2>3
  <2>4. CASE ~new(p, j, k) /\ ~new(q, l, n)
    <3>1. /\ j \in DOMAIN lq[p] /\ k \in DOMAIN lq[p][j] /\ lq'[p][j][k] = lq[p][j][k]
          /\ l \in DOMAIN lq[q] /\ n \in DOMAIN lq[q][l] /\ lq'[q][l][n] = lq[q][l][n]
      BY <1>5, <2>4
    <3> QED
      BY <1>9, <2>2, <3>1 DEF QueuedOnce
  <2>5. CASE new(p, j, k) /\ ~new(q, l, n)
    <3>1. /\ lq'[p][j][k] = w /\ p = o
          /\ l \in DOMAIN lq[q] /\ n \in DOMAIN lq[q][l] /\ lq'[q][l][n] = lq[q][l][n]
      BY <1>5, <2>5
    <3> QED
      BY <2>1, <2>2, <3>1
  <2>6. CASE ~new(p, j, k) /\ new(q, l, n)
    <3>1. /\ lq'[q][l][n] = w /\ q = o
          /\ j \in DOMAIN lq[p] /\ k \in DOMAIN lq[p][j] /\ lq'[p][j][k] = lq[p][j][k]
      BY <1>5, <2>6
    <3> QED
      BY <2>1, <2>2, <3>1
  <2> QED
    BY <2>3, <2>4, <2>5, <2>6
<1> QED
  BY <1>3, <1>8, <1>9

\* ... or the first in a queue leaves it.
LEMMA Granting ==
    ASSUME MutexesOK, UNCHANGED <<job, master>>, NEW o \in Worker, NEW i \in DOMAIN mutexes[o],
           lq[o][i] # <<>>, lq' = [lq EXCEPT ![o][i] = Tail(@)]
    PROVE  /\ lq' \in [Worker -> Seq(Seq(Worker))]
           /\ \A p \in Worker : Len(lq'[p]) = Len(lq[p])
           /\ \E u \in Worker :
                 /\ u = Head(lq[o][i]) /\ Queued(u, master[o])
                 /\ QueuedOnce => QueuedOnce' /\ ~Queued(u, master[o])'
                 /\ \A v \in Worker, k \in Server :
                       v # u \/ k # master[o] => (Queued(v, k)' <=> Queued(v, k))
<1> DEFINE s == lq[o][i]
           t == Tail(s)
<1>1. s \in Seq(Worker) /\ s # <<>> /\ Requeue(o, i, t) /\ i \in DOMAIN lq[o]
  <2>1. /\ lq \in [Worker -> Seq(Seq(Worker))] /\ mutexes \in [Worker -> Seq(Int)]
        /\ Len(lq[o]) = Len(mutexes[o])
    BY DEF MutexesOK
  <2>2. lq[o] \in Seq(Seq(Worker)) /\ i \in DOMAIN lq[o]
    <3>1. DOMAIN lq[o] = 1 .. Len(lq[o]) /\ DOMAIN mutexes[o] = 1 .. Len(mutexes[o])
      BY <2>1, LenProperties
    <3> QED
      BY <2>1, <3>1
  <2>3. s \in Seq(Worker)
    BY <2>2, ElementOfSeq
  <2> QED
    BY <2>1, <2>2, <2>3 DEF Requeue, Put
<1>2. /\ t \in Seq(Worker) /\ Head(s) \in Worker /\ 1 \in DOMAIN s /\ Head(s) = s[1]
      /\ \A k \in DOMAIN t : k + 1 \in DOMAIN s /\ t[k] = s[k + 1]
      /\ \A k \in DOMAIN s : k # 1 => k - 1 \in DOMAIN t /\ t[k - 1] = s[k]
  <2> HIDE DEF s
  <2> QED
    BY <1>1, TailFacts
<1>3. /\ lq' \in [Worker -> Seq(Seq(Worker))]
      /\ \A p \in Worker : Len(lq'[p]) = Len(lq[p]) /\ DOMAIN lq'[p] = DOMAIN lq[p]
      /\ lq'[o][i] = t
      /\ \A p \in Worker : \A j \in DOMAIN lq[p] : p # o \/ j # i => lq'[p][j] = lq[p][j]
  <2> HIDE DEF s, t
  <2> QED
    BY <1>1, <1>2, Requeued
<1>4. Worker' = Worker /\ Server' = Server /\ master' = master
  BY SameHosts
<1>5. PICK u \in Worker : u = s[1] /\ u = Head(s)
  BY <1>2
<1> DEFINE Was(p, j, k) == IF p = o /\ j = i THEN k + 1 ELSE k
<1>6. \A k \in DOMAIN s : k \in Nat
  <2> HIDE DEF s
  <2>1. DOMAIN s = 1 .. Len(s) /\ Len(s) \in Nat
    BY <1>1, LenProperties
  <2> QED
    BY <2>1
<1>7. \A p \in Worker : \A j \in DOMAIN lq'[p] : \A k \in DOMAIN lq'[p][j] :
         /\ j \in DOMAIN lq[p] /\ Was(p, j, k) \in DOMAIN lq[p][j]
         /\ lq'[p][j][k] = lq[p][j][Was(p, j, k)]
         /\ p = o /\ j = i => k \in Nat /\ k # 0
  <2> SUFFICES ASSUME NEW p \in Worker, NEW j \in DOMAIN lq'[p], NEW k \in DOMAIN lq'[p][j]
               PROVE  /\ j \in DOMAIN lq[p] /\ Was(p, j, k) \in DOMAIN lq[p][j]
                      /\ lq'[p][j][k] = lq[p][j][Was(p, j, k)]
                      /\ p = o /\ j = i => k \in Nat /\ k # 0
    OBVIOUS
  <2>1. CASE p = o /\ j = i
    <3>1. lq'[p][j] = t /\ lq[p][j] = s /\ Was(p, j, k) = k + 1
      BY <1>3, <2>1
    <3> HIDE DEF s, t, Was
    <3>2. k \in Nat /\ k # 0
      <4>1. DOMAIN t = 1 .. Len(t) /\ Len(t) \in Nat
        BY <1>2, LenProperties
      <4> QED
        BY <3>1, <4>1
    <3> QED
      BY <1>1, <1>2, <2>1, <3>1, <3>2
  <2>2. CASE ~(p = o /\ j = i)
    <3> HIDE DEF s, t
    <3> QED
      BY <1>3, <2>2
  <2> QED
    BY <2>1, <2>2
<1>8. \A p \in Worker : \A j \in DOMAIN lq[p] : \A k \in DOMAIN lq[p][j] :
         \/ p = o /\ j = i /\ k = 1
         \/ \E l \in DOMAIN lq'[p][j] : lq'[p][j][l] = lq[p][j][k]
  <2> SUFFICES ASSUME NEW p \in Worker, NEW j \in DOMAIN lq[p], NEW k \in DOMAIN lq[p][j]
               PROVE  \/ p = o /\ j = i /\ k = 1
                      \/ \E l \in DOMAIN lq'[p][j] : lq'[p][j][l] = lq[p][j][k]
    OBVIOUS
  <2>1. CASE p = o /\ j = i
    <3>1. lq'[p][j] = t /\ lq[p][j] = s
      BY <1>3, <2>1
    <3> HIDE DEF s, t
    <3>2. k \in DOMAIN s
      BY <3>1
    <3>3. CASE k # 1
      <4>1. k - 1 \in DOMAIN t /\ t[k - 1] = s[k]
        BY <1>2, <3>2, <3>3
      <4> QED
        BY <3>1, <4>1
    <3> QED
      BY <2>1, <3>3
  <2>2. CASE ~(p = o /\ j = i)
    <3> HIDE DEF s, t
    <3> QED
      BY <1>3, <2>2
  <2> QED
    BY <2>1, <2>2
<1>9. \A j \in DOMAIN lq[o] : j = i => 1 \in DOMAIN lq[o][j] /\ lq[o][j][1] = u
  BY <1>2, <1>5
<1>10. ASSUME NEW v \in Worker, NEW k \in Server PROVE Queued(v, k)' => Queued(v, k)
  <2>1. SUFFICES ASSUME NEW p \in Worker, master[p] = k, NEW j \in DOMAIN lq'[p],
                        NEW l \in DOMAIN lq'[p][j], lq'[p][j][l] = v
                 PROVE  Queued(v, k)
    BY <1>4 DEF Queued
  <2>2. j \in DOMAIN lq[p] /\ Was(p, j, l) \in DOMAIN lq[p][j] /\ lq[p][j][Was(p, j, l)] = v
    BY <1>7, <2>1
  <2> HIDE DEF Was
  <2> QED
    BY <2>1, <2>2 DEF Queued
<1>11. ASSUME NEW v \in Worker, NEW k \in Server, v # u \/ k # master[o], Queued(v, k)
       PROVE  Queued(v, k)'
  <2>1. PICK p \in Worker : master[p] = k /\ \E j \in DOMAIN lq[p] : \E l \in DOMAIN lq[p][j] :
                               lq[p][j][l] = v
    BY <1>11 DEF Queued
  <2>2. PICK j \in DOMAIN lq[p] : \E l \in DOMAIN lq[p][j] : lq[p][j][l] = v
    BY <2>1
  <2>3. PICK l \in DOMAIN lq[p][j] : lq[p][j][l] = v
    BY <2>2
  <2>4. ~(p = o /\ j = i /\ l = 1)
    BY <1>9, <1>11, <2>1, <2>3
  <2>5. \E n \in DOMAIN lq'[p][j] : lq'[p][j][n] = v
    BY <1>8, <2>3, <2>4
  <2>6. j \in DOMAIN lq'[p]
    BY <1>3
  <2> QED
    BY <1>4, <2>1, <2>5, <2>6 DEF Queued
<1>12. Queued(u, master[o])
  BY <1>1, <1>9 DEF Queued
<1>13. ASSUME QueuedOnce PROVE QueuedOnce'
  <2>1. SUFFICES ASSUME NEW p \in Worker, NEW q \in Worker, master[p] = master[q],
                        NEW j \in DOMAIN lq'[p], NEW l \in DOMAIN lq'[q],
                        NEW k \in DOMAIN lq'[p][j], NEW n \in DOMAIN lq'[q][l],
                        lq'[p][j][k] = lq'[q][l][n]
                 PROVE  p = q /\ j = l /\ k = n
    BY <1>4 DEF QueuedOnce
  <2>2. /\ j \in DOMAIN lq[p] /\ Was(p, j, k) \in DOMAIN lq[p][j]
        /\ lq'[p][j][k] = lq[p][j][Was(p, j, k)]
        /\ l \in DOMAIN lq[q] /\ Was(q, l, n) \in DOMAIN lq[q][l]
        /\ lq'[q][l][n] = lq[q][l][Was(q, l, n)]
        /\ p = o /\ j = i => k \in Nat
        /\ q = o /\ l = i => n \in Nat
    BY <1>7
  <2>3. p = q /\ j = l /\ Was(p, j, k) = Was(q, l, n)
    <3> HIDE DEF Was
    <3> QED
      BY <1>13, <2>1, <2>2 DEF QueuedOnce
  <2> QED
    BY <2>2, <2>3
<1>14. ASSUME QueuedOnce PROVE ~Queued(u, master[o])'
  <2>1. SUFFICES ASSUME NEW p \in Worker, master[p] = master[o], NEW j \in DOMAIN lq'[p],
                        NEW k \in DOMAIN lq'[p][j], lq'[p][j][k] = u
                 PROVE  FALSE
    BY <1>4 DEF Queued
  <2>2. /\ j \in DOMAIN lq[p] /\ Was(p, j, k) \in DOMAIN lq[p][j]
        /\ u = lq[p][j][Was(p, j, k)]
        /\ p = o /\ j = i => k \in Nat /\ k # 0
    BY <1>7, <2>1
  <2>3. 1 \in DOMAIN lq[o][i] /\ lq[o][i][1] = u /\ i \in DOMAIN lq[o]
    BY <1>1, <1>9
  <2>4. p = o /\ j = i /\ Was(p, j, k) = 1
    <3> HIDE DEF Was, s, t
    <3> QED
      BY <1>14, <2>1, <2>2, <2>3 DEF QueuedOnce
  <2> QED
    BY <2>2, <2>4
<1> QED
  <2> HIDE DEF Was, t
  <2>1. u = Head(lq[o][i])
    BY <1>5
  <2> QED
    BY <1>3, <1>10, <1>11, <1>12, <1>13, <1>14, <2>1

\* A server is done with the first message of w, ...
LEMMA Serving ==
    ASSUME TypeInv, NEW m \in Server, NEW w \in Worker, NEW ops,
           Incoming(m, w, ops), Receive(m, w),
           UNCHANGED <<job, master, pc, stage, mode, nb, hdls, fence, srv>>
    PROVE  /\ Serves(w, m) /\ ControlOK' /\ HandlesOK' /\ ChanOK'
           /\ Head(Ongoing(w, m)) = Msg(m, w) /\ Msg(m, w).op \in ops
           /\ Msg(m, w) \in Message /\ Sensible(Msg(m, w), m)
<1> USE DEF TypeInv
<1>1. ControlOK' /\ HandlesOK' /\ \A v \in Worker : Stays(v)
  BY SameControl, SameHandles DEF Stays
<1>2. /\ ChanOK' /\ Msg(m, w) \in Message /\ Sensible(Msg(m, w), m) /\ Msg(m, w).op \in ops
      /\ Msg(m, w) = Head(Ongoing(w, m))
  BY Receiving
<1>3. /\ Ongoing(w, m) # <<>> /\ Ongoing(w, m)' = Tail(Ongoing(w, m))
      /\ \A v \in Worker, k \in Server : v # w \/ k # m => Ongoing(v, k)' = Ongoing(v, k)
  BY Handled
<1> QED
  BY <1>1, <1>2, <1>3 DEF Serves

\* ... which it answers, ...
LEMMA Answers ==
    ASSUME TypeInv, NEW m \in Server, NEW w \in Worker,
           NEW ops \in SUBSET {"OP_GET", "OP_FENCE", "OP_CREATE_MUTEXES", "OP_DESTROY_MUTEXES",
                               "OP_LOCK", "OP_MALLOC", "OP_FREE"},
           Incoming(m, w, ops), Receive(m, w), Answer(m, w), Fewer,
           UNCHANGED <<job, master, pc, stage, mode, nb, hdls, fence, mem, sem, ptrs, srv>>,
           reg' \in Caches, MutexesOK'
    PROVE  TypeInv' /\ Stepped
<1> USE DEF TypeInv
<1>1. /\ Serves(w, m) /\ ControlOK' /\ HandlesOK' /\ ChanOK'
      /\ Head(Ongoing(w, m)) = Msg(m, w) /\ Msg(m, w).op \in ops
  BY Serving
<1>2. /\ PostedOK'
      /\ posted[w][m] # <<>> => posted'[w][m] = Tail(posted[w][m])
      /\ \A v \in Worker, k \in Server : v # w \/ k # m => posted'[v][k] = posted[v][k]
  BY Answering DEF LinksOK
<1>3. Answered(Head(Ongoing(w, m)))
  BY <1>1 DEF Answered
<1>4. Replies(w, m)
  BY <1>1, <1>2, <1>3 DEF Replies
<1>5. MemoryOK'
  BY SameMemory DEF MemoryOK
<1>6. LinksOK'
  BY <1>1, <1>2 DEF LinksOK
<1> QED
  BY <1>1, <1>4, <1>5, <1>6, Whole DEF Stepped, Served

\* ... or does not answer.
LEMMA Swallows ==
    ASSUME TypeInv, NEW m \in Server, NEW w \in Worker,
           NEW ops \in SUBSET {"OP_PUT", "OP_UNLOCK", "OP_QUIT"},
           Incoming(m, w, ops), Receive(m, w),
           UNCHANGED <<job, master, pc, stage, mode, nb, hdls, posted, fence, sem, ptrs, reg, srv, lq>>,
           mem' \in Cells, MutexesOK'
    PROVE  TypeInv' /\ Stepped
<1> USE DEF TypeInv
<1>1. /\ Serves(w, m) /\ ControlOK' /\ HandlesOK' /\ ChanOK'
      /\ Head(Ongoing(w, m)) = Msg(m, w) /\ Msg(m, w).op \in ops
  BY Serving
<1>2. ~Answered(Head(Ongoing(w, m)))
  BY <1>1 DEF Answered
<1>3. Drops(w, m)
  BY <1>1, <1>2 DEF Drops
<1>4. LinksOK'
  BY <1>1, SamePosted DEF LinksOK
<1>5. MemoryOK'
  BY SameMemory DEF MemoryOK
<1> QED
  BY <1>1, <1>3, <1>4, <1>5, Whole DEF Stepped, Served

LEMMA SameQueues ==
    ASSUME UNCHANGED <<job, master, lq>>
    PROVE  Fewer
BY SameQueued DEF Fewer

\* What a message to memory is about
LEMMA Addressed ==
    ASSUME TypeInv, NEW m \in Server, NEW h \in Message, Sensible(h, m), h.op \in ToMem
    PROVE  /\ h.rank \in Rank /\ h.id \in Somewhere /\ h.val \in Int
           /\ mem[h.rank][h.id] \in Int /\ m \in Rank
<1>1. h.rank \in Worker /\ h.id \in Somewhere /\ h.val \in Int
  BY DEF Sensible, Message
<1>2. h.rank \in Rank /\ m \in Rank /\ mem \in [Rank -> [Somewhere -> Int]]
  BY <1>1, Hosts DEF TypeInv, MemoryOK, Cells
<1> QED
  BY <1>1, <1>2

\* Puts and gets
LEMMA Putting ==
    ASSUME TypeInv, NEW m \in Server, NEW w \in Worker, PutHandler(m, w)
    PROVE  TypeInv' /\ Stepped
<1> DEFINE h == Msg(m, w)
<1>1. /\ Incoming(m, w, {"OP_PUT"}) /\ Receive(m, w)
      /\ Assert(<<h.rank, h.id>> \in reg[m]) /\ mem' = [mem EXCEPT ![h.rank][h.id] = h.val]
      /\ UNCHANGED <<job, master, pc, stage, mode, nb, hdls, posted, fence, sem, ptrs, reg, num,
                     mutexes, lq, srv>>
  BY DEF PutHandler, Registered, control, segs, locks, servers
<1>2. h \in Message /\ Sensible(h, m) /\ h.op \in {"OP_PUT"}
  BY <1>1, Serving
<1> HIDE DEF h
<1>3. h.rank \in Rank /\ h.id \in Somewhere /\ h.val \in Int
  BY <1>2, Addressed DEF ToMem
<1>4. mem' \in Cells
  BY <1>1, <1>3, Writing DEF TypeInv, MemoryOK
<1>5. MutexesOK'
  BY <1>1, Asserting, SameMutexes DEF TypeInv
<1> QED
  BY <1>1, <1>4, <1>5, Swallows

LEMMA Fetching ==
    ASSUME TypeInv, NEW m \in Server, NEW w \in Worker,
           GetHandler(m, w) \/ FenceHandler(m, w) \/ MallocHandler(m, w) \/ FreeHandler(m, w)
    PROVE  TypeInv' /\ Stepped
<1> DEFINE ops == {"OP_GET", "OP_FENCE", "OP_MALLOC", "OP_FREE"}
           e == Msg(m, w).entries
<1>1. /\ Incoming(m, w, ops) /\ Receive(m, w) /\ Answer(m, w)
      /\ \E ok : Assert(ok)
      /\ reg' = reg \/ reg' = [reg EXCEPT ![m] = @ \cup e] \/ reg' = [reg EXCEPT ![m] = @ \ e]
      /\ UNCHANGED <<job, master, pc, stage, mode, nb, hdls, fence, mem, sem, ptrs, num,
                     mutexes, lq, srv>>
  <2>1. CASE GetHandler(m, w)
    BY <2>1 DEF GetHandler, Incoming, control, segs, locks, servers
  <2>2. CASE FenceHandler(m, w)
    BY <2>2 DEF FenceHandler, Incoming, control, data, segs, locks, servers
  <2>3. CASE MallocHandler(m, w)
    BY <2>3 DEF MallocHandler, Incoming, control, data, segs, locks, servers
  <2>4. CASE FreeHandler(m, w)
    BY <2>4 DEF FreeHandler, Incoming, control, data, segs, locks, servers
  <2> QED
    BY <2>1, <2>2, <2>3, <2>4
<1>2. Msg(m, w) \in Message
  BY <1>1, Serving
<1>3. reg' \in Caches
  <2>1. e \in SUBSET Entry
    BY <1>2 DEF Message
  <2>2. reg \in [Ranks -> SUBSET Entry]
    BY DEF TypeInv, MemoryOK, Caches
  <2> HIDE DEF e
  <2> QED
    BY <1>1, <2>1, <2>2 DEF Caches
<1>4. MutexesOK'
  <2>1. PICK ok : Assert(ok)
    BY <1>1
  <2> QED
    BY <1>1, <2>1, Asserting, SameMutexes DEF TypeInv
<1>5. Fewer
  BY <1>1, SameQueues
<1> QED
  BY <1>1, <1>3, <1>4, <1>5, Answers

LEMMA Stopping ==
    ASSUME TypeInv, NEW m \in Server, NEW w \in Worker, Quit(m, w)
    PROVE  TypeInv' /\ Stepped
<1>1. /\ Incoming(m, w, {"OP_QUIT"}) /\ Receive(m, w)
      /\ UNCHANGED <<job, master, pc, stage, mode, nb, hdls, posted, fence, mem, sem, ptrs, reg, num,
                     mutexes, lq, srv, failed>>
  BY DEF Quit, control, data, segs, locks
<1>2. mem' \in Cells /\ MutexesOK'
  BY <1>1, SameMutexes DEF TypeInv, MemoryOK, MutexesOK
<1> QED
  BY <1>1, <1>2, Swallows

\* Updates in two steps
LEMMA Reading ==
    ASSUME TypeInv, NEW m \in Server, NEW w \in Worker, AccHandler(m, w) \/ RmwHandler(m, w)
    PROVE  TypeInv' /\ Stepped
<1> USE DEF TypeInv
<1> DEFINE ops == {"OP_ACC", "OP_FETCH_AND_ADD", "OP_SWAP"}
           h == Msg(m, w)
<1>1. /\ Incoming(m, w, ops) /\ Receive(m, w) /\ Begin(m, w)
      /\ sem' = sem \/ sem' = [sem EXCEPT ![h.rank] = m]
      /\ UNCHANGED <<job, master, pc, stage, mode, nb, hdls, posted, fence, mem, ptrs, reg, num,
                     mutexes, lq>>
  BY DEF AccHandler, RmwHandler, Incoming, control, data, segs, locks
<1>2. /\ srv' \in Updates /\ \A v \in Worker : srv'[v] = srv[v]
      /\ \A v \in Worker, k \in Server : Ongoing(v, k)' = Ongoing(v, k)
  BY <1>1, Beginning
<1>3. /\ ChanOK' /\ h \in Message /\ Sensible(h, m) /\ h.op \in ops
  BY <1>1, Receiving
<1>4. /\ ControlOK' /\ HandlesOK' /\ LinksOK'
  BY <1>1, <1>2, <1>3, SameControl, SameHandles, SamePosted DEF LinksOK
<1>5. MemoryOK'
  <2>1. h.rank \in Rank /\ m \in Rank
    <3> HIDE DEF h
    <3> QED
      BY <1>3, Addressed DEF ToMem
  <2>2. sem' \in Sems
    <3>1. [sem EXCEPT ![h.rank] = m] \in Sems
      <4> HIDE DEF h
      <4> QED
        BY <2>1, Semaphore DEF MemoryOK
    <3> QED
      BY <1>1, <3>1 DEF MemoryOK
  <2> QED
    BY <1>1, <1>2, <2>2, SameMemory DEF MemoryOK
<1>6. MutexesOK'
  <2>1. Assert(<<h.rank, h.id>> \in reg[m])
    BY <1>1 DEF Begin, Registered
  <2>2. failed' \in BOOLEAN
    BY <2>1, Asserting
  <2> QED
    BY <1>1, <2>2, SameMutexes
<1>7. Calm({})
  BY <1>1, <1>2 DEF Calm, Stays, Linked
<1> QED
  BY <1>1, <1>4, <1>5, <1>6, <1>7, Whole DEF Stepped

\* What a server has in hand
LEMMA HandFacts ==
    ASSUME MemoryOK, NEW m \in Ranks, srv[m] # <<>>
    PROVE  /\ srv[m][1].msg.rank \in Rank /\ srv[m][1].msg.id \in Somewhere
           /\ srv[m][1].old \in Int /\ srv[m][1].msg.val \in Int
           /\ srv[m][1].msg.op \in {"OP_ACC", "OP_FETCH_AND_ADD", "OP_SWAP"}
           /\ srv[m][1].from \in Worker
<1>1. srv[m] \in {<<>>} \cup {<<u>> : u \in InHand}
  BY DEF MemoryOK, Updates
<1>2. PICK u \in InHand : srv[m] = <<u>>
  BY <1>1
<1>3. srv[m][1] = u
  BY <1>2
<1> QED
  BY <1>3 DEF InHand

LEMMA Finishing ==
    ASSUME TypeInv, NEW m \in Server, AccApply(m) \/ RmwApply(m)
    PROVE  TypeInv' /\ Stepped
<1> USE DEF TypeInv
<1> DEFINE s == srv[m][1]
           r == s.msg.rank
           a == s.msg.id
<1>1. /\ srv[m] # <<>> /\ srv' = [srv EXCEPT ![m] = <<>>]
      /\ \E x \in {s.msg.val, s.old + s.msg.val} : mem' = [mem EXCEPT ![r][a] = x]
      /\ sem' = sem \/ sem' = [sem EXCEPT ![r] = UNLOCKED]
      /\ UNCHANGED <<job, master, pc, stage, mode, nb, hdls, chan, fence, ptrs, reg, num,
                     mutexes, lq>>
      /\ \/ s.msg.op = "OP_ACC" /\ UNCHANGED <<posted, failed>>
         \/ /\ s.msg.op \in {"OP_FETCH_AND_ADD", "OP_SWAP"}
            /\ Answer(m, s.from) /\ Assert(Expected(m, s.from))
  <2>1. CASE AccApply(m)
    BY <2>1 DEF AccApply, Busy, control, segs, locks
  <2>2. CASE RmwApply(m)
    BY <2>2 DEF RmwApply, Busy, control, segs, locks
  <2> QED
    BY <2>1, <2>2
<1>2. /\ r \in Rank /\ a \in Somewhere /\ s.msg.val \in Int /\ s.old + s.msg.val \in Int
      /\ s.from \in Worker
  <2>1. m \in Ranks
    BY Hosts
  <2>2. /\ r \in Rank /\ a \in Somewhere /\ s.msg.val \in Int /\ s.old \in Int /\ s.from \in Worker
    BY <1>1, <2>1, HandFacts
  <2> HIDE DEF s
  <2> QED
    BY <2>2
<1>3. mem' \in Cells /\ sem' \in Sems
  <2> HIDE DEF s, r, a
  <2>1. PICK x \in Int : mem' = [mem EXCEPT ![r][a] = x]
    BY <1>1, <1>2
  <2>2. mem' \in Cells
    BY <1>2, <2>1, Writing DEF MemoryOK
  <2>3. [sem EXCEPT ![r] = UNLOCKED] \in Sems
    BY <1>2, Semaphore DEF MemoryOK
  <2> QED
    BY <1>1, <2>2, <2>3 DEF MemoryOK
<1>4. /\ srv' \in Updates /\ \A v \in Worker : srv'[v] = srv[v]
      /\ \E w \in Worker :
            /\ w = s.from /\ Head(Ongoing(w, m)) = s.msg
            /\ Ongoing(w, m) # <<>> /\ Ongoing(w, m)' = Tail(Ongoing(w, m))
            /\ \A v \in Worker, k \in Server : v # w \/ k # m => Ongoing(v, k)' = Ongoing(v, k)
  BY <1>1, Applying
<1>5. PICK w \in Worker :
            /\ w = s.from /\ Head(Ongoing(w, m)) = s.msg
            /\ Ongoing(w, m) # <<>> /\ Ongoing(w, m)' = Tail(Ongoing(w, m))
            /\ \A v \in Worker, k \in Server : v # w \/ k # m => Ongoing(v, k)' = Ongoing(v, k)
  BY <1>4
<1> HIDE DEF s, r, a
<1>6. ControlOK' /\ HandlesOK' /\ MemoryOK' /\ ChanOK'
  BY <1>1, <1>3, <1>4, SameControl, SameHandles, SameMemory, SameChan DEF MemoryOK, LinksOK
<1>7. Serves(w, m)
  BY <1>1, <1>5 DEF Serves, Stays
<1>8. CASE s.msg.op = "OP_ACC" /\ UNCHANGED <<posted, failed>>
  <2>1. PostedOK' /\ MutexesOK'
    BY <1>1, <1>8, SamePosted, SameMutexes DEF LinksOK, MutexesOK
  <2>2. Drops(w, m)
    BY <1>1, <1>5, <1>7, <1>8 DEF Drops, Answered
  <2> QED
    BY <1>1, <1>6, <2>1, <2>2, Whole DEF Stepped, Served, LinksOK
<1>9. CASE /\ s.msg.op \in {"OP_FETCH_AND_ADD", "OP_SWAP"}
           /\ Answer(m, s.from) /\ Assert(Expected(m, s.from))
  <2>1. Answer(m, w)
    BY <1>5, <1>9
  <2>2. /\ PostedOK'
        /\ posted[w][m] # <<>> => posted'[w][m] = Tail(posted[w][m])
        /\ \A v \in Worker, k \in Server : v # w \/ k # m => posted'[v][k] = posted[v][k]
    BY <1>1, <2>1, Answering DEF LinksOK
  <2>3. MutexesOK'
    <3>1. failed' \in BOOLEAN
      BY <1>9, Asserting
    <3> QED
      BY <1>1, <3>1, SameMutexes
  <2>4. Fewer
    BY <1>1, SameQueues
  <2>5. Replies(w, m)
    BY <1>5, <1>7, <1>9, <2>2, <2>4 DEF Replies, Answered
  <2> QED
    BY <1>1, <1>6, <2>2, <2>3, <2>5, Whole DEF Stepped, Served, LinksOK
<1> QED
  BY <1>1, <1>8, <1>9

\* The table of a rank
LEMMA Tables ==
    ASSUME NEW T, NEW n \in Int, NEW e \in T
    PROVE  [i \in 1 .. n |-> e] \in Seq(T) /\ Len([i \in 1 .. n |-> e]) = IF n < 0 THEN 0 ELSE n
<1> DEFINE k == IF n < 0 THEN 0 ELSE n
           t == [i \in 1 .. n |-> e]
<1>1. k \in Nat /\ 1 .. n = 1 .. k
  OBVIOUS
<1> HIDE DEF k
<1>2. t \in [1 .. k -> T] /\ DOMAIN t = 1 .. k
  BY <1>1
<1> HIDE DEF t
<1>3. t \in Seq(T)
  BY <1>1, <1>2, SeqDef
<1>4. Len(t) = k
  <2>1. Len(t) \in Nat /\ DOMAIN t = 1 .. Len(t)
    BY <1>3, LenProperties
  <2> QED
    BY <1>1, <1>2, <2>1
<1> QED
  BY <1>3, <1>4 DEF k, t

LEMMA Tabling ==
    ASSUME TypeInv, NEW m \in Server, NEW w \in Worker,
           MutexCreateHandler(m, w) \/ MutexDestroyHandler(m, w)
    PROVE  TypeInv' /\ Stepped
<1> USE DEF TypeInv
<1> DEFINE ops == {"OP_CREATE_MUTEXES", "OP_DESTROY_MUTEXES"}
<1>1. /\ Incoming(m, w, ops) /\ Receive(m, w) /\ Answer(m, w)
      /\ \E ok : Assert(ok)
      /\ \E n \in {0, Msg(m, w).val} :
            /\ mutexes' = [mutexes EXCEPT ![w] = [i \in 1 .. n |-> UNLOCKED]]
            /\ lq' = [lq EXCEPT ![w] = [i \in 1 .. n |-> <<>>]]
      /\ UNCHANGED <<job, master, pc, stage, mode, nb, hdls, fence, mem, sem, ptrs, reg, num, srv>>
  <2>1. CASE MutexCreateHandler(m, w)
    BY <2>1 DEF MutexCreateHandler, Incoming, control, data, segs, servers
  <2>2. CASE MutexDestroyHandler(m, w)
    <3>1. [i \in 1 .. 0 |-> UNLOCKED] = <<>> /\ [i \in 1 .. 0 |-> <<>>] = <<>>
      OBVIOUS
    <3>2. /\ Incoming(m, w, {"OP_DESTROY_MUTEXES"}) /\ Receive(m, w) /\ Answer(m, w)
          /\ \E ok : Assert(ok)
          /\ mutexes' = [mutexes EXCEPT ![w] = <<>>] /\ lq' = [lq EXCEPT ![w] = <<>>]
          /\ UNCHANGED <<job, master, pc, stage, mode, nb, hdls, fence, mem, sem, ptrs, reg, num,
                         srv>>
      BY <2>2 DEF MutexDestroyHandler, control, data, segs, servers
    <3>3. Incoming(m, w, ops)
      BY <3>2 DEF Incoming
    <3> QED
      BY <3>1, <3>2, <3>3
  <2> QED
    BY <2>1, <2>2
<1>2. Msg(m, w) \in Message
  BY <1>1, Serving
<1>3. Msg(m, w).val \in Int
  BY <1>2 DEF Message
<1>4. PICK n \in Int : /\ mutexes' = [mutexes EXCEPT ![w] = [i \in 1 .. n |-> UNLOCKED]]
                       /\ lq' = [lq EXCEPT ![w] = [i \in 1 .. n |-> <<>>]]
  <2>1. PICK n \in {0, Msg(m, w).val} :
               /\ mutexes' = [mutexes EXCEPT ![w] = [i \in 1 .. n |-> UNLOCKED]]
               /\ lq' = [lq EXCEPT ![w] = [i \in 1 .. n |-> <<>>]]
    BY <1>1
  <2>2. n \in Int
    BY <1>3
  <2> QED
    BY <2>1, <2>2
<1> DEFINE t == [i \in 1 .. n |-> UNLOCKED]
           q == [i \in 1 .. n |-> <<>>]
<1>5. t \in Seq(Int) /\ q \in Seq(Seq(Worker)) /\ Len(t) = Len(q)
  <2>1. UNLOCKED \in Int /\ <<>> \in Seq(Worker)
    BY DEF UNLOCKED
  <2>2. t \in Seq(Int) /\ Len(t) = IF n < 0 THEN 0 ELSE n
    BY <2>1, Tables
  <2>3. q \in Seq(Seq(Worker)) /\ Len(q) = IF n < 0 THEN 0 ELSE n
    BY <2>1, Tables
  <2> HIDE DEF t, q
  <2> QED
    BY <2>2, <2>3
<1>6. Fewer
  <2>1. \A i \in DOMAIN q : q[i] = <<>>
    OBVIOUS
  <2>2. lq' = [lq EXCEPT ![w] = q]
    BY <1>4
  <2> HIDE DEF q
  <2> QED
    BY <1>1, <2>1, <2>2, Clearing
<1>7. MutexesOK'
  <2>1. mutexes' = [mutexes EXCEPT ![w] = t] /\ lq' = [lq EXCEPT ![w] = q]
    BY <1>4
  <2>2. PICK ok : Assert(ok)
    BY <1>1
  <2>3. failed' \in BOOLEAN
    BY <2>2, Asserting
  <2>4. /\ num \in [Worker -> Seq(Int)] /\ mutexes \in [Worker -> Seq(Int)]
        /\ lq \in [Worker -> Seq(Seq(Worker))] /\ \A o \in Worker : Len(lq[o]) = Len(mutexes[o])
    BY DEF MutexesOK
  <2> HIDE DEF t, q
  <2>5. /\ mutexes' \in [Worker -> Seq(Int)] /\ lq' \in [Worker -> Seq(Seq(Worker))]
        /\ \A o \in Worker : Len(lq'[o]) = Len(mutexes'[o])
    BY <1>5, <2>1, <2>4
  <2>6. num' \in [Worker -> Seq(Int)] /\ Worker' = Worker
    BY <1>1, <2>4, SameHosts
  <2> QED
    BY <2>3, <2>5, <2>6 DEF MutexesOK
<1>8. reg' \in Caches
  BY <1>1 DEF MemoryOK
<1> QED
  BY <1>1, <1>6, <1>7, <1>8, Answers

\* A mutex gets a new holder.
LEMMA Marking ==
    ASSUME MutexesOK, UNCHANGED <<job, master, num>>, NEW o \in Worker, NEW i, NEW v \in Int,
           mutexes' = [mutexes EXCEPT ![o][i] = v], failed' \in BOOLEAN,
           lq' \in [Worker -> Seq(Seq(Worker))], \A p \in Worker : Len(lq'[p]) = Len(lq[p])
    PROVE  MutexesOK'
<1>1. /\ mutexes \in [Worker -> Seq(Int)] /\ num \in [Worker -> Seq(Int)]
      /\ \A p \in Worker : Len(lq[p]) = Len(mutexes[p])
  BY DEF MutexesOK
<1> DEFINE s == mutexes[o]
           t == Put(s, i, v)
<1>2. t \in Seq(Int) /\ Len(t) = Len(s)
  <2>1. s \in Seq(Int)
    BY <1>1
  <2> HIDE DEF s
  <2> QED
    BY <2>1, Replacing
<1>3. mutexes' = [mutexes EXCEPT ![o] = t]
  BY DEF Put
<1> HIDE DEF t
<1>4. mutexes' \in [Worker -> Seq(Int)] /\ \A p \in Worker : Len(mutexes'[p]) = Len(mutexes[p])
  BY <1>1, <1>2, <1>3
<1>5. Worker' = Worker
  BY SameHosts
<1> QED
  BY <1>1, <1>4, <1>5 DEF MutexesOK

LEMMA SameTables ==
    ASSUME MutexesOK, UNCHANGED <<job, master, lq>>
    PROVE  lq' \in [Worker -> Seq(Seq(Worker))] /\ \A p \in Worker : Len(lq'[p]) = Len(lq[p])
BY DEF MutexesOK

LEMMA Granted ==
    ASSUME TypeInv, NEW m \in Server, NEW w \in Worker, LockHandler(m, w)
    PROVE  TypeInv' /\ Stepped
<1> USE DEF TypeInv
<1> DEFINE o == Msg(m, w).rank
           i == Msg(m, w).id + 1
<1>1. /\ Incoming(m, w, {"OP_LOCK"}) /\ Receive(m, w)
      /\ UNCHANGED <<job, master, pc, stage, mode, nb, hdls, fence, mem, sem, ptrs, reg, num, srv>>
      /\ \/ /\ Assert(Touches(o, i) /\ Expected(m, w))
            /\ mutexes' = [mutexes EXCEPT ![o][i] = w]
            /\ Answer(m, w) /\ UNCHANGED lq
         \/ /\ Touches(o, i) /\ lq' = [lq EXCEPT ![o][i] = Append(@, w)]
            /\ UNCHANGED <<mutexes, posted, failed>>
  BY DEF LockHandler, control, data, segs, servers
<1>2. /\ Serves(w, m) /\ ControlOK' /\ HandlesOK' /\ ChanOK'
      /\ Head(Ongoing(w, m)) = Msg(m, w) /\ Msg(m, w).op \in {"OP_LOCK"}
      /\ Msg(m, w) \in Message /\ Sensible(Msg(m, w), m)
  BY <1>1, Serving
<1>3. o \in Worker /\ master[o] = m /\ w \in Int
  BY <1>2, Hosts DEF Sensible
<1> HIDE DEF o, i
<1>4. CASE /\ Assert(Touches(o, i) /\ Expected(m, w))
           /\ mutexes' = [mutexes EXCEPT ![o][i] = w]
           /\ Answer(m, w) /\ UNCHANGED lq
  <2>1. MutexesOK'
    <3>1. failed' \in BOOLEAN
      BY <1>4, Asserting
    <3>2. lq' \in [Worker -> Seq(Seq(Worker))] /\ \A p \in Worker : Len(lq'[p]) = Len(lq[p])
      BY <1>1, <1>4, SameTables
    <3> QED
      BY <1>1, <1>3, <1>4, <3>1, <3>2, Marking
  <2>2. Fewer /\ reg' \in Caches
    BY <1>1, <1>4, SameQueues DEF MemoryOK
  <2> QED
    BY <1>1, <1>4, <2>1, <2>2, Answers
<1>5. CASE /\ Touches(o, i) /\ lq' = [lq EXCEPT ![o][i] = Append(@, w)]
           /\ UNCHANGED <<mutexes, posted, failed>>
  <2>1. i \in DOMAIN mutexes[o]
    BY <1>5 DEF Touches
  <2>2. /\ lq' \in [Worker -> Seq(Seq(Worker))]
        /\ \A p \in Worker : Len(lq'[p]) = Len(lq[p])
        /\ \A v \in Worker, k \in Server :
              Queued(v, k)' <=> Queued(v, k) \/ (v = w /\ k = master[o])
        /\ QueuedOnce /\ ~Queued(w, master[o]) => QueuedOnce'
    BY <1>1, <1>3, <1>5, <2>1, Joining
  <2>3. Enqueues(w, m)
    BY <1>2, <1>3, <1>5, <2>2 DEF Enqueues
  <2>4. MutexesOK'
    <3>1. Worker' = Worker
      BY <1>1, SameHosts
    <3> QED
      BY <1>1, <1>5, <2>2, <3>1 DEF MutexesOK
  <2>5. LinksOK' /\ MemoryOK'
    BY <1>1, <1>2, <1>5, SamePosted, SameMemory DEF LinksOK, MemoryOK
  <2> QED
    BY <1>1, <1>2, <2>3, <2>4, <2>5, Whole DEF Stepped, Served
<1> QED
  BY <1>1, <1>4, <1>5

LEMMA Released ==
    ASSUME TypeInv, NEW m \in Server, NEW w \in Worker, UnlockHandler(m, w)
    PROVE  TypeInv' /\ Stepped
<1> USE DEF TypeInv
<1> DEFINE rank == Msg(m, w).rank
           place == Msg(m, w).id + 1
<1>1. /\ Incoming(m, w, {"OP_UNLOCK"}) /\ Receive(m, w)
      /\ UNCHANGED <<job, master, pc, stage, mode, nb, hdls, fence, mem, sem, ptrs, reg, num, srv>>
      /\ \/ /\ Touches(rank, place) /\ lq[rank][place] # <<>>
            /\ mutexes' = [mutexes EXCEPT ![rank][place] = Head(lq[rank][place])]
            /\ lq' = [lq EXCEPT ![rank][place] = Tail(@)]
            /\ Answer(m, Head(lq[rank][place])) /\ Assert(Expected(m, Head(lq[rank][place])))
         \/ /\ Assert(Touches(rank, place))
            /\ mutexes' = [mutexes EXCEPT ![rank][place] = UNLOCKED]
            /\ UNCHANGED <<lq, posted>>
  BY DEF UnlockHandler, control, data, segs, servers
<1>2. /\ Serves(w, m) /\ ControlOK' /\ HandlesOK' /\ ChanOK'
      /\ Head(Ongoing(w, m)) = Msg(m, w) /\ Msg(m, w).op \in {"OP_UNLOCK"}
      /\ Msg(m, w) \in Message /\ Sensible(Msg(m, w), m)
  BY <1>1, Serving
<1>3. PICK o \in Worker, i \in Int : o = rank /\ i = place /\ master[o] = m
  <2>1. rank \in Worker /\ place \in Int /\ master[rank] = m
    BY <1>2 DEF Sensible, Message
  <2> HIDE DEF rank, place
  <2> QED
    BY <2>1
<1> HIDE DEF rank, place
<1>4. CASE /\ Touches(o, i) /\ lq[o][i] # <<>>
           /\ mutexes' = [mutexes EXCEPT ![o][i] = Head(lq[o][i])]
           /\ lq' = [lq EXCEPT ![o][i] = Tail(@)]
           /\ Answer(m, Head(lq[o][i])) /\ Assert(Expected(m, Head(lq[o][i])))
  <2>1. i \in DOMAIN mutexes[o]
    BY <1>4 DEF Touches
  <2>2. /\ lq' \in [Worker -> Seq(Seq(Worker))]
        /\ \A p \in Worker : Len(lq'[p]) = Len(lq[p])
        /\ \E u \in Worker :
              /\ u = Head(lq[o][i]) /\ Queued(u, master[o])
              /\ QueuedOnce => QueuedOnce' /\ ~Queued(u, master[o])'
              /\ \A v \in Worker, k \in Server :
                    v # u \/ k # master[o] => (Queued(v, k)' <=> Queued(v, k))
    BY <1>1, <1>4, <2>1, Granting
  <2>3. PICK u \in Worker :
              /\ u = Head(lq[o][i]) /\ Queued(u, m)
              /\ QueuedOnce => QueuedOnce' /\ ~Queued(u, m)'
              /\ \A v \in Worker, k \in Server :
                    v # u \/ k # m => (Queued(v, k)' <=> Queued(v, k))
    <3>1. master[o] = m /\ master'[o] = m
      BY <1>1, <1>3
    <3> QED
      BY <2>2, <3>1
  <2>4. /\ PostedOK'
        /\ posted[u][m] # <<>> => posted'[u][m] = Tail(posted[u][m])
        /\ \A v \in Worker, k \in Server : v # u \/ k # m => posted'[v][k] = posted[v][k]
    <3>1. Answer(m, u)
      BY <1>4, <2>3
    <3> QED
      BY <1>1, <3>1, Answering DEF LinksOK
  <2>5. Hands(w, m, u)
    BY <1>2, <2>3, <2>4 DEF Hands
  <2>6. MutexesOK'
    <3>1. failed' \in BOOLEAN
      BY <1>4, Asserting
    <3>2. mutexes' = [mutexes EXCEPT ![o][i] = u] /\ u \in Int
      BY <1>4, <2>3, Hosts
    <3> QED
      BY <1>1, <1>3, <2>2, <3>1, <3>2, Marking
  <2>7. LinksOK' /\ MemoryOK'
    BY <1>1, <1>2, <2>4, SameMemory DEF LinksOK, MemoryOK
  <2> QED
    BY <1>1, <1>2, <2>5, <2>6, <2>7, Whole DEF Stepped, Served
<1>5. CASE /\ Assert(Touches(o, i))
           /\ mutexes' = [mutexes EXCEPT ![o][i] = UNLOCKED]
           /\ UNCHANGED <<lq, posted>>
  <2>1. MutexesOK'
    <3>1. failed' \in BOOLEAN /\ UNLOCKED \in Int
      BY <1>5, Asserting DEF UNLOCKED
    <3>2. lq' \in [Worker -> Seq(Seq(Worker))] /\ \A p \in Worker : Len(lq'[p]) = Len(lq[p])
      BY <1>1, <1>5, SameTables
    <3> QED
      BY <1>1, <1>3, <1>5, <3>1, <3>2, Marking
  <2>2. mem' \in Cells
    BY <1>1 DEF MemoryOK
  <2> QED
    BY <1>1, <1>5, <2>1, <2>2, Swallows
<1> QED
  BY <1>1, <1>3, <1>4, <1>5

-----------------------------------------------------------------------------
(* The invariant *)

LEMMA Steps ==
    ASSUME TypeInv, [Next]_vars
    PROVE  TypeInv' /\ Stepped /\ UNCHANGED <<job, master>>
<1>1. ASSUME NEW w \in Worker, WorkerStep(w) PROVE TypeInv' /\ Stepped /\ UNCHANGED <<job, master>>
  <2>1. CASE DirectPut(w)
    BY <2>1, PuttingDirect DEF DirectPut
  <2>2. CASE DirectGet(w)
    BY <2>2, GettingDirect DEF DirectGet
  <2>3. CASE DirectAcc(w)
    BY <2>3, Accumulating DEF DirectAcc
  <2>4. CASE DirectAccApply(w)
    BY <2>4, Adding DEF DirectAccApply
  <2>5. CASE RemoteWrite(w)
    BY <2>5, Writes DEF RemoteWrite
  <2>6. CASE RemoteGet(w)
    BY <2>6, Reads DEF RemoteGet
  <2>7. CASE Rmw(w)
    BY <2>7, Updating DEF Rmw
  <2>8. CASE Return(w)
    BY <2>8, Returning DEF Return
  <2>9. CASE Wait(w) \/ Test(w) \/ WaitAll(w) \/ FenceProc(w)
    <3>1. UNCHANGED <<job, master>>
      BY <2>9 DEF Wait, Test, WaitAll, FenceProc, Complete
    <3> QED
      BY <2>9, <3>1, Completing
  <2>10. CASE Fence(w)
    BY <2>10, Flushing DEF Fence
  <2>11. CASE Notify(w)
    BY <2>11, Notifying DEF Notify
  <2>12. CASE Release(w)
    BY <2>12, Releasing DEF Release
  <2>13. CASE Create(w)
    BY <2>13, Creating DEF Create
  <2>14. CASE Destroy(w)
    BY <2>14, Destroying DEF Destroy
  <2>15. CASE Lock(w)
    BY <2>15, Locking DEF Lock
  <2>16. CASE Unlock(w)
    BY <2>16, Unlocking DEF Unlock
  <2>17. CASE SendQuit(w)
    BY <2>17, Quitting DEF SendQuit
  <2>18. CASE Exhausted(w)
    <3>1. Assert(FALSE)
          /\ UNCHANGED <<job, master, control, nb, hdls, chan, posted, data, segs, locks, servers>>
      BY <2>18 DEF Exhausted
    <3>2. failed' \in BOOLEAN
      BY <3>1, Asserting DEF TypeInv
    <3> QED
      BY <3>1, <3>2, Standing
  <2> QED
    BY <1>1, <2>1, <2>2, <2>3, <2>4, <2>5, <2>6, <2>7, <2>8, <2>9, <2>10, <2>11, <2>12, <2>13,
       <2>14, <2>15, <2>16, <2>17, <2>18 DEF WorkerStep
<1>2. ASSUME NEW m \in Server, ServerStep(m) PROVE TypeInv' /\ Stepped /\ UNCHANGED <<job, master>>
  <2>1. ASSUME NEW w \in Worker, PutHandler(m, w)
        PROVE  TypeInv' /\ Stepped /\ UNCHANGED <<job, master>>
    BY <2>1, Putting DEF PutHandler
  <2>2. ASSUME NEW w \in Worker,
               GetHandler(m, w) \/ FenceHandler(m, w) \/ MallocHandler(m, w) \/ FreeHandler(m, w)
        PROVE  TypeInv' /\ Stepped /\ UNCHANGED <<job, master>>
    BY <2>2, Fetching DEF GetHandler, FenceHandler, MallocHandler, FreeHandler
  <2>3. ASSUME NEW w \in Worker, AccHandler(m, w) \/ RmwHandler(m, w)
        PROVE  TypeInv' /\ Stepped /\ UNCHANGED <<job, master>>
    BY <2>3, Reading DEF AccHandler, RmwHandler
  <2>4. ASSUME NEW w \in Worker, MutexCreateHandler(m, w) \/ MutexDestroyHandler(m, w)
        PROVE  TypeInv' /\ Stepped /\ UNCHANGED <<job, master>>
    BY <2>4, Tabling DEF MutexCreateHandler, MutexDestroyHandler
  <2>5. ASSUME NEW w \in Worker, LockHandler(m, w)
        PROVE  TypeInv' /\ Stepped /\ UNCHANGED <<job, master>>
    BY <2>5, Granted DEF LockHandler
  <2>6. ASSUME NEW w \in Worker, UnlockHandler(m, w)
        PROVE  TypeInv' /\ Stepped /\ UNCHANGED <<job, master>>
    BY <2>6, Released DEF UnlockHandler
  <2>7. ASSUME NEW w \in Worker, Quit(m, w)
        PROVE  TypeInv' /\ Stepped /\ UNCHANGED <<job, master>>
    BY <2>7, Stopping DEF Quit
  <2>8. CASE AccApply(m) \/ RmwApply(m)
    BY <2>8, Finishing DEF AccApply, RmwApply
  <2> QED
    BY <1>2, <2>1, <2>2, <2>3, <2>4, <2>5, <2>6, <2>7, <2>8 DEF ServerStep
<1>3. ASSUME NEW ws \in SUBSET Worker, GroupStep(ws)
      PROVE  TypeInv' /\ Stepped /\ UNCHANGED <<job, master>>
  <2>1. CASE Sync(ws) \/ GatherFree(ws)
    BY <2>1, Syncing DEF Sync, GatherFree
  <2>2. CASE GatherMalloc(ws)
    BY <2>2, Allocating DEF GatherMalloc
  <2>3. CASE GatherCreate(ws)
    BY <2>3, Counting DEF GatherCreate
  <2> QED
    BY <1>3, <2>1, <2>2, <2>3 DEF GroupStep
<1>4. CASE Leave
  BY <1>4, Leaving DEF Leave
<1>5. CASE UNCHANGED vars
  <2>1. UNCHANGED <<job, master, control, nb, hdls, chan, posted, data, segs, locks, servers, failed>>
    BY <1>5 DEF vars
  <2>2. failed' \in BOOLEAN
    BY <2>1 DEF TypeInv, MutexesOK
  <2> QED
    BY <2>1, <2>2, Standing
<1> QED
  BY <1>1, <1>2, <1>3, <1>4, <1>5 DEF Next

LEMMA PrStep ==
    ASSUME PrInv, [Next]_vars
    PROVE  PrInv'
<1>1. /\ TypeInv /\ TypeInv' /\ Stepped /\ UNCHANGED <<job, master>> /\ QueuedOnce
      /\ \A w \in Worker, m \in Server : FlushedAt(w, m) /\ PairedAt(w, m) /\ NamedAt(w, m)
  BY Steps DEF PrInv
<1>2. QueuedOnce' /\ \A w \in Worker, m \in Server : PairedAt(w, m)'
  BY <1>1, PairedStepped
<1>3. \A w \in Worker, m \in Server : FlushedAt(w, m)'
  BY <1>1, FlushedStepped
<1>4. \A w \in Worker, m \in Server : NamedAt(w, m)'
  BY <1>1, NamedStepped
<1>5. Worker' = Worker /\ Server' = Server
  BY <1>1, SameHosts
<1> QED
  BY <1>1, <1>2, <1>3, <1>4, <1>5 DEF PrInv

\* At first nothing is under way.
LEMMA PrInit ==
    ASSUME Init
    PROVE  PrInv
<1>1. JobOK
  BY DEF Init, JobOK
<1>2. \A w \in Worker : pc[w] = 1 /\ stage[w] = 1 /\ mode[w] = "run" /\ lq[w] = <<>>
  BY DEF Init
<1>3. \A r \in Ranks : srv[r] = <<>>
  BY DEF Init
<1>4. \A w \in Worker, m \in Server :
         chan[w][m] = <<>> /\ posted[w][m] = <<>> /\ ~fence[w][m] /\ fence[w][m] \in BOOLEAN
  BY DEF Init
<1>5. ControlOK
  <2>1. /\ pc \in [Worker -> Nat \ {0}] /\ stage \in [Worker -> Nat \ {0}]
        /\ mode \in [Worker -> {"run", "wait", "acc"}]
    BY DEF Init
  <2>2. ASSUME NEW w \in Worker, Active(w) PROVE stage[w] <= Len(Stages(Cur(w).op))
    <3>1. pc[w] \in DOMAIN job.calls[w]
      BY <1>1, <1>2, <2>2, Hosts DEF Active
    <3>2. Cur(w) \in Call
      BY <1>1, <3>1, Hosts DEF Cur
    <3> QED
      BY <1>2, <3>2, StagesFacts
  <2> QED
    BY <1>2, <2>1, <2>2 DEF ControlOK
<1>6. HandlesOK
  <2>1. 0 \in Handle
    BY BoundAssumption DEF Handle
  <2> QED
    BY <2>1 DEF Init, HandlesOK
<1>7. LinksOK
  <2>1. chan \in [Worker -> [Server -> Seq(Message)]] /\ posted \in [Worker -> [Server -> Seq(Waiting)]]
    <3>1. <<>> \in Seq(Message) /\ <<>> \in Seq(Waiting)
      OBVIOUS
    <3> QED
      BY <3>1 DEF Init
  <2>2. \A w \in Worker, m \in Server : \A i \in DOMAIN chan[w][m] : FALSE
    <3>1. DOMAIN <<>> = {}
      OBVIOUS
    <3> QED
      BY <1>4, <3>1
  <2> QED
    BY <2>1, <2>2 DEF LinksOK, ChanOK, PostedOK
<1>8. MemoryOK
  <2>1. fence \in Flags /\ srv \in Updates
    BY DEF Init, Flags, Updates
  <2>2. mem \in Cells /\ sem \in Sems
    BY DEF Init, Cells, Sems, Somewhere
  <2>3. ptrs \in Ptrs /\ reg \in Caches
    BY DEF Init, Ptrs, Caches, Somewhere
  <2> QED
    BY <2>1, <2>2, <2>3 DEF MemoryOK
<1>9. MutexesOK
  <2>1. <<>> \in Seq(Int) /\ <<>> \in Seq(Seq(Worker))
    OBVIOUS
  <2> QED
    BY <2>1 DEF Init, MutexesOK
<1>10. QueuedOnce /\ \A w \in Worker, m \in Server : ~Queued(w, m)
  <2>1. \A w \in Worker : \A i \in DOMAIN lq[w] : FALSE
    <3>1. DOMAIN <<>> = {}
      OBVIOUS
    <3> QED
      BY <1>2, <3>1
  <2> QED
    BY <2>1 DEF QueuedOnce, Queued
<1>11. ASSUME NEW w \in Worker, NEW m \in Server
       PROVE  FlushedAt(w, m) /\ PairedAt(w, m) /\ NamedAt(w, m)
  <2>1. Ongoing(w, m) = <<>> /\ posted[w][m] = <<>>
    <3>1. m \in Ranks
      BY <1>1, Hosts
    <3>2. <<>> \o <<>> = <<>>
      OBVIOUS
    <3> QED
      BY <1>3, <1>4, <3>1, <3>2 DEF Ongoing
  <2>2. DOMAIN <<>> = {}
    OBVIOUS
  <2>3. FlushedAt(w, m)
    BY <1>4, <2>1, <2>2 DEF FlushedAt, Flushed
  <2>4. PairedAt(w, m)
    BY <1>10, <2>1, <2>2 DEF PairedAt, Paired, InOrder
  <2>5. NamedAt(w, m)
    BY <2>1, <2>2 DEF NamedAt
  <2> QED
    BY <2>3, <2>4, <2>5
<1> QED
  BY <1>1, <1>5, <1>6, <1>7, <1>8, <1>9, <1>10, <1>11 DEF PrInv, TypeInv

\* Requests and answers stay paired, writes flagged, and handles named, in every
\* run of every job.
THEOREM PrInvariant == Spec => []PrInv
<1>1. Init => PrInv
  BY PrInit
<1>2. PrInv /\ [Next]_vars => PrInv'
  BY PrStep
<1> QED
  BY <1>1, <1>2, PTL DEF Spec

\* Whoever waits for an answer has a request under way, if no table of mutexes
\* is replaced in use.
LEMMA WaitsStep ==
    ASSUME PrInv, WaitsSomewhere, ReplacedUnused, [Next]_vars
    PROVE  WaitsSomewhere'
<1>1. /\ TypeInv /\ Stepped /\ UNCHANGED <<job, master>> /\ QueuedOnce
      /\ \A w \in Worker, m \in Server : PairedAt(w, m)
  BY Steps DEF PrInv
<1>2. Worker' = Worker /\ Server' = Server
  BY <1>1, SameHosts
<1> DEFINE Waits(w, m) == posted[w][m] # <<>> => Ongoing(w, m) # <<>> \/ Queued(w, m)
<1>3. \A w \in Worker, m \in Server : Waits(w, m)
  BY DEF WaitsSomewhere
<1>4. ASSUME NEW w \in Worker, NEW m \in Server, Ongoing(w, m)' = Ongoing(w, m),
             posted'[w][m] = posted[w][m], Queued(w, m) => Queued(w, m)'
      PROVE  Waits(w, m)'
  BY <1>3, <1>4
<1>5. SUFFICES ASSUME NEW v \in Worker, NEW k \in Server PROVE Waits(v, k)'
  BY <1>2 DEF WaitsSomewhere
<1> HIDE DEF Waits
<1>6. ASSUME NEW ws \in SUBSET Worker, Calm(ws) PROVE Waits(v, k)'
  <2>1. Linked(v, k) /\ (Queued(v, k)' <=> Queued(v, k))
    BY <1>1, <1>6, SameQueued DEF Calm
  <2> QED
    BY <1>4, <2>1 DEF Linked
<1>7. ASSUME NEW w \in Worker, Resumes(w) PROVE Waits(v, k)'
  <2>1. Linked(v, k) /\ (Queued(v, k)' <=> Queued(v, k))
    BY <1>1, <1>7, SameQueued DEF Resumes
  <2> QED
    BY <1>4, <2>1 DEF Linked
<1>8. ASSUME NEW w \in Worker, NEW ms \in SUBSET Server, NEW h \in Message, Issues(w, ms, h)
      PROVE  Waits(v, k)'
  <2>1. CASE v # w \/ k \notin ms
    <3>1. Linked(v, k) /\ (Queued(v, k)' <=> Queued(v, k))
      BY <1>1, <1>8, <2>1, SameQueued DEF Issues
    <3> QED
      BY <1>4, <3>1 DEF Linked
  <2>2. CASE v = w /\ k \in ms
    <3>1. Ongoing(v, k)' = Append(Ongoing(v, k), h) /\ Ongoing(v, k) \in Seq(Message)
      BY <1>1, <1>8, <2>2, LinkTypes DEF Issues
    <3>2. Ongoing(v, k)' # <<>>
      BY <3>1, AppendFacts
    <3> QED
      BY <3>2 DEF Waits
  <2> QED
    BY <2>1, <2>2
<1>9. ASSUME NEW w \in Worker, NEW m \in Server, Serves(w, m),
             ~Answered(Head(Ongoing(w, m))), posted'[w][m] = posted[w][m],
             posted[w][m] # <<>>, ~Queued(w, m)
      PROVE  Ongoing(w, m)' # <<>>
  <2> DEFINE q == Ongoing(w, m)
             p == posted[w][m]
  <2>1. q \in Seq(Message) /\ p \in Seq(Waiting) /\ q # <<>> /\ Ongoing(w, m)' = Tail(q)
    BY <1>1, <1>9, LinkTypes DEF Serves
  <2>2. \A i \in DOMAIN p : \/ q = <<>>
                            \/ \E j \in DOMAIN q : Answered(q[j]) /\ q[j].call = p[i].call
    BY <1>1 DEF PairedAt, Paired
  <2> HIDE DEF q, p
  <2>3. 1 \in DOMAIN p
    BY <1>9, <2>1, TailFacts DEF p
  <2>4. PICK j \in DOMAIN q : Answered(q[j])
    BY <2>1, <2>2, <2>3
  <2>5. Head(q) = q[1] /\ \A i \in DOMAIN q : i # 1 => i - 1 \in DOMAIN Tail(q)
    BY <2>1, TailFacts
  <2>6. j # 1
    BY <1>9, <2>4, <2>5 DEF q
  <2>7. DOMAIN <<>> = {}
    OBVIOUS
  <2> QED
    BY <2>1, <2>4, <2>5, <2>6, <2>7
<1>10. ASSUME NEW m \in Server, Served(m) PROVE Waits(v, k)'
  <2>1. PICK w \in Worker : \/ Drops(w, m) \/ Replies(w, m) \/ Enqueues(w, m)
                            \/ \E u \in Worker : Hands(w, m, u)
    BY <1>10 DEF Served
  <2>2. Serves(w, m) /\ \A x \in Worker, y \in Server : x # w \/ y # m => Ongoing(x, y)' = Ongoing(x, y)
    BY <2>1 DEF Drops, Replies, Enqueues, Hands, Serves
  <2>3. CASE Drops(w, m)
    <3>1. (Queued(v, k)' <=> Queued(v, k)) /\ posted'[v][k] = posted[v][k]
          /\ ~Answered(Head(Ongoing(w, m)))
      BY <1>1, <2>3, SameQueued DEF Drops
    <3>2. CASE v = w /\ k = m
      BY <1>9, <2>2, <3>1, <3>2 DEF Waits
    <3> QED
      BY <1>4, <2>2, <3>1, <3>2
  <2>4. CASE Replies(w, m)
    <3>1. /\ Answered(Head(Ongoing(w, m))) /\ (Queued(v, k) => Queued(v, k)')
          /\ posted[w][m] # <<>> => posted'[w][m] = Tail(posted[w][m])
          /\ v # w \/ k # m => posted'[v][k] = posted[v][k]
      BY <2>4 DEF Replies, Fewer
    <3>2. CASE v = w /\ k = m
      <4> DEFINE q == Ongoing(w, m)
                 p == posted[w][m]
      <4>1. q \in Seq(Message) /\ p \in Seq(Waiting) /\ q # <<>> /\ Ongoing(w, m)' = Tail(q)
        BY <1>1, <2>2, LinkTypes DEF Serves
      <4>2. Paired(q, p, Now(w), mode[w] = "wait", nb[w].cur, Queued(w, m))
        BY <1>1 DEF PairedAt
      <4> HIDE DEF q, p
      <4>3. p # <<>> /\ posted'[w][m] = Tail(p)
        <5>1. Now(w) \in CallId
          BY <1>1, LinkTypes
        <5>2. p # <<>>
          BY <3>1, <4>1, <4>2, <5>1, PairedReplied DEF q
        <5> QED
          BY <3>1, <5>2 DEF p
      <4>4. SUFFICES ASSUME Tail(p) # <<>> PROVE Tail(q) # <<>>
        BY <3>2, <4>1, <4>3 DEF Waits
      <4>5. /\ 1 \in DOMAIN q /\ Head(q) = q[1] /\ 1 \in DOMAIN p /\ Tail(p) \in Seq(Waiting)
            /\ \A i \in DOMAIN q : i # 1 => i - 1 \in DOMAIN Tail(q)
            /\ \A i \in DOMAIN Tail(p) : i + 1 \in DOMAIN p /\ Tail(p)[i] = p[i + 1]
        BY <4>1, <4>3, TailFacts
      <4>6. 2 \in DOMAIN p
        <5>1. 1 \in DOMAIN Tail(p)
          BY <4>4, <4>5, TailFacts
        <5>2. 1 + 1 \in DOMAIN p
          BY <4>5, <5>1
        <5> QED
          BY <5>2
      <4>7. /\ InOrder(q) /\ InOrder(p)
            /\ \A i \in DOMAIN p : \E j \in DOMAIN q : Answered(q[j]) /\ q[j].call = p[i].call
        BY <4>1, <4>2 DEF Paired
      <4>8. PICK j \in DOMAIN q : q[j].call = p[2].call
        BY <4>6, <4>7
      <4>9. PICK l \in DOMAIN q : q[l].call = p[1].call
        BY <4>5, <4>7
      <4>10. Before(q[l].call, q[j].call)
        <5>1. Before(p[1].call, p[2].call)
          BY <4>5, <4>6, <4>7 DEF InOrder
        <5> QED
          BY <4>8, <4>9, <5>1
      <4>11. j # 1
        <5>1. \A i \in DOMAIN q : q[i].call \in CallId
          BY <4>1, <4>7, OrderFacts
        <5>2. SUFFICES ASSUME j = 1 PROVE FALSE
          OBVIOUS
        <5>3. l = 1 \/ 1 < l
          <6>1. DOMAIN q = 1 .. Len(q) /\ Len(q) \in Nat
            BY <4>1, LenProperties
          <6> QED
            BY <6>1
        <5>4. l = 1 \/ Before(q[1].call, q[l].call)
          BY <4>5, <4>7, <5>3 DEF InOrder
        <5> QED
          BY <4>10, <5>1, <5>2, <5>4, BeforeFacts
      <4>12. DOMAIN <<>> = {}
        OBVIOUS
      <4> QED
        BY <4>5, <4>8, <4>11, <4>12
    <3> QED
      BY <1>4, <2>2, <3>1, <3>2
  <2>5. CASE Enqueues(w, m)
    <3>1. posted'[v][k] = posted[v][k] /\ (Queued(v, k)' <=> Queued(v, k) \/ (v = w /\ k = m))
      BY <2>5 DEF Enqueues
    <3>2. CASE v = w /\ k = m
      BY <3>1, <3>2 DEF Waits
    <3> QED
      BY <1>4, <2>2, <3>1, <3>2
  <2>6. ASSUME NEW u \in Worker, Hands(w, m, u) PROVE Waits(v, k)'
    <3>1. /\ Head(Ongoing(w, m)).op = "OP_UNLOCK" /\ Queued(u, m) /\ ~Queued(u, m)'
          /\ posted[u][m] # <<>> => posted'[u][m] = Tail(posted[u][m])
          /\ v # u \/ k # m => posted'[v][k] = posted[v][k] /\ (Queued(v, k)' <=> Queued(v, k))
      BY <1>1, <2>6 DEF Hands
    <3>2. CASE v = u /\ k = m
      <4>1. Paired(Ongoing(u, m), posted[u][m], Now(u), mode[u] = "wait", nb[u].cur, Queued(u, m))
        BY <1>1 DEF PairedAt
      <4>2. Ongoing(u, m) \in Seq(Message) /\ posted[u][m] \in Seq(Waiting) /\ Now(u) \in CallId
        BY <1>1, LinkTypes
      <4> DEFINE q == Ongoing(u, m)
                 p == posted[u][m]
      <4>4. Queued(u, m) /\ ~Queued(u, m)'
        BY <3>1
      <4> HIDE DEF q, p
      <4>5. /\ q = <<>> /\ p # <<>> /\ Tail(p) = <<>>
            /\ Paired(q, Tail(p), Now(u), mode[u] = "wait", nb[u].cur, Queued(u, m)')
        BY <4>1, <4>2, <4>4, PairedHanded DEF q, p
      <4>3. posted[u][m] # <<>> /\ Tail(posted[u][m]) = <<>>
        BY <4>5 DEF p
      <4> QED
        BY <3>1, <3>2, <4>3 DEF Waits
    <3>3. CASE v = w /\ k = m /\ v # u
      <4>1. ~Answered(Head(Ongoing(w, m))) /\ posted'[w][m] = posted[w][m]
            /\ (Queued(w, m)' <=> Queued(w, m))
        BY <3>1, <3>3 DEF Answered
      <4> QED
        BY <1>9, <2>2, <3>3, <4>1 DEF Waits
    <3> QED
      BY <1>4, <2>2, <3>1, <3>2, <3>3
  <2> QED
    BY <2>1, <2>3, <2>4, <2>5, <2>6
<1> QED
  BY <1>1, <1>6, <1>7, <1>8, <1>10 DEF Stepped

\* The types of the invariant are those the runs check.
LEMMA PrTyped ==
    ASSUME PrInv
    PROVE  PrTypeOK
<1>1. TypeInv
  BY DEF PrInv
<1>2. /\ pc \in [Worker -> Nat \ {0}] /\ mode \in [Worker -> {"run", "wait", "acc"}]
      /\ stage \in [Worker -> Nat \ {0}]
  BY <1>1 DEF TypeInv, ControlOK
<1>3. \A w \in Worker : stage[w] \in 1 .. 7
  <2> TAKE w \in Worker
  <2>1. CASE Active(w)
    <3>1. stage[w] \in 1 .. Len(Stages(Cur(w).op)) /\ Len(Stages(Cur(w).op)) \in 1 .. 7
      BY <1>1, <2>1, CallFacts DEF TypeInv
    <3>2. \A l \in 1 .. 7 : \A s \in 1 .. l : s \in 1 .. 7
      OBVIOUS
    <3> QED
      BY <3>1, <3>2
  <2>2. CASE ~Active(w)
    BY <1>1, <2>2 DEF TypeInv, ControlOK
  <2> QED
    BY <2>1, <2>2
<1>4. pc \in [Worker -> Nat] /\ stage \in [Worker -> 1 .. 7]
  BY <1>2, <1>3
<1>5. nb \in [Worker -> [next : Handle, cur : Handle, used : SUBSET Handle,
                         listed : SUBSET Handle]]
  BY <1>1 DEF TypeInv, HandlesOK
<1>6. /\ reg \in [Ranks -> SUBSET (Rank \X Addr)] /\ fence \in [Worker -> [Server -> BOOLEAN]]
      /\ sem \in [Rank -> Rank \cup {UNLOCKED}]
  BY <1>1 DEF TypeInv, MemoryOK, Caches, Entry, Flags, Sems
<1>7. \A r \in Ranks : srv[r] = <<>> \/ srv[r] \in Seq(Update)
  <2> TAKE r \in Ranks
  <2>1. \A u \in InHand : u \in Update
    BY DEF InHand, Update, CallId, Somewhere
  <2>2. srv[r] = <<>> \/ \E u \in InHand : srv[r] = <<u>>
    BY <1>1 DEF TypeInv, MemoryOK, Updates
  <2>3. \A u \in Update : <<u>> \in Seq(Update)
    OBVIOUS
  <2> QED
    BY <2>1, <2>2, <2>3
<1>8. failed \in BOOLEAN
  BY <1>1 DEF TypeInv, MutexesOK
<1> QED
  BY <1>2, <1>4, <1>5, <1>6, <1>7, <1>8 DEF PrTypeOK

\* No variable ever leaves its type: no message, segment, update or handle is
\* of a kind that its handler does not expect.
THEOREM PrTypeCorrect == Spec => []PrTypeOK
<1>1. PrInv => PrTypeOK
  BY PrTyped
<1> QED
  BY <1>1, PrInvariant, PTL

\* Whoever waits in the barrier of a call has no write under way.
LEMMA FlushedSync ==
    ASSUME PrInv
    PROVE  BarrierFlushes
<1>1. \A w \in Worker, m \in Server : FlushedAt(w, m)
  BY DEF PrInv
<1> QED
  BY <1>1 DEF BarrierFlushes, FlushedAt, Flushed, IsWrite

\* comex_barrier is a fence of all and a barrier: no worker is in the barrier
\* with a put or accumulate that a master has still to apply (comex.c:781).
THEOREM BarriersFlush == Spec => []BarrierFlushes
<1>1. PrInv => BarrierFlushes
  BY FlushedSync
<1> QED
  BY <1>1, PrInvariant, PTL

\* The requests and the receives of a worker are for the same calls.
LEMMA AnswersPaired ==
    ASSUME PrInv, WaitsSomewhere
    PROVE  AnswersInOrder
<1> SUFFICES ASSUME NEW w \in Worker, NEW m \in Server
             PROVE  /\ InOrder(Ongoing(w, m)) /\ InOrder(posted[w][m])
                    /\ {posted[w][m][i].call : i \in DOMAIN posted[w][m]}
                         = Asking(w, m) \cup (IF Queued(w, m) THEN {<<pc[w], stage[w]>>} ELSE {})
                    /\ Queued(w, m) => Asking(w, m) = {}
  BY DEF AnswersInOrder
<1> DEFINE q == Ongoing(w, m)
           p == posted[w][m]
<1>1. Paired(q, p, Now(w), mode[w] = "wait", nb[w].cur, Queued(w, m))
  BY DEF PrInv, PairedAt
<1>2. p # <<>> => q # <<>> \/ Queued(w, m)
  BY DEF WaitsSomewhere
<1>3. Asking(w, m) = {q[i].call : i \in {k \in DOMAIN q : Answered(q[k])}}
  BY DEF Asking
<1>4. q \in Seq(Message) /\ p \in Seq(Waiting)
  BY LinkTypes DEF PrInv
<1>5. DOMAIN <<>> = {}
  OBVIOUS
<1> HIDE DEF q, p
<1>6. InOrder(q) /\ InOrder(p)
  BY <1>1 DEF Paired
<1>7. ASSUME Queued(w, m) PROVE q = <<>> /\ p # <<>> /\ Asking(w, m) = {}
  <2>1. q = <<>> /\ p # <<>>
    BY <1>1, <1>7 DEF Paired
  <2> QED
    BY <1>3, <1>5, <2>1
<1>8. \A i \in DOMAIN p : p[i].call \in Asking(w, m) \/ (Queued(w, m) /\ p[i].call = Now(w))
  <2> TAKE i \in DOMAIN p
  <2>1. p # <<>>
    BY <1>5
  <2>2. \/ q = <<>> /\ p[i].call = Now(w)
        \/ \E k \in DOMAIN q : Answered(q[k]) /\ q[k].call = p[i].call
    BY <1>1 DEF Paired
  <2> QED
    BY <1>2, <1>3, <2>1, <2>2
<1>9. \A c \in Asking(w, m) : \E i \in DOMAIN p : p[i].call = c
  <2> TAKE c \in Asking(w, m)
  <2>1. PICK k \in DOMAIN q : Answered(q[k]) /\ c = q[k].call
    BY <1>3
  <2>2. \E i \in DOMAIN p : p[i].call = q[k].call
    BY <1>1, <2>1 DEF Paired
  <2> QED
    BY <2>1, <2>2
<1>10. Queued(w, m) => \E i \in DOMAIN p : p[i].call = Now(w)
  <2> HAVE Queued(w, m)
  <2>1. 1 \in DOMAIN p
    BY <1>4, <1>7, TailFacts
  <2> QED
    BY <1>7, <1>8, <2>1
<1>11. {p[i].call : i \in DOMAIN p}
         = Asking(w, m) \cup (IF Queued(w, m) THEN {Now(w)} ELSE {})
  BY <1>8, <1>9, <1>10
<1> QED
  BY <1>6, <1>7, <1>11 DEF p, q, Now

\* Every answer goes to the call that asked for it, in the order it was asked
\* for (nb_recv, comex.c:3741): in every run in which no table of mutexes is made
\* anew or destroyed while somebody waits for one of them.
THEOREM AnswersMatched == Spec /\ []ReplacedUnused => []AnswersInOrder
<1>1. Init => PrInv /\ WaitsSomewhere
  <2> SUFFICES ASSUME Init PROVE PrInv /\ WaitsSomewhere
    OBVIOUS
  <2>1. PrInv
    BY PrInit
  <2>2. \A w \in Worker, m \in Server : posted[w][m] = <<>>
    BY DEF Init
  <2> QED
    BY <2>1, <2>2 DEF WaitsSomewhere
<1>2. PrInv /\ WaitsSomewhere /\ ReplacedUnused /\ [Next]_vars => (PrInv /\ WaitsSomewhere)'
  BY PrStep, WaitsStep
<1>3. PrInv /\ WaitsSomewhere => AnswersInOrder
  BY AnswersPaired
<1> QED
  BY <1>1, <1>2, <1>3, PTL DEF Spec

-----------------------------------------------------------------------------
(* Waits *)

\* A step of one worker leaves the others in their calls.
LEMMA Elsewhere ==
    ASSUME NEW w \in Worker, NEW ws \in SUBSET Worker, w \notin ws, pc \in [Worker -> Nat \ {0}],
           Advance(ws) \/ (\E m \in {"wait", "acc"}, v \in ws : Turn(v, m)) \/ UNCHANGED control
    PROVE  pc'[w] = pc[w]
BY DEF Advance, Turn, control

LEMMA StepOfOne ==
    ASSUME NEW v \in Worker, WorkerStep(v)
    PROVE  Advance({v}) \/ Turn(v, "wait") \/ Turn(v, "acc") \/ UNCHANGED control
<1>1. CASE DirectPut(v) \/ DirectGet(v) \/ DirectAcc(v) \/ DirectAccApply(v)
  BY <1>1 DEF DirectPut, DirectGet, DirectAcc, DirectAccApply
<1>2. CASE RemoteWrite(v) \/ RemoteGet(v) \/ Rmw(v)
  BY <1>2 DEF RemoteWrite, RemoteGet, Rmw, Sent, Ask
<1>3. CASE Return(v) \/ Wait(v) \/ Test(v) \/ WaitAll(v) \/ FenceProc(v) \/ Fence(v)
  BY <1>3 DEF Return, Wait, Test, WaitAll, FenceProc, Complete, Fence, Ask
<1>4. CASE Notify(v) \/ Release(v) \/ Create(v) \/ Destroy(v)
  BY <1>4 DEF Notify, Release, Create, Destroy, Ask
<1>5. CASE Lock(v) \/ Unlock(v) \/ SendQuit(v) \/ Exhausted(v)
  BY <1>5 DEF Lock, Unlock, SendQuit, Exhausted, Ask
<1> QED
  BY <1>1, <1>2, <1>3, <1>4, <1>5 DEF WorkerStep

\* A worker that is about to wait for a handle goes on only by doing so.
LEMMA OnlyWait ==
    ASSUME TypeInv, [Next]_vars, NEW w \in Worker, Calling(w, {"wait"}), pc'[w] # pc[w]
    PROVE  Wait(w)
<1>1. pc \in [Worker -> Nat \ {0}]
  BY DEF TypeInv, ControlOK
<1>2. Cur(w).op = "wait" /\ Active(w) /\ mode[w] = "run" /\ Stage(w) = "wait"
  BY DEF Calling, At
<1>3. ASSUME NEW v \in Worker, WorkerStep(v) PROVE Wait(w)
  <2>1. v = w
    <3>1. Advance({v}) \/ (\E m \in {"wait", "acc"}, u \in {v} : Turn(u, m)) \/ UNCHANGED control
      BY <1>3, StepOfOne
    <3> QED
      BY <1>1, <3>1, Elsewhere
  <2>2. ~ (DirectPut(w) \/ DirectGet(w) \/ DirectAcc(w) \/ DirectAccApply(w))
    BY <1>2 DEF DirectPut, DirectGet, DirectAcc, DirectAccApply, Calling
  <2>3. ~ (RemoteWrite(w) \/ RemoteGet(w) \/ Rmw(w))
    BY <1>2 DEF RemoteWrite, RemoteGet, Rmw, Calling
  <2>4. ~ (Return(w) \/ Test(w) \/ WaitAll(w) \/ FenceProc(w) \/ Fence(w))
    BY <1>2 DEF Return, Test, WaitAll, FenceProc, Complete, Fence, Calling, At
  <2>5. ~ (Notify(w) \/ Release(w) \/ Create(w) \/ Destroy(w))
    BY <1>2 DEF Notify, Release, Create, Destroy, At
  <2>6. ~ (Lock(w) \/ Unlock(w) \/ SendQuit(w))
    BY <1>2 DEF Lock, Unlock, SendQuit, Calling, At
  <2>7. ~ Exhausted(w)
    BY DEF Exhausted, control
  <2> QED
    BY <1>3, <2>1, <2>2, <2>3, <2>4, <2>5, <2>6, <2>7 DEF WorkerStep
<1>4. ASSUME NEW ws \in SUBSET Worker, GroupStep(ws) PROVE FALSE
  <2>1. Advance(ws)
    BY <1>4 DEF GroupStep, Sync, GatherMalloc, GatherFree, GatherCreate
  <2>2. w \in ws
    BY <1>1, <2>1, Elsewhere
  <2>3. Met(ws, "sync") \/ Met(ws, "gather")
    BY <1>4 DEF GroupStep, Sync, GatherMalloc, GatherFree, GatherCreate
  <2> QED
    BY <1>2, <2>2, <2>3 DEF Met, At
<1>5. ~Leave
  BY <1>2 DEF Leave, At
<1>6. ASSUME NEW m \in Server, ServerStep(m) PROVE FALSE
  <2>1. UNCHANGED control
    BY <1>6 DEF ServerStep, PutHandler, GetHandler, AccHandler, RmwHandler, FenceHandler,
                MutexCreateHandler, MutexDestroyHandler, LockHandler, UnlockHandler,
                MallocHandler, FreeHandler, Quit, AccApply, RmwApply
  <2> QED
    BY <2>1 DEF control
<1>7. ~UNCHANGED vars
  BY DEF vars, control
<1> QED
  BY <1>3, <1>4, <1>5, <1>6, <1>7 DEF Next

\* What is in a channel is under way.
LEMMA ChanOngoing ==
    ASSUME TypeInv, NEW w \in Worker, NEW m \in Server, NEW i \in DOMAIN chan[w][m]
    PROVE  \E k \in DOMAIN Ongoing(w, m) : Ongoing(w, m)[k] = chan[w][m][i]
<1>1. \/ Ongoing(w, m) = chan[w][m]
      \/ Ongoing(w, m) = <<srv[m][1].msg>> \o chan[w][m] /\ srv[m][1].msg \in Message
  BY OngoingFacts DEF TypeInv
<1>2. chan[w][m] \in Seq(Message)
  BY OngoingFacts DEF TypeInv
<1>3. \A e \in Message : \A s \in Seq(Message) : \A j \in DOMAIN s :
         j + 1 \in DOMAIN (<<e>> \o s) /\ (<<e>> \o s)[j + 1] = s[j]
  OBVIOUS
<1> QED
  BY <1>1, <1>2, <1>3

\* What is not pending has no receive and no send in its lists.
LEMMA Completed ==
    ASSUME PrInv, NEW w \in Worker, Wait(w), NEW c \in Issued(w, Cur(w).hdl),
           \A k \in Issued(w, Cur(w).hdl) : k <= c, NEW m \in Server
    PROVE  /\ \A i \in DOMAIN posted[w][m] : posted[w][m][i].call # <<c, 1>>
           /\ job.eager \/ \A i \in DOMAIN chan[w][m] : chan[w][m][i].call # <<c, 1>>
<1> DEFINE x == Cur(w).hdl
<1>1. TypeInv /\ NamedAt(w, m)
  BY DEF PrInv
<1>2. /\ Cur(w).op = "wait" /\ Active(w) /\ mode[w] = "run" /\ ~Pending(w, hdls[w][x])
  BY DEF Wait, Calling, At
<1>3. pc[w] \in DOMAIN job.calls[w] /\ pc[w] \in Nat \ {0}
  BY <1>1, <1>2, CallFacts DEF TypeInv
<1>4. x \in Name
  BY <1>1, <1>2, <1>3, Hosts DEF TypeInv, Cur
<1> HIDE DEF x
<1>5. Given(w, x) = Issued(w, x)
  BY <1>2, <1>3 DEF Given, Issued, Issuing
<1>6. c \in Nat /\ Latest(w, x, c)
  <2>1. c \in Nat
    BY <1>3 DEF Issued
  <2> QED
    BY <1>5, <2>1 DEF Latest, x
<1>7. /\ \A i \in DOMAIN posted[w][m] :
            posted[w][m][i].call = <<c, 1>> => posted[w][m][i].nb = hdls[w][x]
      /\ \A i \in DOMAIN Ongoing(w, m) :
            Ongoing(w, m)[i].call = <<c, 1>> => Ongoing(w, m)[i].nb = hdls[w][x]
  BY <1>1, <1>4, <1>6 DEF NamedAt
<1>8. \A i \in DOMAIN posted[w][m] : posted[w][m][i].call # <<c, 1>>
  BY <1>2, <1>7 DEF Pending
<1>9. ASSUME NEW i \in DOMAIN chan[w][m] PROVE \E k \in DOMAIN Ongoing(w, m) : Ongoing(w, m)[k] = chan[w][m][i]
  BY <1>1, ChanOngoing
<1>10. job.eager \/ \A i \in DOMAIN chan[w][m] : chan[w][m][i].call # <<c, 1>>
  <2> SUFFICES ASSUME ~job.eager, NEW i \in DOMAIN chan[w][m], chan[w][m][i].call = <<c, 1>>
               PROVE  FALSE
    OBVIOUS
  <2>1. chan[w][m][i].nb = hdls[w][x]
    BY <1>7, <1>9
  <2> QED
    BY <1>2, <2>1 DEF Pending
<1> QED
  BY <1>8, <1>10

\* When the wait for a handle returns, the operation that the handle was given
\* for is complete, whatever calls took handles in between
\* (nb_get_handle_index, nb_wait_for_handle, comex_wait).
THEOREM WaitsComplete == Spec => WaitCompletes
<1>1. ASSUME PrInv, [Next]_vars
      PROVE  \A w \in Worker :
               Calling(w, {"wait"}) /\ pc'[w] # pc[w] =>
                 \A c \in Issued(w, Cur(w).hdl) :
                   (\A k \in Issued(w, Cur(w).hdl) : k <= c) =>
                     \A m \in Server :
                       /\ \A i \in DOMAIN posted[w][m] : posted[w][m][i].call # <<c, 1>>
                       /\ job.eager \/ \A i \in DOMAIN chan[w][m] :
                                          chan[w][m][i].call # <<c, 1>>
  <2> TAKE w \in Worker
  <2> HAVE Calling(w, {"wait"}) /\ pc'[w] # pc[w]
  <2>1. Wait(w)
    BY <1>1, OnlyWait DEF PrInv
  <2> QED
    BY <1>1, <2>1, Completed
<1> QED
  BY <1>1, PrInvariant, PTL DEF Spec, WaitCompletes

-----------------------------------------------------------------------------
(* Accumulates *)

\* r has read a cell that it will add to.
Amid(r)   == srv[r] # <<>> /\ srv[r][1].msg.op = "OP_ACC"
AddsTo(r) == srv[r][1].msg.rank

\* It holds the semaphore of the rank the cell is of.  A worker does nothing
\* else in two steps.
SemaphoresHeld == /\ \A r \in Ranks : Amid(r) => sem[AddsTo(r)] = r
                  /\ \A w \in Worker : srv[w] # <<>> => Amid(w)

\* No two accumulates are under way on the memory of one rank: those of the
\* workers of its host, which reach it directly, and of its master.
AccumulatesApart ==
    \A p, r \in Ranks : Amid(p) /\ Amid(r) /\ AddsTo(p) = AddsTo(r) => p = r

\* p takes the semaphore of k ...
LEMMA HeldTaken ==
    ASSUME TypeInv, SemaphoresHeld, UNCHANGED <<job, master>>, NEW p \in Ranks, NEW k \in Rank,
           sem[k] = UNLOCKED, sem'[k] = p, \A j \in Rank \ {k} : sem'[j] = sem[j],
           \A r \in Ranks \ {p} : srv'[r] = srv[r],
           srv'[p] # <<>>, srv'[p][1].msg.op = "OP_ACC", srv'[p][1].msg.rank = k
    PROVE  SemaphoresHeld'
<1>1. Ranks' = Ranks /\ Worker' = Worker /\ Worker \subseteq Ranks
  BY SameHosts, Hosts DEF TypeInv
<1>2. Amid(p)' /\ sem'[AddsTo(p)'] = p
  BY DEF Amid, AddsTo
<1>3. ASSUME NEW r \in Ranks \ {p}
      PROVE  /\ Amid(r)' => sem'[AddsTo(r)'] = r
             /\ r \in Worker /\ srv'[r] # <<>> => Amid(r)'
  <2>1. (Amid(r)' <=> Amid(r)) /\ AddsTo(r)' = AddsTo(r) /\ srv'[r] = srv[r]
    BY <1>3 DEF Amid, AddsTo
  <2>2. Amid(r) => AddsTo(r) \in Rank /\ sem[AddsTo(r)] = r
    BY HandFacts DEF SemaphoresHeld, Amid, AddsTo, TypeInv
  <2>3. r # UNLOCKED
    BY Hosts DEF UNLOCKED, TypeInv
  <2> QED
    BY <2>1, <2>2, <2>3 DEF SemaphoresHeld
<1> QED
  BY <1>1, <1>2, <1>3 DEF SemaphoresHeld

\* ... and releases the one it has.
LEMMA HeldReleased ==
    ASSUME TypeInv, SemaphoresHeld, UNCHANGED <<job, master>>, NEW p \in Ranks, Amid(p),
           \A j \in Rank \ {AddsTo(p)} : sem'[j] = sem[j],
           \A r \in Ranks \ {p} : srv'[r] = srv[r], srv'[p] = <<>>
    PROVE  SemaphoresHeld'
<1>1. Ranks' = Ranks /\ Worker' = Worker /\ Worker \subseteq Ranks
  BY SameHosts, Hosts DEF TypeInv
<1>2. ~Amid(p)' /\ sem[AddsTo(p)] = p
  BY DEF Amid, SemaphoresHeld
<1>3. ASSUME NEW r \in Ranks \ {p}
      PROVE  /\ Amid(r)' => sem'[AddsTo(r)'] = r
             /\ r \in Worker /\ srv'[r] # <<>> => Amid(r)'
  <2>1. (Amid(r)' <=> Amid(r)) /\ AddsTo(r)' = AddsTo(r) /\ srv'[r] = srv[r]
    BY <1>3 DEF Amid, AddsTo
  <2>2. Amid(r) => AddsTo(r) \in Rank /\ sem[AddsTo(r)] = r
    BY HandFacts DEF SemaphoresHeld, Amid, AddsTo, TypeInv
  <2> QED
    BY <1>2, <2>1, <2>2 DEF SemaphoresHeld
<1> QED
  BY <1>1, <1>2, <1>3 DEF SemaphoresHeld

LEMMA HeldSame ==
    ASSUME SemaphoresHeld, UNCHANGED <<job, master, sem, srv>>
    PROVE  SemaphoresHeld'
BY SameHosts DEF SemaphoresHeld, Amid, AddsTo

\* A master begins or ends a read-modify-write, without the semaphore.
LEMMA HeldWithout ==
    ASSUME TypeInv, SemaphoresHeld, UNCHANGED <<job, master, sem>>, NEW p \in Server,
           \A r \in Ranks \ {p} : srv'[r] = srv[r], ~Amid(p)'
    PROVE  SemaphoresHeld'
<1>1. Ranks' = Ranks /\ Worker' = Worker /\ Worker \subseteq Ranks /\ p \notin Worker
  BY SameHosts, Hosts DEF TypeInv
<1>2. \A r \in Ranks \ {p} : (Amid(r)' <=> Amid(r)) /\ AddsTo(r)' = AddsTo(r)
  BY DEF Amid, AddsTo
<1> QED
  BY <1>1, <1>2 DEF SemaphoresHeld

LEMMA HeldByWorker ==
    ASSUME TypeInv, SemaphoresHeld, NEW w \in Worker, WorkerStep(w), UNCHANGED <<job, master>>
    PROVE  SemaphoresHeld'
<1>1. w \in Ranks /\ sem \in Sems /\ srv \in Updates
  BY Hosts DEF TypeInv, MemoryOK
<1>2. CASE DirectAcc(w)
  <2> DEFINE k == Cur(w).to
  <2>1. /\ Active(w) /\ sem[k] = UNLOCKED /\ sem' = [sem EXCEPT ![k] = w]
        /\ srv' = [srv EXCEPT ![w] =
             <<[from |-> w, old |-> mem[Cur(w).to][Target(w)],
                msg |-> Request(w, "OP_ACC", Cur(w).to, Target(w), Cur(w).val)]>>]
    BY <1>2 DEF DirectAcc, Calling, At
  <2>2. k \in Rank
    BY <2>1, CallFacts, Hosts DEF TypeInv
  <2>3. /\ srv'[w] # <<>> /\ srv'[w][1].msg.op = "OP_ACC" /\ srv'[w][1].msg.rank = k
        /\ \A r \in Ranks \ {w} : srv'[r] = srv[r]
    BY <1>1, <2>1 DEF Updates, Request, Header
  <2> HIDE DEF k
  <2>4. sem'[k] = w /\ \A j \in Rank \ {k} : sem'[j] = sem[j]
    BY <1>1, <2>1, <2>2 DEF Sems
  <2> QED
    BY <1>1, <2>1, <2>2, <2>3, <2>4, HeldTaken
<1>3. CASE DirectAccApply(w)
  <2>1. /\ mode[w] = "acc" /\ sem' = [sem EXCEPT ![AddsTo(w)] = UNLOCKED]
        /\ srv' = [srv EXCEPT ![w] = <<>>]
    BY <1>3 DEF DirectAccApply, AddsTo
  <2>2. Amid(w)
    BY <2>1 DEF TypeInv, ControlOK, SemaphoresHeld
  <2>3. /\ \A j \in Rank \ {AddsTo(w)} : sem'[j] = sem[j]
        /\ \A r \in Ranks \ {w} : srv'[r] = srv[r]
        /\ srv'[w] = <<>>
    BY <1>1, <2>1 DEF Sems, Updates
  <2> QED
    BY <1>1, <2>2, <2>3, HeldReleased
<1>4. CASE DirectPut(w) \/ DirectGet(w) \/ RemoteWrite(w) \/ RemoteGet(w) \/ Rmw(w) \/ Return(w)
           \/ Wait(w) \/ Test(w) \/ WaitAll(w) \/ FenceProc(w) \/ Fence(w)
  BY <1>4, HeldSame DEF DirectPut, DirectGet, RemoteWrite, RemoteGet, Rmw, Return, Wait, Test,
                        WaitAll, FenceProc, Complete, Fence, data, servers
<1>5. CASE Notify(w) \/ Release(w) \/ Create(w) \/ Destroy(w) \/ Lock(w) \/ Unlock(w)
           \/ SendQuit(w) \/ Exhausted(w)
  BY <1>5, HeldSame DEF Notify, Release, Create, Destroy, Lock, Unlock, SendQuit, Exhausted,
                        data, servers
<1> QED
  BY <1>2, <1>3, <1>4, <1>5 DEF WorkerStep

LEMMA HeldByServer ==
    ASSUME TypeInv, SemaphoresHeld, NEW m \in Server, ServerStep(m), UNCHANGED <<job, master>>
    PROVE  SemaphoresHeld'
<1>1. m \in Ranks /\ sem \in Sems /\ srv \in Updates
  BY Hosts DEF TypeInv, MemoryOK
<1>2. ASSUME NEW w \in Worker, AccHandler(m, w) PROVE SemaphoresHeld'
  <2> DEFINE h == Msg(m, w)
             k == Msg(m, w).rank
  <2>1. /\ Incoming(m, w, {"OP_ACC"}) /\ sem[k] = UNLOCKED /\ sem' = [sem EXCEPT ![k] = m]
        /\ srv' = [srv EXCEPT ![m] = <<[from |-> w, msg |-> h, old |-> mem[h.rank][h.id]]>>]
    BY <1>2 DEF AccHandler, Begin
  <2>2. h.op = "OP_ACC" /\ k \in Rank
    <3>1. chan[w][m] # <<>> /\ h = Head(chan[w][m]) /\ h.op = "OP_ACC"
      BY <2>1 DEF Incoming, Msg
    <3>2. h = chan[w][m][1] /\ 1 \in DOMAIN chan[w][m]
      BY <3>1, OngoingFacts, TailFacts DEF TypeInv
    <3>3. h.rank \in Worker
      BY <3>1, <3>2 DEF TypeInv, LinksOK, ChanOK, Sensible, ToMem
    <3> QED
      BY <3>1, <3>3, Hosts DEF TypeInv
  <2>3. /\ srv'[m] # <<>> /\ srv'[m][1].msg = h
        /\ \A r \in Ranks \ {m} : srv'[r] = srv[r]
    BY <1>1, <2>1 DEF Updates
  <2>4. srv'[m][1].msg.op = "OP_ACC" /\ srv'[m][1].msg.rank = k
    BY <2>2, <2>3
  <2> HIDE DEF k, h
  <2>5. sem'[k] = m /\ \A j \in Rank \ {k} : sem'[j] = sem[j]
    BY <1>1, <2>1, <2>2 DEF Sems
  <2> QED
    BY <1>1, <2>1, <2>2, <2>3, <2>4, <2>5, HeldTaken
<1>3. CASE AccApply(m)
  <2>1. /\ Amid(m) /\ sem' = [sem EXCEPT ![AddsTo(m)] = UNLOCKED] /\ srv' = [srv EXCEPT ![m] = <<>>]
    BY <1>3 DEF AccApply, Busy, Amid, AddsTo
  <2>2. /\ \A j \in Rank \ {AddsTo(m)} : sem'[j] = sem[j]
        /\ \A r \in Ranks \ {m} : srv'[r] = srv[r]
        /\ srv'[m] = <<>>
    BY <1>1, <2>1 DEF Sems, Updates
  <2> QED
    BY <1>1, <2>1, <2>2, HeldReleased
<1>4. ASSUME NEW w \in Worker, RmwHandler(m, w) PROVE SemaphoresHeld'
  <2> DEFINE h == Msg(m, w)
  <2>1. /\ Incoming(m, w, {"OP_FETCH_AND_ADD", "OP_SWAP"}) /\ sem' = sem
        /\ srv' = [srv EXCEPT ![m] = <<[from |-> w, msg |-> h, old |-> mem[h.rank][h.id]]>>]
    BY <1>4 DEF RmwHandler, Begin, data
  <2>2. h.op # "OP_ACC"
    BY <2>1 DEF Incoming, Msg
  <2>3. srv'[m][1].msg = h /\ \A r \in Ranks \ {m} : srv'[r] = srv[r]
    BY <1>1, <2>1 DEF Updates
  <2>4. ~Amid(m)'
    BY <2>2, <2>3 DEF Amid
  <2> QED
    BY <2>1, <2>3, <2>4, HeldWithout
<1>5. CASE RmwApply(m)
  <2>1. sem' = sem /\ srv' = [srv EXCEPT ![m] = <<>>]
    BY <1>5 DEF RmwApply
  <2>2. ~Amid(m)' /\ \A r \in Ranks \ {m} : srv'[r] = srv[r]
    BY <1>1, <2>1 DEF Updates, Amid
  <2> QED
    BY <2>1, <2>2, HeldWithout
<1>6. ASSUME NEW w \in Worker, \/ PutHandler(m, w) \/ GetHandler(m, w) \/ FenceHandler(m, w)
                               \/ MutexCreateHandler(m, w) \/ MutexDestroyHandler(m, w)
                               \/ LockHandler(m, w) \/ UnlockHandler(m, w)
                               \/ MallocHandler(m, w) \/ FreeHandler(m, w) \/ Quit(m, w)
      PROVE  SemaphoresHeld'
  BY <1>6, HeldSame DEF PutHandler, GetHandler, FenceHandler, MutexCreateHandler,
       MutexDestroyHandler, LockHandler, UnlockHandler, MallocHandler, FreeHandler, Quit,
       data, servers
<1> QED
  BY <1>2, <1>3, <1>4, <1>5, <1>6 DEF ServerStep

\* An accumulate, direct or by a master, never comes between the read and the
\* write of another one on the same rank (_acc_handler, comex_acc: the semaphore
\* of the rank).
THEOREM AccumulatesNeverMeet == Spec => []AccumulatesApart
<1>1. Init => PrInv /\ SemaphoresHeld
  <2> SUFFICES ASSUME Init PROVE PrInv /\ SemaphoresHeld
    OBVIOUS
  <2>1. PrInv
    BY PrInit
  <2>2. \A r \in Ranks : srv[r] = <<>>
    BY DEF Init
  <2>3. Worker \subseteq Ranks
    BY DEF Worker
  <2> QED
    BY <2>1, <2>2, <2>3 DEF SemaphoresHeld, Amid
<1>2. ASSUME PrInv, SemaphoresHeld, [Next]_vars PROVE PrInv' /\ SemaphoresHeld'
  <2>1. TypeInv /\ UNCHANGED <<job, master>>
    BY <1>2, Steps DEF PrInv
  <2>2. ASSUME NEW ws \in SUBSET Worker, GroupStep(ws) PROVE SemaphoresHeld'
    BY <1>2, <2>1, <2>2, HeldSame DEF GroupStep, Sync, GatherMalloc, GatherFree, GatherCreate,
                                     data, servers
  <2>3. ASSUME Leave PROVE SemaphoresHeld'
    BY <1>2, <2>1, <2>3, HeldSame DEF Leave, data, servers
  <2>4. ASSUME UNCHANGED vars PROVE SemaphoresHeld'
    BY <1>2, <2>1, <2>4, HeldSame DEF vars, data, servers
  <2>5. SemaphoresHeld'
    BY <1>2, <2>1, <2>2, <2>3, <2>4, HeldByWorker, HeldByServer DEF Next
  <2> QED
    BY <1>2, <2>5, PrStep
<1>3. PrInv /\ SemaphoresHeld => AccumulatesApart
  BY DEF SemaphoresHeld, AccumulatesApart
<1> QED
  BY <1>1, <1>2, <1>3, PTL DEF Spec

-----------------------------------------------------------------------------
(* What is in a channel *)

\* The messages of w that m has not received, as a set
Underway(w, m) == {chan[w][m][i] : i \in DOMAIN chan[w][m]}

\* They are the last of what is under way from w to m: their calls are all
\* different, and one that asks, unless for a get, is what w waits for.
LEMMA UnderwayFacts ==
    ASSUME PrInv, NEW w \in Worker, NEW m \in Server
    PROVE  /\ chan[w][m] \in Seq(Message)
           /\ \A h \in Underway(w, m) :
                 /\ h \in Message /\ Sensible(h, m)
                 /\ \/ Before(h.call, Now(w))
                    \/ mode[w] = "wait" /\ h.call = Now(w)
                 /\ Answered(h) /\ h.op # "OP_GET" => mode[w] = "wait" /\ h.call = Now(w)
                 /\ Answered(h) => \E i \in DOMAIN posted[w][m] : posted[w][m][i].call = h.call
           /\ \A h, g \in Underway(w, m) : h.call = g.call => h = g
           /\ \A i \in DOMAIN posted[w][m] : posted[w][m][i].call = Now(w) =>
                 mode[w] = "wait" /\ posted[w][m][i].nb = nb[w].cur
           /\ chan[w][m] # <<>> =>
                 /\ Head(chan[w][m]) \in Underway(w, m)
                 /\ \A h \in Underway(w, m) \ {Head(chan[w][m])} :
                       Before(Head(chan[w][m]).call, h.call)
                 /\ {Tail(chan[w][m])[i] : i \in DOMAIN Tail(chan[w][m])}
                      = Underway(w, m) \ {Head(chan[w][m])}
           /\ Queued(w, m) => Underway(w, m) = {} /\ posted[w][m] # <<>>
                              /\ \A i \in DOMAIN posted[w][m] : posted[w][m][i].call = Now(w)
<1> DEFINE c == chan[w][m]
           q == Ongoing(w, m)
           p == posted[w][m]
<1>1. /\ TypeInv /\ c \in Seq(Message) /\ q \in Seq(Message)
      /\ \A i \in DOMAIN c : Sensible(c[i], m)
      /\ Paired(q, p, Now(w), mode[w] = "wait", nb[w].cur, Queued(w, m))
  BY LinkTypes, OngoingFacts DEF PrInv, PairedAt, TypeInv, LinksOK, ChanOK
<1>2. q = c \/ \E e \in Message : q = <<e>> \o c
  BY <1>1, OngoingFacts DEF TypeInv
<1>3. Now(w) \in CallId /\ Underway(w, m) = {c[i] : i \in DOMAIN c}
  BY <1>1, LinkTypes DEF Underway
<1>4. DOMAIN <<>> = {}
  OBVIOUS
<1> HIDE DEF c, q, p
<1>5. PICK d \in {0, 1} : /\ \A i \in DOMAIN c : i + d \in DOMAIN q /\ q[i + d] = c[i]
                          /\ q = <<>> => c = <<>>
  <2>1. CASE q = c
    <3>1. \A i \in DOMAIN c : i + 0 = i
      BY <1>1
    <3> QED
      BY <2>1, <3>1
  <2>2. ASSUME NEW e \in Message, q = <<e>> \o c
        PROVE  /\ \A i \in DOMAIN c : i + 1 \in DOMAIN q /\ q[i + 1] = c[i]
               /\ q = <<>> => c = <<>>
    <3>1. q # <<>> /\ Tail(q) = c
      BY <1>1, <2>2, ConcatFacts
    <3> QED
      BY <1>1, <3>1, TailFacts
  <2> QED
    BY <1>2, <2>1, <2>2
<1>6. InOrder(q) /\ \A i \in DOMAIN q : q[i].call \in CallId
  BY <1>1, OrderFacts DEF Paired
<1>7. \A i \in DOMAIN c : c[i] \in Message /\ c[i].call \in CallId /\ i \in Nat
  BY <1>1, <1>5, <1>6
<1>8. \A i, k \in DOMAIN c : i < k => Before(c[i].call, c[k].call)
  <2> SUFFICES ASSUME NEW i \in DOMAIN c, NEW k \in DOMAIN c, i < k
               PROVE  Before(c[i].call, c[k].call)
    OBVIOUS
  <2>1. i + d < k + d /\ i + d \in DOMAIN q /\ k + d \in DOMAIN q
    BY <1>5, <1>7
  <2> QED
    BY <1>5, <1>6, <2>1 DEF InOrder
<1>9. \A i, k \in DOMAIN c : c[i].call = c[k].call => i = k
  <2> SUFFICES ASSUME NEW i \in DOMAIN c, NEW k \in DOMAIN c, c[i].call = c[k].call
               PROVE  i = k
    OBVIOUS
  <2>1. ~Before(c[i].call, c[k].call) /\ ~Before(c[k].call, c[i].call)
    BY <1>7, BeforeFacts
  <2> QED
    BY <1>7, <1>8, <2>1
<1>10. ASSUME NEW i \in DOMAIN c
       PROVE  /\ Before(c[i].call, Now(w)) \/ (mode[w] = "wait" /\ c[i].call = Now(w))
              /\ Answered(c[i]) /\ c[i].op # "OP_GET" => mode[w] = "wait" /\ c[i].call = Now(w)
              /\ Answered(c[i]) => \E k \in DOMAIN p : p[k].call = c[i].call
  <2>1. i + d \in DOMAIN q /\ q[i + d] = c[i]
    BY <1>5
  <2> QED
    BY <1>1, <2>1 DEF Paired
<1>11. \A i \in DOMAIN p : p[i].call = Now(w) => mode[w] = "wait" /\ p[i].nb = nb[w].cur
  <2> TAKE i \in DOMAIN p
  <2>1. \/ Before(p[i].call, Now(w))
        \/ mode[w] = "wait" /\ p[i].call = Now(w) /\ p[i].nb = nb[w].cur
    BY <1>1 DEF Paired
  <2>2. ~Before(Now(w), Now(w))
    BY <1>3, BeforeFacts
  <2> QED
    BY <2>1, <2>2
<1>12. ASSUME c # <<>>
       PROVE  /\ Head(c) \in Underway(w, m)
              /\ \A h \in Underway(w, m) \ {Head(c)} : Before(Head(c).call, h.call)
              /\ {Tail(c)[i] : i \in DOMAIN Tail(c)} = Underway(w, m) \ {Head(c)}
  <2>1. /\ Head(c) = c[1] /\ 1 \in DOMAIN c
        /\ \A i \in DOMAIN Tail(c) : i + 1 \in DOMAIN c /\ Tail(c)[i] = c[i + 1] /\ i \in Nat \ {0}
        /\ \A i \in DOMAIN c : i # 1 => i - 1 \in DOMAIN Tail(c) /\ Tail(c)[i - 1] = c[i]
    BY <1>1, <1>12, TailFacts
  <2>2. \A i \in DOMAIN c : c[i] # c[1] => 1 < i
    BY <1>1
  <2>3. \A i \in DOMAIN c : i # 1 => c[i] # c[1]
    BY <1>9, <2>1
  <2>4. \A i \in DOMAIN Tail(c) : c[i + 1] # c[1]
    BY <2>1, <2>3
  <2> QED
    BY <1>3, <1>8, <2>1, <2>2, <2>3, <2>4
<1>13. Queued(w, m) => c = <<>> /\ p # <<>> /\ \A i \in DOMAIN p : p[i].call = Now(w)
  <2> HAVE Queued(w, m)
  <2>1. q = <<>> /\ p # <<>>
    BY <1>1 DEF Paired
  <2>2. \A i \in DOMAIN p : \/ p[i].call = Now(w)
                            \/ \E k \in DOMAIN q : Answered(q[k]) /\ q[k].call = p[i].call
    BY <1>1 DEF Paired
  <2> QED
    BY <1>4, <1>5, <2>1, <2>2
<1>14. c = <<>> => Underway(w, m) = {}
  BY <1>3, <1>4
<1>15. \A h \in Underway(w, m) : \E i \in DOMAIN c : h = c[i]
  BY <1>3
<1>16. \A h \in Underway(w, m) :
          /\ h \in Message /\ Sensible(h, m)
          /\ Before(h.call, Now(w)) \/ (mode[w] = "wait" /\ h.call = Now(w))
          /\ Answered(h) /\ h.op # "OP_GET" => mode[w] = "wait" /\ h.call = Now(w)
          /\ Answered(h) => \E k \in DOMAIN p : p[k].call = h.call
  BY <1>1, <1>7, <1>10, <1>15
<1>17. \A h, g \in Underway(w, m) : h.call = g.call => h = g
  BY <1>9, <1>15
<1> QED
  BY <1>1, <1>11, <1>12, <1>13, <1>14, <1>16, <1>17 DEF c, q, p

LEMMA SameUnderway ==
    ASSUME UNCHANGED <<job, master, chan>>
    PROVE  \A w \in Worker, m \in Server : Underway(w, m)' = Underway(w, m)
BY SameHosts DEF Underway

\* w sends h to the masters ms.
LEMMA UnderwaySent ==
    ASSUME TypeInv, UNCHANGED <<job, master>>, NEW w \in Worker, NEW ms, NEW h, Send(w, ms, h)
    PROVE  \A v \in Worker, m \in Server :
              Underway(v, m)' = IF v = w /\ m \in ms THEN Underway(v, m) \cup {h}
                                ELSE Underway(v, m)
<1>1. chan \in [Worker -> [Server -> Seq(Message)]]
  BY DEF TypeInv, LinksOK, ChanOK
<1>2. /\ \A m \in Server : chan'[w][m] = IF m \in ms THEN Append(chan[w][m], h) ELSE chan[w][m]
      /\ \A v \in Worker \ {w} : chan'[v] = chan[v]
  BY <1>1 DEF Send
<1>3. ASSUME NEW m \in Server, m \in ms PROVE Underway(w, m)' = Underway(w, m) \cup {h}
  <2> DEFINE s == chan[w][m]
             T == Message \cup {h}
  <2>1. s \in Seq(T) /\ h \in T
    <3>1. s \in Seq(Message)
      BY <1>1
    <3> HIDE DEF s
    <3>2. Seq(Message) \subseteq Seq(T)
      BY SeqDef
    <3> QED
      BY <3>1, <3>2
  <2>2. chan'[w][m] = Append(s, h) /\ Underway(w, m) = {s[i] : i \in DOMAIN s}
        /\ Underway(w, m)' = {chan'[w][m][i] : i \in DOMAIN chan'[w][m]}
    BY <1>2, <1>3 DEF Underway
  <2> HIDE DEF s, T
  <2>3. /\ Append(s, h)[Len(s) + 1] = h /\ Len(s) + 1 \in DOMAIN Append(s, h)
        /\ \A i \in DOMAIN s : i \in DOMAIN Append(s, h) /\ Append(s, h)[i] = s[i]
        /\ \A i \in DOMAIN Append(s, h) : i \in DOMAIN s \/ i = Len(s) + 1
    BY <2>1, AppendFacts
  <2>4. {Append(s, h)[i] : i \in DOMAIN Append(s, h)} = {s[i] : i \in DOMAIN s} \cup {h}
    BY <2>3
  <2> QED
    BY <2>2, <2>4
<1> QED
  BY <1>2, <1>3 DEF Underway

\* m receives a message of w.
LEMMA UnderwayReceived ==
    ASSUME PrInv, UNCHANGED <<job, master>>, NEW w \in Worker, NEW m \in Server, NEW ops,
           Incoming(m, w, ops), Receive(m, w)
    PROVE  /\ Msg(m, w) \in Underway(w, m) /\ Msg(m, w).op \in ops
           /\ Underway(w, m)' = Underway(w, m) \ {Msg(m, w)}
           /\ \A h \in Underway(w, m)' : Before(Msg(m, w).call, h.call)
           /\ \A v \in Worker, k \in Server : v # w \/ k # m => Underway(v, k)' = Underway(v, k)
<1>1. /\ chan[w][m] # <<>> /\ Msg(m, w) = Head(chan[w][m]) /\ Msg(m, w).op \in ops
      /\ chan'[w][m] = Tail(chan[w][m])
      /\ \A v \in Worker, k \in Server : v # w \/ k # m => chan'[v][k] = chan[v][k]
  BY Receiving DEF PrInv, TypeInv, Msg, Incoming
<1>2. Underway(w, m)' = {Tail(chan[w][m])[i] : i \in DOMAIN Tail(chan[w][m])}
  BY <1>1 DEF Underway
<1>3. \A v \in Worker, k \in Server : v # w \/ k # m => Underway(v, k)' = Underway(v, k)
  BY <1>1 DEF Underway
<1> QED
  BY <1>1, <1>2, <1>3, UnderwayFacts

-----------------------------------------------------------------------------
(* Mutexes *)

\* A message about the mutex n of rank o
About(h, op, o, n) == h.op = op /\ h.rank = o /\ h.id = n
Told(w, op, o, n)  == \E h \in Underway(w, master[o]) : About(h, op, o, n)

\* w waits in the call to lock it, ...
Awaits(w, o, n) == mode[w] = "wait" /\ Cur(w).op = "lock" /\ Cur(w).to = o /\ Cur(w).val = n

\* ... in the queue of the mutex, or not any more: it is cleared to go on.
InLine(w, o, n)  == n + 1 \in DOMAIN lq[o] /\ \E k \in DOMAIN lq[o][n + 1] : lq[o][n + 1][k] = w
Cleared(w, o, n) == Awaits(w, o, n) /\ ~Told(w, "OP_LOCK", o, n) /\ ~InLine(w, o, n)

\* The mutex is w's from when a master grants it to when it is told of the unlock.
Owns(w, o, n) == <<o, n>> \in held[w] \/ Cleared(w, o, n) \/ Told(w, "OP_UNLOCK", o, n)

\* What w and the masters know of a mutex fits together.
Agreed(w, o, n) ==
    /\ Told(w, "OP_LOCK", o, n) => Awaits(w, o, n)
    /\ InLine(w, o, n) => Awaits(w, o, n)
    /\ Told(w, "OP_UNLOCK", o, n) => <<o, n>> \notin held[w] /\ ~Cleared(w, o, n)
    /\ \A h, g \in Underway(w, master[o]) :
          About(h, "OP_UNLOCK", o, n) /\ About(g, "OP_UNLOCK", o, n) => h = g

\* The mutex has one owner, whom its table names.
Entered(w, o, n) ==
    Owns(w, o, n) =>
        /\ n + 1 \in DOMAIN mutexes[o] => mutexes[o][n + 1] = w
        /\ ~failed => n + 1 \in DOMAIN mutexes[o]
        /\ \A v \in Worker : Owns(v, o, n) => v = w

HeldTyped == held \in [Worker -> SUBSET (Worker \X Int)]

MutexInv ==
    /\ HeldTyped
    /\ \A w, o \in Worker, n \in Int : Agreed(w, o, n) /\ Entered(w, o, n)

\* A step that w's dealings with a mutex do not depend on
Apart(w, o, n) ==
    /\ \A h : About(h, "OP_LOCK", o, n) \/ About(h, "OP_UNLOCK", o, n) =>
          (h \in Underway(w, master[o])' <=> h \in Underway(w, master[o]))
    /\ <<o, n>> \in held'[w] <=> <<o, n>> \in held[w]
    /\ Awaits(w, o, n)' <=> Awaits(w, o, n)
    /\ InLine(w, o, n)' <=> InLine(w, o, n)

LEMMA ApartTold ==
    ASSUME NEW w \in Worker, NEW o \in Worker, NEW n \in Int, UNCHANGED <<job, master>>,
           Apart(w, o, n)
    PROVE  /\ \A op \in {"OP_LOCK", "OP_UNLOCK"} : Told(w, op, o, n)' <=> Told(w, op, o, n)
           /\ Owns(w, o, n)' <=> Owns(w, o, n)
<1>1. \A op \in {"OP_LOCK", "OP_UNLOCK"} : Told(w, op, o, n)' <=> Told(w, op, o, n)
  BY DEF Told, About, Apart
<1> QED
  BY <1>1 DEF Owns, Cleared, Apart

LEMMA ApartAgreed ==
    ASSUME NEW w \in Worker, NEW o \in Worker, NEW n \in Int, UNCHANGED <<job, master>>,
           Apart(w, o, n), Agreed(w, o, n)
    PROVE  Agreed(w, o, n)'
<1>1. \A op \in {"OP_LOCK", "OP_UNLOCK"} : Told(w, op, o, n)' <=> Told(w, op, o, n)
  BY ApartTold
<1>2. Cleared(w, o, n)' <=> Cleared(w, o, n)
  BY <1>1 DEF Cleared, Apart
<1>3. \A h, g \in Underway(w, master[o])' :
         About(h, "OP_UNLOCK", o, n) /\ About(g, "OP_UNLOCK", o, n) => h = g
  BY DEF Agreed, Apart, About
<1> QED
  BY <1>1, <1>2, <1>3 DEF Agreed, Apart

\* Nobody becomes an owner, and the table has the same at this place.
LEMMA EnteredSame ==
    ASSUME NEW o \in Worker, NEW n \in Int, UNCHANGED <<job, master>>, failed => failed',
           \A w \in Worker : Entered(w, o, n), \A w \in Worker : Owns(w, o, n)' => Owns(w, o, n),
           n + 1 \in DOMAIN mutexes'[o] <=> n + 1 \in DOMAIN mutexes[o],
           n + 1 \in DOMAIN mutexes[o] => mutexes'[o][n + 1] = mutexes[o][n + 1]
    PROVE  \A w \in Worker : Entered(w, o, n)'
<1>1. Worker' = Worker
  BY SameHosts
<1> QED
  BY <1>1 DEF Entered

\* A step that no dealing with a mutex depends on
LEMMA MutexesApart ==
    ASSUME MutexInv, UNCHANGED <<job, master, mutexes>>, failed => failed', HeldTyped',
           \A w, o \in Worker, n \in Int : Apart(w, o, n)
    PROVE  MutexInv'
<1>1. Worker' = Worker
  BY SameHosts
<1>2. \A w, o \in Worker, n \in Int : Agreed(w, o, n)'
  BY ApartAgreed DEF MutexInv
<1>3. ASSUME NEW o \in Worker, NEW n \in Int PROVE \A w \in Worker : Entered(w, o, n)'
  <2>1. \A w \in Worker : Owns(w, o, n)' => Owns(w, o, n)
    BY ApartTold
  <2>2. \A w \in Worker : Entered(w, o, n)
    BY DEF MutexInv
  <2> QED
    BY <2>1, <2>2, EnteredSame
<1> QED
  BY <1>1, <1>2, <1>3 DEF MutexInv, HeldTyped

\* Only Return ends a wait for answers.
LEMMA Modes ==
    ASSUME TypeInv, NEW w \in Worker, WorkerStep(w), UNCHANGED <<job, master>>
    PROVE  /\ \A v \in Worker \ {w} : pc'[v] = pc[v] /\ stage'[v] = stage[v] /\ mode'[v] = mode[v]
           /\ mode[w] = "wait" => Return(w)
           /\ mode'[w] = "wait" => pc'[w] = pc[w] /\ stage'[w] = stage[w] /\ mode[w] = "run"
<1>1. /\ pc \in [Worker -> Nat \ {0}] /\ stage \in [Worker -> Nat \ {0}]
      /\ mode \in [Worker -> {"run", "wait", "acc"}]
  BY DEF TypeInv, ControlOK
<1>2. \A v \in Worker \ {w} : pc'[v] = pc[v] /\ stage'[v] = stage[v] /\ mode'[v] = mode[v]
  BY <1>1, StepOfOne DEF Advance, Turn, control
<1>3. mode[w] = "wait" => Return(w)
  <2> SUFFICES ASSUME mode[w] = "wait" PROVE Return(w)
    OBVIOUS
  <2>1. ~ (DirectPut(w) \/ DirectGet(w) \/ DirectAcc(w) \/ DirectAccApply(w))
    BY DEF DirectPut, DirectGet, DirectAcc, DirectAccApply, Calling, At
  <2>2. ~ (RemoteWrite(w) \/ RemoteGet(w) \/ Rmw(w))
    BY DEF RemoteWrite, RemoteGet, Rmw, Calling, At
  <2>3. ~ (Wait(w) \/ Test(w) \/ WaitAll(w) \/ FenceProc(w) \/ Fence(w))
    BY DEF Wait, Test, WaitAll, FenceProc, Complete, Fence, Calling, At
  <2>4. ~ (Notify(w) \/ Release(w) \/ Create(w) \/ Destroy(w))
    BY DEF Notify, Release, Create, Destroy, At
  <2>5. ~ (Lock(w) \/ Unlock(w) \/ SendQuit(w) \/ Exhausted(w))
    BY DEF Lock, Unlock, SendQuit, Exhausted, Takes, Calling, At
  <2> QED
    BY <2>1, <2>2, <2>3, <2>4, <2>5 DEF WorkerStep
<1>4. ASSUME mode'[w] = "wait"
      PROVE  pc'[w] = pc[w] /\ stage'[w] = stage[w] /\ mode[w] = "run"
  <2>1. ~Advance({w}) /\ ~Turn(w, "acc")
    BY <1>1, <1>4 DEF Advance, Turn
  <2>2. ~DirectAccApply(w) /\ ~Return(w)
    BY <2>1 DEF DirectAccApply, Return
  <2>3. Turn(w, "wait") \/ UNCHANGED control
    BY <2>1, StepOfOne
  <2>4. mode[w] # "acc"
    <3>1. mode[w] = "acc" => ~Turn(w, "wait")
      <4> SUFFICES ASSUME mode[w] = "acc" PROVE ~Turn(w, "wait")
        OBVIOUS
      <4>1. ~ (DirectPut(w) \/ DirectGet(w) \/ DirectAcc(w) \/ RemoteWrite(w) \/ RemoteGet(w) \/ Rmw(w))
        BY DEF DirectPut, DirectGet, DirectAcc, RemoteWrite, RemoteGet, Rmw, Calling, At
      <4>2. ~ (Wait(w) \/ Test(w) \/ WaitAll(w) \/ FenceProc(w) \/ Fence(w))
        BY DEF Wait, Test, WaitAll, FenceProc, Complete, Fence, Calling, At
      <4>3. ~ (Notify(w) \/ Release(w) \/ Create(w) \/ Destroy(w))
        BY DEF Notify, Release, Create, Destroy, At
      <4>4. ~ (Lock(w) \/ Unlock(w) \/ SendQuit(w) \/ Exhausted(w))
        BY DEF Lock, Unlock, SendQuit, Exhausted, Takes, Calling, At
      <4> QED
        BY <2>2, <4>1, <4>2, <4>3, <4>4 DEF WorkerStep
    <3> QED
      BY <1>4, <2>3, <3>1 DEF control
  <2>5. mode[w] # "wait"
    BY <1>3, <2>2
  <2> QED
    BY <1>1, <2>3, <2>4, <2>5 DEF Turn, control
<1> QED
  BY <1>2, <1>3, <1>4

LEMMA LockStage ==
    ASSUME JobOK, ControlOK, NEW w \in Worker, Active(w)
    PROVE  /\ Cur(w).op = "lock" <=> Stage(w) = "lock"
           /\ Cur(w).op = "unlock" <=> Stage(w) = "unlock"
<1>1. Cur(w).op \in {"put", "acc", "get", "fadd", "swap", "wait", "test", "wait_all",
               "fence", "fence_proc", "barrier", "malloc", "free", "create",
               "destroy", "lock", "unlock", "finalize"} /\ stage[w] \in 1 .. Len(Stages(Cur(w).op))
  BY CallFacts DEF Call
<1>2. \A op \in {"lock", "unlock"} : Stages(op) = <<op>>
  BY DEF Stages
<1>3. Cur(w).op \in {"lock", "unlock"} => Stage(w) = Cur(w).op
  BY <1>1, <1>2 DEF Stage
<1>4. ASSUME Cur(w).op \notin {"lock", "unlock"}, Stage(w) \in {"lock", "unlock"} PROVE FALSE
  BY <1>1, <1>4 DEF Stage, Stages
<1> QED
  BY <1>3, <1>4

\* What a worker sends
LEMMA Speaks ==
    ASSUME TypeInv, NEW w \in Worker, WorkerStep(w)
    PROVE  \/ UNCHANGED chan
           \/ \E ms, h : /\ Send(w, ms, h)
                         /\ h.op = "OP_LOCK" => Lock(w)
                         /\ h.op = "OP_UNLOCK" => Unlock(w)
                         /\ h.op = "OP_QUIT" => SendQuit(w)
<1> DEFINE Says == \E ms, h : /\ Send(w, ms, h)
                              /\ h.op = "OP_LOCK" => Lock(w)
                              /\ h.op = "OP_UNLOCK" => Unlock(w)
                              /\ h.op = "OP_QUIT" => SendQuit(w)
<1>1. CASE DirectPut(w) \/ DirectGet(w) \/ DirectAcc(w) \/ DirectAccApply(w)
  BY <1>1 DEF DirectPut, DirectGet, DirectAcc, DirectAccApply
<1>2. CASE RemoteWrite(w)
  <2> DEFINE h == Request(w, IF Cur(w).op = "put" THEN "OP_PUT" ELSE "OP_ACC",
                          Cur(w).to, Target(w), Cur(w).val)
  <2>1. Send(w, {master[Cur(w).to]}, h) /\ h.op \in {"OP_PUT", "OP_ACC"}
    BY <1>2 DEF RemoteWrite, Request, Header
  <2> QED
    BY <2>1
<1>3. CASE RemoteGet(w)
  <2> DEFINE h == Request(w, "OP_GET", Cur(w).to, Target(w), 0)
  <2>1. Send(w, {master[Cur(w).to]}, h) /\ h.op = "OP_GET"
    BY <1>3 DEF RemoteGet, Request, Header
  <2> QED
    BY <2>1
<1>4. CASE Rmw(w)
  <2> DEFINE h == Request(w, IF Cur(w).op = "fadd" THEN "OP_FETCH_AND_ADD" ELSE "OP_SWAP",
                          Cur(w).to, Target(w), Cur(w).val)
  <2>1. Send(w, {master[Cur(w).to]}, h) /\ h.op \in {"OP_FETCH_AND_ADD", "OP_SWAP"}
    BY <1>4 DEF Rmw, Ask, Request, Header
  <2> QED
    BY <2>1
<1>5. CASE Return(w) \/ Wait(w) \/ Test(w) \/ WaitAll(w) \/ FenceProc(w) \/ Release(w) \/ Exhausted(w)
  BY <1>5 DEF Return, Wait, Test, WaitAll, FenceProc, Complete, Release, Exhausted
<1>6. CASE Fence(w)
  <2> DEFINE h == Request(w, "OP_FENCE", 0, Null, 0)
  <2>1. UNCHANGED chan \/ (Send(w, Flagged(w), h) /\ h.op = "OP_FENCE")
    BY <1>6 DEF Fence, Ask, Request, Header
  <2> QED
    BY <2>1
<1>7. CASE Notify(w)
  <2> DEFINE h == Header(w, IF Cur(w).op = "malloc" THEN "OP_MALLOC" ELSE "OP_FREE",
                         0, Null, 0, Entries(w))
  <2>1. UNCHANGED chan \/ (Send(w, {master[w]}, h) /\ h.op \in {"OP_MALLOC", "OP_FREE"})
    BY <1>7 DEF Notify, Ask, Header
  <2> QED
    BY <2>1
<1>8. CASE Create(w)
  <2> DEFINE h == Request(w, "OP_CREATE_MUTEXES", 0, Null, Cur(w).val)
  <2>1. Send(w, {master[w]}, h) /\ h.op = "OP_CREATE_MUTEXES"
    BY <1>8 DEF Create, Ask, Request, Header
  <2> QED
    BY <2>1
<1>9. CASE Destroy(w)
  <2>1. UNCHANGED chan \/ \E n : Send(w, {master[w]}, Request(w, "OP_DESTROY_MUTEXES", 0, Null, n))
    BY <1>9 DEF Destroy, Ask
  <2>2. \A n : Request(w, "OP_DESTROY_MUTEXES", 0, Null, n).op = "OP_DESTROY_MUTEXES"
    BY DEF Request, Header
  <2> QED
    BY <2>1, <2>2
<1>10. CASE Lock(w)
  <2> DEFINE h == Request(w, "OP_LOCK", Cur(w).to, Cur(w).val, 0)
  <2>1. Send(w, {master[Cur(w).to]}, h) /\ h.op = "OP_LOCK"
    BY <1>10 DEF Lock, Ask, Request, Header
  <2> QED
    BY <1>10, <2>1
<1>11. CASE Unlock(w)
  <2> DEFINE h == Request(w, "OP_UNLOCK", Cur(w).to, Cur(w).val, 0)
  <2>1. Send(w, {master[Cur(w).to]}, h) /\ h.op = "OP_UNLOCK"
    BY <1>11 DEF Unlock, Request, Header
  <2> QED
    BY <1>11, <2>1
<1>12. CASE SendQuit(w)
  <2> DEFINE h == Request(w, "OP_QUIT", 0, Null, 0)
  <2>1. UNCHANGED chan \/ (Send(w, {master[w]}, h) /\ h.op = "OP_QUIT")
    BY <1>12 DEF SendQuit, Request, Header
  <2> QED
    BY <1>12, <2>1
<1> QED
  BY <1>1, <1>2, <1>3, <1>4, <1>5, <1>6, <1>7, <1>8, <1>9, <1>10, <1>11, <1>12 DEF WorkerStep

\* Nobody becomes an owner.
LEMMA MutexesKept ==
    ASSUME MutexInv, UNCHANGED <<job, master, mutexes>>, failed => failed', HeldTyped',
           \A w, o \in Worker, n \in Int : Agreed(w, o, n)' /\ (Owns(w, o, n)' => Owns(w, o, n))
    PROVE  MutexInv'
<1>1. Worker' = Worker
  BY SameHosts
<1>2. ASSUME NEW o \in Worker, NEW n \in Int PROVE \A w \in Worker : Entered(w, o, n)'
  <2>1. \A w \in Worker : Owns(w, o, n)' => Owns(w, o, n)
    OBVIOUS
  <2>2. \A w \in Worker : Entered(w, o, n)
    BY DEF MutexInv
  <2> QED
    BY <2>1, <2>2, EnteredSame
<1> QED
  BY <1>1, <1>2 DEF MutexInv

\* A worker that nothing happens to
LEMMA QuietApart ==
    ASSUME JobOK, UNCHANGED <<job, master, lq>>, NEW w \in Worker,
           pc'[w] = pc[w], mode'[w] = mode[w], held'[w] = held[w],
           \A m \in Server : Underway(w, m)' = Underway(w, m)
    PROVE  \A o \in Worker, n \in Int : Apart(w, o, n)
<1> TAKE o \in Worker, n \in Int
<1>1. master[o] \in Server
  BY Hosts
<1>2. Awaits(w, o, n)' <=> Awaits(w, o, n)
  BY DEF Awaits, Cur
<1>3. InLine(w, o, n)' <=> InLine(w, o, n)
  BY DEF InLine
<1> QED
  BY <1>1, <1>2, <1>3 DEF Apart

LEMMA LockOnly ==
    ASSUME TypeInv, NEW w \in Worker, WorkerStep(w), mode[w] = "run", Cur(w).op = "lock"
    PROVE  Lock(w) \/ Exhausted(w)
<1>1. Active(w) => Stage(w) = "lock"
  BY LockStage DEF TypeInv
<1>2. ~ (DirectPut(w) \/ DirectGet(w) \/ DirectAcc(w) \/ DirectAccApply(w))
  BY DEF DirectPut, DirectGet, DirectAcc, DirectAccApply, Calling, At
<1>3. ~ (RemoteWrite(w) \/ RemoteGet(w) \/ Rmw(w) \/ Return(w))
  BY DEF RemoteWrite, RemoteGet, Rmw, Return, Calling, At
<1>4. ~ (Wait(w) \/ Test(w) \/ WaitAll(w) \/ FenceProc(w) \/ Fence(w))
  BY <1>1 DEF Wait, Test, WaitAll, FenceProc, Complete, Fence, Calling, At
<1>5. ~ (Notify(w) \/ Release(w) \/ Create(w) \/ Destroy(w))
  BY <1>1 DEF Notify, Release, Create, Destroy, At
<1>6. ~ (Unlock(w) \/ SendQuit(w))
  BY <1>1 DEF Unlock, SendQuit, Calling, At
<1> QED
  BY <1>2, <1>3, <1>4, <1>5, <1>6 DEF WorkerStep

\* The calls that are not about a mutex
LEMMA MutexesElsewhere ==
    ASSUME PrInv, MutexInv, NEW w \in Worker, WorkerStep(w), ~Lock(w), ~Unlock(w), ~Return(w),
           UNCHANGED <<job, master>>, ~failed
    PROVE  MutexInv'
<1>1. TypeInv /\ JobOK
  BY DEF PrInv, TypeInv
<1>2. UNCHANGED <<held, mutexes, lq>>
  <2>1. CASE DirectPut(w) \/ DirectGet(w) \/ DirectAcc(w) \/ DirectAccApply(w) \/ RemoteWrite(w)
             \/ RemoteGet(w) \/ Rmw(w) \/ Wait(w) \/ Test(w) \/ WaitAll(w) \/ FenceProc(w) \/ Fence(w)
    BY <2>1 DEF DirectPut, DirectGet, DirectAcc, DirectAccApply, RemoteWrite, RemoteGet, Rmw,
                Wait, Test, WaitAll, FenceProc, Complete, Fence, locks
  <2>2. CASE Notify(w) \/ Release(w) \/ Create(w) \/ Destroy(w) \/ SendQuit(w) \/ Exhausted(w)
    BY <2>2 DEF Notify, Release, Create, Destroy, SendQuit, Exhausted, locks
  <2> QED
    BY <2>1, <2>2 DEF WorkerStep
<1>3. \A v \in Worker, m \in Server : \A h : h.op \in {"OP_LOCK", "OP_UNLOCK"} =>
         (h \in Underway(v, m)' <=> h \in Underway(v, m))
  <2>1. CASE UNCHANGED chan
    BY <1>1, <2>1, SameUnderway
  <2>2. ASSUME NEW ms, NEW h, Send(w, ms, h), h.op \notin {"OP_LOCK", "OP_UNLOCK"}
        PROVE  \A v \in Worker, m \in Server : \A g : g.op \in {"OP_LOCK", "OP_UNLOCK"} =>
                  (g \in Underway(v, m)' <=> g \in Underway(v, m))
    <3>1. \A v \in Worker, m \in Server :
              Underway(v, m)' = IF v = w /\ m \in ms THEN Underway(v, m) \cup {h}
                                ELSE Underway(v, m)
      BY <1>1, <2>2, UnderwaySent
    <3> QED
      BY <2>2, <3>1
  <2> QED
    BY <1>1, <2>1, <2>2, Speaks
<1>4. /\ \A v \in Worker \ {w} : pc'[v] = pc[v] /\ mode'[v] = mode[v]
      /\ mode[w] # "wait"
      /\ mode'[w] = "wait" => pc'[w] = pc[w] /\ mode[w] = "run"
  BY <1>1, Modes
<1>5. mode'[w] = "wait" => Cur(w)'.op # "lock"
  <2> SUFFICES ASSUME mode'[w] = "wait" PROVE Cur(w)'.op # "lock"
    OBVIOUS
  <2>1. Cur(w)' = Cur(w) /\ mode[w] = "run"
    BY <1>4 DEF Cur
  <2>2. ~Exhausted(w)
    BY <2>1 DEF Exhausted, control
  <2> QED
    BY <1>1, <2>1, <2>2, LockOnly
<1>6. ASSUME NEW v \in Worker, NEW o \in Worker, NEW n \in Int PROVE Apart(v, o, n)
  <2>1. Awaits(v, o, n)' <=> Awaits(v, o, n)
    <3>1. CASE v = w
      BY <1>4, <1>5, <3>1 DEF Awaits
    <3>2. CASE v # w
      BY <1>4, <3>2 DEF Awaits, Cur
    <3> QED
      BY <3>1, <3>2
  <2>2. master[o] \in Server
    BY <1>1, Hosts
  <2> QED
    BY <1>2, <1>3, <2>1, <2>2 DEF Apart, InLine, About
<1>7. HeldTyped'
  BY <1>2, SameHosts DEF MutexInv, HeldTyped
<1> QED
  BY <1>2, <1>6, <1>7, MutexesApart

\* comex_lock: w asks, and waits.
LEMMA MutexesAsked ==
    ASSUME PrInv, MutexInv, NEW w \in Worker, Lock(w), UNCHANGED <<job, master>>, ~failed
    PROVE  MutexInv'
<1> DEFINE h == Request(w, "OP_LOCK", Cur(w).to, Cur(w).val, 0)
<1>1. /\ TypeInv /\ JobOK /\ Active(w) /\ mode[w] = "run" /\ Cur(w).op = "lock"
      /\ Turn(w, "wait") /\ Send(w, {master[Cur(w).to]}, h) /\ UNCHANGED <<held, mutexes, lq, failed>>
  BY DEF Lock, Ask, Calling, At, PrInv, TypeInv, locks
<1>2. PICK o0 \in Worker, n0 \in Int, m0 \in Server : o0 = Cur(w).to /\ n0 = Cur(w).val /\ m0 = master[o0]
  BY <1>1, Operands DEF TypeInv
<1>3. h.op = "OP_LOCK" /\ h.rank = o0 /\ h.id = n0
  BY <1>2 DEF Request, Header
<1> HIDE DEF h
<1>4. /\ mode'[w] = "wait" /\ \A v \in Worker : pc'[v] = pc[v] /\ (v # w => mode'[v] = mode[v])
  BY <1>1 DEF Turn, TypeInv, ControlOK
<1>5. \A v \in Worker, m \in Server :
         Underway(v, m)' = IF v = w /\ m = m0 THEN Underway(v, m) \cup {h} ELSE Underway(v, m)
  <2>1. Send(w, {m0}, h)
    BY <1>1, <1>2
  <2>2. \A v \in Worker, m \in Server :
         Underway(v, m)' = IF v = w /\ m \in {m0} THEN Underway(v, m) \cup {h} ELSE Underway(v, m)
    BY <1>1, <2>1, UnderwaySent
  <2> QED
    BY <2>2
<1>6. ASSUME NEW v \in Worker \ {w}, NEW o \in Worker, NEW n \in Int
      PROVE  Agreed(v, o, n)' /\ (Owns(v, o, n)' => Owns(v, o, n))
  <2>1. \A m \in Server : Underway(v, m)' = Underway(v, m)
    BY <1>5
  <2>2. Apart(v, o, n)
    BY <1>1, <1>4, <2>1, QuietApart
  <2> QED
    BY <2>2, ApartTold, ApartAgreed DEF MutexInv
<1>7. ASSUME NEW o \in Worker, NEW n \in Int
      PROVE  Agreed(w, o, n)' /\ (Owns(w, o, n)' => Owns(w, o, n))
  <2>1. Agreed(w, o, n) /\ ~Awaits(w, o, n)
    BY <1>1 DEF MutexInv, Awaits
  <2>2. Awaits(w, o, n)' <=> o = o0 /\ n = n0
    BY <1>1, <1>2, <1>4 DEF Awaits, Cur
  <2>3. ~InLine(w, o, n)'
    BY <1>1, <2>1 DEF InLine, Agreed
  <2>4. Underway(w, master[o])' = IF master[o] = m0 THEN Underway(w, master[o]) \cup {h}
                                  ELSE Underway(w, master[o])
    BY <1>1, <1>5, Hosts
  <2>5. Told(w, "OP_LOCK", o, n)' <=> o = o0 /\ n = n0
    BY <1>2, <1>3, <2>1, <2>4 DEF Told, About, Agreed
  <2>6. Told(w, "OP_UNLOCK", o, n)' <=> Told(w, "OP_UNLOCK", o, n)
    BY <1>3, <2>4 DEF Told, About
  <2>7. ~Cleared(w, o, n)'
    BY <2>2, <2>5 DEF Cleared
  <2>8. \A f, g \in Underway(w, master[o])' :
           About(f, "OP_UNLOCK", o, n) /\ About(g, "OP_UNLOCK", o, n) => f = g
    BY <1>3, <2>1, <2>4 DEF About, Agreed
  <2> QED
    BY <1>1, <2>1, <2>2, <2>3, <2>5, <2>6, <2>7, <2>8 DEF Agreed, Owns
<1>8. HeldTyped'
  BY <1>1, SameHosts DEF MutexInv, HeldTyped
<1>9. \A v, o \in Worker, n \in Int : Agreed(v, o, n)' /\ (Owns(v, o, n)' => Owns(v, o, n))
  BY <1>6, <1>7
<1> QED
  BY <1>1, <1>8, <1>9, MutexesKept

\* comex_unlock: w tells, and lets go.
LEMMA MutexesTold ==
    ASSUME PrInv, MutexInv, Disciplined, NEW w \in Worker, Unlock(w), UNCHANGED <<job, master>>,
           ~failed
    PROVE  MutexInv'
<1> DEFINE h == Request(w, "OP_UNLOCK", Cur(w).to, Cur(w).val, 0)
<1>1. /\ TypeInv /\ JobOK /\ Active(w) /\ mode[w] = "run" /\ Cur(w).op = "unlock"
      /\ Turn(w, "wait") /\ Send(w, {master[Cur(w).to]}, h) /\ UNCHANGED <<mutexes, lq, failed>>
      /\ held' = [held EXCEPT ![w] = @ \ {<<Cur(w).to, Cur(w).val>>}]
      /\ <<Cur(w).to, Cur(w).val>> \in held[w]
  BY DEF Unlock, Calling, At, PrInv, TypeInv, Disciplined
<1>2. PICK o0 \in Worker, n0 \in Int, m0 \in Server : o0 = Cur(w).to /\ n0 = Cur(w).val /\ m0 = master[o0]
  BY <1>1, Operands DEF TypeInv
<1>3. h.op = "OP_UNLOCK" /\ h.rank = o0 /\ h.id = n0
  BY <1>2 DEF Request, Header
<1> HIDE DEF h
<1>4. /\ mode'[w] = "wait" /\ \A v \in Worker : pc'[v] = pc[v] /\ (v # w => mode'[v] = mode[v])
  BY <1>1 DEF Turn, TypeInv, ControlOK
<1>5. \A v \in Worker, m \in Server :
         Underway(v, m)' = IF v = w /\ m = m0 THEN Underway(v, m) \cup {h} ELSE Underway(v, m)
  <2>1. Send(w, {m0}, h)
    BY <1>1, <1>2
  <2>2. \A v \in Worker, m \in Server :
         Underway(v, m)' = IF v = w /\ m \in {m0} THEN Underway(v, m) \cup {h} ELSE Underway(v, m)
    BY <1>1, <2>1, UnderwaySent
  <2> QED
    BY <2>2
<1>6. /\ held'[w] = held[w] \ {<<o0, n0>>} /\ <<o0, n0>> \in held[w]
      /\ \A v \in Worker \ {w} : held'[v] = held[v]
  BY <1>1, <1>2 DEF MutexInv, HeldTyped
<1>7. ASSUME NEW v \in Worker \ {w}, NEW o \in Worker, NEW n \in Int
      PROVE  Agreed(v, o, n)' /\ (Owns(v, o, n)' => Owns(v, o, n))
  <2>1. \A m \in Server : Underway(v, m)' = Underway(v, m)
    BY <1>5
  <2>2. Apart(v, o, n)
    BY <1>1, <1>4, <1>6, <2>1, QuietApart
  <2> QED
    BY <2>2, ApartTold, ApartAgreed DEF MutexInv
<1>8. ASSUME NEW o \in Worker, NEW n \in Int
      PROVE  Agreed(w, o, n)' /\ (Owns(w, o, n)' => Owns(w, o, n))
  <2>1. Agreed(w, o, n) /\ ~Awaits(w, o, n)
    BY <1>1 DEF MutexInv, Awaits
  <2>2. ~Awaits(w, o, n)' /\ ~Cleared(w, o, n)'
    BY <1>1, <1>4 DEF Awaits, Cur, Cleared
  <2>3. ~InLine(w, o, n)'
    BY <1>1, <2>1 DEF InLine, Agreed
  <2>4. Underway(w, master[o])' = IF master[o] = m0 THEN Underway(w, master[o]) \cup {h}
                                  ELSE Underway(w, master[o])
    BY <1>1, <1>5, Hosts
  <2>5. ~Told(w, "OP_LOCK", o, n)'
    BY <1>3, <2>1, <2>4 DEF Told, About, Agreed
  <2>6. Told(w, "OP_UNLOCK", o, n)' <=> Told(w, "OP_UNLOCK", o, n) \/ (o = o0 /\ n = n0)
    BY <1>2, <1>3, <2>4 DEF Told, About
  <2>7. o = o0 /\ n = n0 => ~Told(w, "OP_UNLOCK", o, n)
    BY <1>6, <2>1 DEF Agreed
  <2>8. \A f, g \in Underway(w, master[o])' :
           About(f, "OP_UNLOCK", o, n) /\ About(g, "OP_UNLOCK", o, n) => f = g
    BY <1>3, <2>1, <2>4, <2>7 DEF About, Agreed, Told
  <2>9. <<o, n>> \in held'[w] <=> <<o, n>> \in held[w] /\ ~(o = o0 /\ n = n0)
    BY <1>6
  <2> QED
    BY <1>6, <2>1, <2>2, <2>3, <2>5, <2>6, <2>7, <2>8, <2>9 DEF Agreed, Owns
<1>9. HeldTyped'
  BY <1>1, <1>6, SameHosts DEF MutexInv, HeldTyped
<1>10. \A v, o \in Worker, n \in Int : Agreed(v, o, n)' /\ (Owns(v, o, n)' => Owns(v, o, n))
  BY <1>7, <1>8
<1> QED
  BY <1>1, <1>9, <1>10, MutexesKept

\* A wait returns; if it is for a mutex, then w was cleared to go on.
LEMMA MutexesReturned ==
    ASSUME PrInv, MutexInv, NEW w \in Worker, Return(w), UNCHANGED <<job, master>>, ~failed
    PROVE  MutexInv'
<1>1. /\ TypeInv /\ JobOK /\ ControlOK /\ Active(w) /\ mode[w] = "wait" /\ ~Pending(w, nb[w].cur)
      /\ held' = IF Stage(w) # "lock" THEN held
                 ELSE [held EXCEPT ![w] = @ \cup {<<Cur(w).to, Cur(w).val>>}]
      /\ Advance({w}) /\ UNCHANGED <<chan, posted, mutexes, lq, failed>>
  BY DEF Return, PrInv, TypeInv
<1>2. \A v \in Worker \ {w} : pc'[v] = pc[v] /\ mode'[v] = mode[v]
  BY <1>1 DEF Advance, ControlOK
<1>3. mode'[w] = "run"
  BY <1>1 DEF Advance
<1>4. \A v \in Worker, m \in Server : Underway(v, m)' = Underway(v, m)
  BY <1>1, SameUnderway
<1>5. Stage(w) = "lock" <=> Cur(w).op = "lock"
  BY <1>1, LockStage
<1>6. PICK o0 \in Worker, n0 \in Int : o0 = Cur(w).to /\ n0 = Cur(w).val
  BY <1>1, Operands DEF TypeInv
<1>7. HeldTyped' /\ \A v \in Worker \ {w} : held'[v] = held[v]
  BY <1>1, <1>6, SameHosts DEF MutexInv, HeldTyped
<1>8. held'[w] = IF Cur(w).op = "lock" THEN held[w] \cup {<<o0, n0>>} ELSE held[w]
  BY <1>1, <1>5, <1>6 DEF MutexInv, HeldTyped
<1>9. ASSUME NEW v \in Worker \ {w}, NEW o \in Worker, NEW n \in Int
      PROVE  Agreed(v, o, n)' /\ (Owns(v, o, n)' => Owns(v, o, n))
  <2>1. \A m \in Server : Underway(v, m)' = Underway(v, m)
    BY <1>4
  <2>2. Apart(v, o, n)
    BY <1>1, <1>2, <1>7, <2>1, QuietApart
  <2> QED
    BY <2>2, ApartTold, ApartAgreed DEF MutexInv
<1>10. ASSUME NEW o \in Worker, NEW n \in Int, Awaits(w, o, n)
       PROVE  Cleared(w, o, n)
  <2>1. PICK m \in Server : m = master[o]
    BY <1>1, Hosts
  <2>2. \A i \in DOMAIN posted[w][m] : posted[w][m][i].nb # nb[w].cur
    BY <1>1, NotPending
  <2>3. ~Told(w, "OP_LOCK", o, n)
    <3>1. \A h \in Underway(w, m) : About(h, "OP_LOCK", o, n) => Answered(h) /\ h.op # "OP_GET"
      BY DEF About, Answered
    <3>2. \A h \in Underway(w, m) : Answered(h) /\ h.op # "OP_GET" => FALSE
      BY <2>2, UnderwayFacts
    <3> QED
      BY <2>1, <3>1, <3>2 DEF Told
  <2>4. ~InLine(w, o, n)
    <3>1. InLine(w, o, n) => Queued(w, m)
      BY <2>1 DEF InLine, Queued
    <3>2. Queued(w, m) => posted[w][m] # <<>> /\ \A i \in DOMAIN posted[w][m] : FALSE
      BY <2>2, UnderwayFacts
    <3>3. posted[w][m] \in Seq(Waiting)
      BY <1>1, LinkTypes
    <3>4. posted[w][m] # <<>> => 1 \in DOMAIN posted[w][m]
      BY <3>3, TailFacts
    <3> QED
      BY <3>1, <3>2, <3>4
  <2> QED
    BY <1>10, <2>3, <2>4 DEF Cleared
<1>11. ASSUME NEW o \in Worker, NEW n \in Int
       PROVE  Agreed(w, o, n)' /\ (Owns(w, o, n)' => Owns(w, o, n))
  <2>1. Agreed(w, o, n)
    BY DEF MutexInv
  <2>2. ~Awaits(w, o, n)' /\ ~Cleared(w, o, n)'
    BY <1>3 DEF Awaits, Cleared
  <2>3. \A op : Told(w, op, o, n)' <=> Told(w, op, o, n)
    BY <1>1, <1>4, Hosts DEF Told
  <2>4. ~Told(w, "OP_LOCK", o, n) /\ ~InLine(w, o, n)
    BY <1>10, <2>1 DEF Agreed, Cleared
  <2>5. ~InLine(w, o, n)'
    BY <1>1, <2>4 DEF InLine
  <2>6. <<o, n>> \in held'[w] <=> <<o, n>> \in held[w] \/ Awaits(w, o, n)
    BY <1>1, <1>6, <1>8 DEF Awaits
  <2>7. \A f, g \in Underway(w, master[o])' :
           About(f, "OP_UNLOCK", o, n) /\ About(g, "OP_UNLOCK", o, n) => f = g
    BY <1>1, <1>4, <2>1, Hosts DEF Agreed
  <2> QED
    BY <1>1, <1>10, <2>1, <2>2, <2>3, <2>4, <2>5, <2>6, <2>7 DEF Agreed, Owns
<1>12. \A v, o \in Worker, n \in Int : Agreed(v, o, n)' /\ (Owns(v, o, n)' => Owns(v, o, n))
  BY <1>9, <1>11
<1> QED
  BY <1>1, <1>7, <1>12, MutexesKept

\* Workers meet, and wait for nothing.
LEMMA MutexesMet ==
    ASSUME PrInv, MutexInv, NEW ws \in SUBSET Worker, Advance(ws),
           \A w \in ws : mode[w] # "wait",
           UNCHANGED <<job, master, chan, held, mutexes, lq>>, ~failed
    PROVE  MutexInv'
<1>1. TypeInv /\ JobOK
  BY DEF PrInv, TypeInv
<1>2. \A w \in Worker : IF w \in ws THEN mode'[w] = "run" ELSE pc'[w] = pc[w] /\ mode'[w] = mode[w]
  BY DEF Advance
<1>3. \A v \in Worker, m \in Server : Underway(v, m)' = Underway(v, m)
  BY SameUnderway
<1>4. ASSUME NEW v \in Worker, NEW o \in Worker, NEW n \in Int PROVE Apart(v, o, n)
  <2>1. Awaits(v, o, n)' <=> Awaits(v, o, n)
    BY <1>2 DEF Awaits, Cur
  <2>2. master[o] \in Server
    BY <1>1, Hosts
  <2> QED
    BY <1>3, <2>1, <2>2 DEF Apart, InLine, About
<1>5. HeldTyped'
  BY SameHosts DEF MutexInv, HeldTyped
<1> QED
  BY <1>4, <1>5, MutexesApart

LEMMA MutexesTogether ==
    ASSUME PrInv, MutexInv, UNCHANGED <<job, master>>, ~failed,
           Leave \/ \E ws \in SUBSET Worker : GroupStep(ws)
    PROVE  MutexInv'
<1>1. ASSUME NEW ws \in SUBSET Worker, GroupStep(ws) PROVE MutexInv'
  <2>1. Advance(ws) /\ UNCHANGED <<chan, held, mutexes, lq>> /\ \A w \in ws : mode[w] # "wait"
    BY <1>1 DEF GroupStep, Sync, GatherMalloc, GatherFree, GatherCreate, Met, At, locks
  <2> QED
    BY <2>1, MutexesMet
<1>2. ASSUME Leave PROVE MutexInv'
  <2>1. Advance(Worker) /\ UNCHANGED <<chan, held, mutexes, lq>> /\ \A w \in Worker : mode[w] # "wait"
    BY <1>2 DEF Leave, At, locks
  <2> QED
    BY <2>1, MutexesMet
<1> QED
  BY <1>1, <1>2

\* m is done with a message of w that is about no mutex.
LEMMA MutexesServed ==
    ASSUME PrInv, MutexInv, UNCHANGED <<job, master, control, held, mutexes, lq>>, ~failed,
           NEW m \in Server, NEW w \in Worker, NEW ops, Incoming(m, w, ops), Receive(m, w),
           "OP_LOCK" \notin ops, "OP_UNLOCK" \notin ops
    PROVE  MutexInv'
<1>1. TypeInv /\ JobOK
  BY DEF PrInv, TypeInv
<1>2. /\ Msg(m, w) \in Underway(w, m) /\ Msg(m, w).op \in ops
      /\ Underway(w, m)' = Underway(w, m) \ {Msg(m, w)}
      /\ \A v \in Worker, k \in Server : v # w \/ k # m => Underway(v, k)' = Underway(v, k)
  BY UnderwayReceived
<1>3. \A v \in Worker, k \in Server : \A h : h.op \in {"OP_LOCK", "OP_UNLOCK"} =>
         (h \in Underway(v, k)' <=> h \in Underway(v, k))
  BY <1>2
<1>4. ASSUME NEW v \in Worker, NEW o \in Worker, NEW n \in Int PROVE Apart(v, o, n)
  <2>1. Awaits(v, o, n)' <=> Awaits(v, o, n)
    BY DEF Awaits, Cur, control
  <2>2. master[o] \in Server
    BY <1>1, Hosts
  <2> QED
    BY <1>3, <2>1, <2>2 DEF Apart, InLine, About
<1>5. HeldTyped'
  BY SameHosts DEF MutexInv, HeldTyped
<1> QED
  BY <1>4, <1>5, MutexesApart

\* _mutex_create_handler and _mutex_destroy_handler: nobody owned a mutex of w.
LEMMA MutexesTabled ==
    ASSUME PrInv, MutexInv, Disciplined, UNCHANGED <<job, master>>, ~failed,
           NEW m \in Server, NEW w \in Worker,
           MutexCreateHandler(m, w) \/ MutexDestroyHandler(m, w)
    PROVE  MutexInv'
<1> DEFINE ops == {"OP_CREATE_MUTEXES", "OP_DESTROY_MUTEXES"}
<1>1. /\ TypeInv /\ JobOK /\ Incoming(m, w, ops) /\ Receive(m, w) /\ UNCHANGED <<pc, mode, held>>
      /\ \E n \in {0, Msg(m, w).val} :
            /\ mutexes' = [mutexes EXCEPT ![w] = [i \in 1 .. n |-> UNLOCKED]]
            /\ lq' = [lq EXCEPT ![w] = [i \in 1 .. n |-> <<>>]]
  <2>1. CASE MutexCreateHandler(m, w)
    BY <2>1 DEF MutexCreateHandler, PrInv, TypeInv, control, Incoming
  <2>2. CASE MutexDestroyHandler(m, w)
    <3>1. <<>> = [i \in 1 .. 0 |-> UNLOCKED] /\ <<>> = [i \in 1 .. 0 |-> <<>>]
      OBVIOUS
    <3> QED
      BY <2>2, <3>1 DEF MutexDestroyHandler, PrInv, TypeInv, control, Incoming
  <2> QED
    BY <2>1, <2>2
<1>2. \A i \in DOMAIN mutexes[w] : mutexes[w][i] = UNLOCKED /\ lq[w][i] = <<>>
  BY <1>1 DEF Disciplined
<1>3. /\ \A v \in Worker \ {w} : mutexes'[v] = mutexes[v] /\ lq'[v] = lq[v]
      /\ \A i \in DOMAIN lq'[w] : lq'[w][i] = <<>>
      /\ DOMAIN lq[w] = DOMAIN mutexes[w]
  <2>1. PICK n \in Int :
            /\ mutexes' = [mutexes EXCEPT ![w] = [i \in 1 .. n |-> UNLOCKED]]
            /\ lq' = [lq EXCEPT ![w] = [i \in 1 .. n |-> <<>>]]
    <3>1. Msg(m, w) \in Message
      BY <1>1, Receiving DEF TypeInv
    <3>2. Msg(m, w).val \in Int
      BY <3>1 DEF Message
    <3>3. PICK n \in {0, Msg(m, w).val} :
              /\ mutexes' = [mutexes EXCEPT ![w] = [i \in 1 .. n |-> UNLOCKED]]
              /\ lq' = [lq EXCEPT ![w] = [i \in 1 .. n |-> <<>>]]
      BY <1>1
    <3>4. n \in Int
      BY <3>2
    <3> QED
      BY <3>3, <3>4
  <2>2. /\ mutexes \in [Worker -> Seq(Int)] /\ lq \in [Worker -> Seq(Seq(Worker))]
        /\ Len(lq[w]) = Len(mutexes[w])
    BY <1>1 DEF TypeInv, MutexesOK
  <2>3. lq'[w] = [i \in 1 .. n |-> <<>>]
    BY <2>1, <2>2
  <2>4. mutexes[w] \in Seq(Int) /\ lq[w] \in Seq(Seq(Worker))
    BY <2>2
  <2>5. DOMAIN lq[w] = DOMAIN mutexes[w]
    BY <2>2, <2>4
  <2> QED
    BY <2>1, <2>2, <2>3, <2>5
<1>4. /\ Msg(m, w) \in Underway(w, m) /\ Msg(m, w).op \in ops
      /\ Underway(w, m)' = Underway(w, m) \ {Msg(m, w)}
      /\ \A v \in Worker, k \in Server : v # w \/ k # m => Underway(v, k)' = Underway(v, k)
  BY <1>1, UnderwayReceived
<1>5. \A v \in Worker, k \in Server : \A h : h.op \in {"OP_LOCK", "OP_UNLOCK"} =>
         (h \in Underway(v, k)' <=> h \in Underway(v, k))
  BY <1>4
<1>6. ASSUME NEW v \in Worker, NEW o \in Worker, NEW n \in Int PROVE Apart(v, o, n)
  <2>1. Awaits(v, o, n)' <=> Awaits(v, o, n)
    BY <1>1 DEF Awaits, Cur
  <2>2. master[o] \in Server
    BY <1>1, Hosts
  <2>3. InLine(v, o, n)' <=> InLine(v, o, n)
    <3>1. CASE o = w
      <4>1. \A i \in DOMAIN lq[w] : lq[w][i] = <<>>
        BY <1>2, <1>3
      <4>2. \A k : k \notin DOMAIN <<>>
        OBVIOUS
      <4> QED
        BY <1>3, <3>1, <4>1, <4>2 DEF InLine
    <3>2. CASE o # w
      BY <1>3, <3>2 DEF InLine
    <3> QED
      BY <3>1, <3>2
  <2> QED
    BY <1>1, <1>5, <2>1, <2>2, <2>3 DEF Apart, About
<1>7. HeldTyped'
  BY <1>1, SameHosts DEF MutexInv, HeldTyped
<1>8. ASSUME NEW o \in Worker, NEW n \in Int PROVE \A v \in Worker : Entered(v, o, n)'
  <2>1. \A v \in Worker : Entered(v, o, n) /\ (Owns(v, o, n)' <=> Owns(v, o, n))
    BY <1>6, ApartTold DEF MutexInv
  <2>2. CASE o = w
    <3>1. ASSUME NEW v \in Worker, Owns(v, o, n) PROVE FALSE
      <4>1. n + 1 \in DOMAIN mutexes[w] /\ mutexes[w][n + 1] = v
        BY <2>1, <2>2, <3>1 DEF Entered
      <4>2. v # UNLOCKED
        BY <1>1, Hosts DEF UNLOCKED
      <4> QED
        BY <1>2, <4>1, <4>2
    <3> QED
      BY <2>1, <3>1 DEF Entered
  <2>3. CASE o # w
    <3>1. mutexes'[o] = mutexes[o]
      BY <1>3, <2>3
    <3> QED
      BY <2>1, <3>1, EnteredSame
  <2> QED
    BY <2>2, <2>3
<1>9. \A v, o \in Worker, n \in Int : Agreed(v, o, n)'
  BY <1>6, ApartAgreed DEF MutexInv
<1>10. Worker' = Worker
  BY SameHosts
<1> QED
  BY <1>7, <1>8, <1>9, <1>10 DEF MutexInv

\* One place in the tables changes.
LEMMA PlaceChanged ==
    ASSUME NEW T, NEW t \in [Worker -> Seq(T)], NEW o \in Worker, NEW i \in Int, NEW e, NEW u,
           u = [t EXCEPT ![o][i] = e]
    PROVE  \A p \in Worker : /\ DOMAIN u[p] = DOMAIN t[p]
                             /\ \A j \in DOMAIN t[p] :
                                   u[p][j] = IF p = o /\ j = i THEN e ELSE t[p][j]
<1>1. \A p \in Worker : u[p] = IF p = o THEN [t[o] EXCEPT ![i] = e] ELSE t[p]
  OBVIOUS
<1>2. DOMAIN [t[o] EXCEPT ![i] = e] = DOMAIN t[o]
      /\ \A j \in DOMAIN t[o] : [t[o] EXCEPT ![i] = e][j] = IF j = i THEN e ELSE t[o][j]
  OBVIOUS
<1> QED
  BY <1>1, <1>2

\* Whoever m is about to serve is in none of its queues.
LEMMA NotInLine ==
    ASSUME PrInv, MutexInv, NEW m \in Server, NEW w \in Worker, NEW h \in Underway(w, m)
    PROVE  \A o \in Worker, n \in Int : master[o] = m => ~InLine(w, o, n)
<1> SUFFICES ASSUME NEW o \in Worker, NEW n \in Int, master[o] = m, InLine(w, o, n) PROVE FALSE
  OBVIOUS
<1>1. Queued(w, m)
  BY DEF InLine, Queued
<1> QED
  BY <1>1, UnderwayFacts

\* A request for a mutex comes to its master ...
LEMMA LockReceived ==
    ASSUME PrInv, MutexInv, NEW m \in Server, NEW w \in Worker, LockHandler(m, w),
           UNCHANGED <<job, master>>
    PROVE  /\ UNCHANGED <<pc, mode, held>> /\ HeldTyped'
           /\ Underway(w, m)' = {}
           /\ \A v \in Worker, k \in Server : v # w \/ k # m => Underway(v, k)' = Underway(v, k)
           /\ \E o \in Worker, n \in Int :
                 /\ Msg(m, w).rank = o /\ Msg(m, w).id = n /\ master[o] = m /\ Awaits(w, o, n)
           /\ \A o \in Worker, n \in Int : master[o] = m => ~InLine(w, o, n)
<1>1. /\ TypeInv /\ JobOK /\ Incoming(m, w, {"OP_LOCK"}) /\ Receive(m, w)
      /\ UNCHANGED <<pc, mode, held>>
  BY DEF LockHandler, PrInv, TypeInv, control
<1>2. /\ Msg(m, w) \in Underway(w, m) /\ Msg(m, w).op \in {"OP_LOCK"}
      /\ Underway(w, m)' = Underway(w, m) \ {Msg(m, w)}
      /\ \A h \in Underway(w, m)' : Before(Msg(m, w).call, h.call)
      /\ \A v \in Worker, k \in Server : v # w \/ k # m => Underway(v, k)' = Underway(v, k)
  BY <1>1, UnderwayReceived
<1>3. Msg(m, w) \in Message /\ Sensible(Msg(m, w), m)
  BY <1>1, Receiving DEF TypeInv
<1>4. PICK o \in Worker, n \in Int : Msg(m, w).rank = o /\ Msg(m, w).id = n /\ master[o] = m
  BY <1>2, <1>3 DEF Sensible, Message
<1>5. Told(w, "OP_LOCK", o, n)
  BY <1>2, <1>4 DEF Told, About
<1>6. Awaits(w, o, n)
  BY <1>5 DEF MutexInv, Agreed
<1>7. Msg(m, w).call = Now(w)
  <2>1. Answered(Msg(m, w)) /\ Msg(m, w).op # "OP_GET"
    BY <1>2 DEF Answered
  <2> QED
    BY <1>2, <2>1, UnderwayFacts
<1>8. Underway(w, m)' = {}
  <2> SUFFICES ASSUME NEW h \in Underway(w, m)' PROVE FALSE
    OBVIOUS
  <2>1. h \in Underway(w, m) /\ Before(Now(w), h.call)
    BY <1>2, <1>7
  <2>2. h \in Message /\ (Before(h.call, Now(w)) \/ h.call = Now(w))
    BY <2>1, UnderwayFacts
  <2>3. h.call \in CallId /\ Now(w) \in CallId
    BY <1>1, <2>2, LinkTypes DEF Message
  <2> QED
    BY <2>1, <2>2, <2>3, BeforeFacts
<1>9. HeldTyped'
  BY <1>1, SameHosts DEF MutexInv, HeldTyped
<1>10. \A p \in Worker, j \in Int : master[p] = m => ~InLine(w, p, j)
  BY <1>2, NotInLine
<1> QED
  BY <1>1, <1>2, <1>4, <1>6, <1>8, <1>9, <1>10

\* ... which grants it at once, or puts w into the queue.
LEMMA MutexesLocked ==
    ASSUME PrInv, MutexInv, NEW m \in Server, NEW w \in Worker, LockHandler(m, w),
           UNCHANGED <<job, master>>, ~failed
    PROVE  MutexInv'
<1>1. /\ UNCHANGED <<pc, mode, held>> /\ HeldTyped'
      /\ Underway(w, m)' = {}
      /\ \A v \in Worker, k \in Server : v # w \/ k # m => Underway(v, k)' = Underway(v, k)
      /\ \A o \in Worker, n \in Int : master[o] = m => ~InLine(w, o, n)
  BY LockReceived
<1>2. PICK o0 \in Worker, n0 \in Int :
         Msg(m, w).rank = o0 /\ Msg(m, w).id = n0 /\ master[o0] = m /\ Awaits(w, o0, n0)
  BY LockReceived
<1>3. /\ TypeInv /\ JobOK /\ Worker' = Worker /\ \A o \in Worker : master[o] \in Server
      /\ mutexes \in [Worker -> Seq(Int)] /\ lq \in [Worker -> Seq(Seq(Worker))]
  BY SameHosts, Hosts DEF PrInv, TypeInv, MutexesOK
<1>4. \A v, o \in Worker, n \in Int : Awaits(v, o, n)' <=> Awaits(v, o, n)
  BY <1>1 DEF Awaits, Cur
<1>5. \A o \in Worker, n \in Int : Awaits(w, o, n) => o = o0 /\ n = n0
  BY <1>2 DEF Awaits
<1>6. CASE /\ Touches(o0, n0 + 1) => mutexes[o0][n0 + 1] = UNLOCKED
           /\ Assert(Touches(o0, n0 + 1) /\ Expected(m, w))
           /\ mutexes' = [mutexes EXCEPT ![o0][n0 + 1] = w] /\ UNCHANGED lq
  <2>1. \A v, o \in Worker, n \in Int : InLine(v, o, n)' <=> InLine(v, o, n)
    BY <1>6 DEF InLine
  <2>2. ASSUME NEW v \in Worker, NEW o \in Worker, NEW n \in Int, v # w \/ master[o] # m
        PROVE  Apart(v, o, n)
    BY <1>1, <1>3, <1>4, <2>1, <2>2 DEF Apart
  <2>3. ASSUME NEW o \in Worker, NEW n \in Int, master[o] = m
        PROVE  /\ Agreed(w, o, n)'
               /\ Owns(w, o, n)' => Owns(w, o, n) \/ (o = o0 /\ n = n0)
    <3>1. ~Told(w, "OP_LOCK", o, n)' /\ ~Told(w, "OP_UNLOCK", o, n)'
      BY <1>1, <2>3 DEF Told
    <3>2. ~InLine(w, o, n)'
      BY <1>1, <2>1, <2>3
    <3>3. Cleared(w, o, n)' => o = o0 /\ n = n0
      BY <1>4, <1>5 DEF Cleared
    <3>4. Underway(w, master[o])' = {}
      BY <1>1, <2>3
    <3> QED
      BY <1>1, <3>1, <3>2, <3>3, <3>4 DEF Agreed, Owns
  <2>4. \A v, o \in Worker, n \in Int :
           /\ Agreed(v, o, n)'
           /\ Owns(v, o, n)' => Owns(v, o, n) \/ (v = w /\ o = o0 /\ n = n0)
    <3> TAKE v \in Worker, o \in Worker, n \in Int
    <3>1. CASE v # w \/ master[o] # m
      <4>1. Apart(v, o, n)
        BY <2>2, <3>1
      <4>2. Agreed(v, o, n)
        BY DEF MutexInv
      <4> QED
        BY <4>1, <4>2, ApartTold, ApartAgreed
    <3>2. CASE v = w /\ master[o] = m
      BY <2>3, <3>2
    <3> QED
      BY <3>1, <3>2
  <2>5. \A p \in Worker : /\ DOMAIN mutexes'[p] = DOMAIN mutexes[p]
                          /\ \A j \in DOMAIN mutexes[p] :
                                mutexes'[p][j] = IF p = o0 /\ j = n0 + 1 THEN w ELSE mutexes[p][j]
    <3>1. n0 + 1 \in Int
      OBVIOUS
    <3> QED
      BY <1>3, <1>6, <3>1, PlaceChanged
  <2>6. \A v \in Worker : Owns(v, o0, n0)' => v = w
    <3> SUFFICES ASSUME NEW v \in Worker, v # w, Owns(v, o0, n0) PROVE FALSE
      BY <2>4
    <3>1. n0 + 1 \in DOMAIN mutexes[o0] /\ mutexes[o0][n0 + 1] = v
      BY DEF MutexInv, Entered
    <3>2. v # UNLOCKED
      BY <1>3, Hosts DEF UNLOCKED
    <3> QED
      BY <1>6, <3>1, <3>2 DEF Touches
  <2>7. ASSUME NEW o \in Worker, NEW n \in Int PROVE \A v \in Worker : Entered(v, o, n)'
    <3>1. CASE o = o0 /\ n = n0
      <4>1. ~failed' => n0 + 1 \in DOMAIN mutexes[o0]
        BY <1>6 DEF Assert, Touches
      <4>2. DOMAIN mutexes'[o0] = DOMAIN mutexes[o0]
            /\ (n0 + 1 \in DOMAIN mutexes[o0] => mutexes'[o0][n0 + 1] = w)
        BY <2>5
      <4> QED
        BY <1>3, <2>6, <3>1, <4>1, <4>2 DEF Entered
    <3>2. CASE ~(o = o0 /\ n = n0)
      <4>1. /\ \A v \in Worker : Entered(v, o, n)
            /\ \A v \in Worker : Owns(v, o, n)' => Owns(v, o, n)
        BY <2>4, <3>2 DEF MutexInv
      <4>2. /\ n + 1 \in DOMAIN mutexes'[o] <=> n + 1 \in DOMAIN mutexes[o]
            /\ n + 1 \in DOMAIN mutexes[o] => mutexes'[o][n + 1] = mutexes[o][n + 1]
        BY <2>5, <3>2
      <4> QED
        BY <4>1, <4>2, EnteredSame
    <3> QED
      BY <3>1, <3>2
  <2> QED
    BY <1>1, <1>3, <2>4, <2>7 DEF MutexInv
<1>7. CASE /\ Touches(o0, n0 + 1) /\ lq' = [lq EXCEPT ![o0][n0 + 1] = Append(@, w)]
           /\ UNCHANGED <<mutexes, failed>>
  <2>1. \A p \in Worker : /\ DOMAIN lq'[p] = DOMAIN lq[p]
                          /\ \A j \in DOMAIN lq[p] :
                                lq'[p][j] = IF p = o0 /\ j = n0 + 1 THEN Append(lq[o0][n0 + 1], w)
                                            ELSE lq[p][j]
    <3>1. n0 + 1 \in Int /\ lq' = [lq EXCEPT ![o0][n0 + 1] = Append(lq[o0][n0 + 1], w)]
      BY <1>3, <1>7
    <3> QED
      BY <1>3, <3>1, PlaceChanged
  <2>2. n0 + 1 \in DOMAIN lq[o0] /\ lq[o0][n0 + 1] \in Seq(Worker)
    <3>1. lq[o0] \in Seq(Seq(Worker)) /\ mutexes[o0] \in Seq(Int) /\ Len(lq[o0]) = Len(mutexes[o0])
      BY <1>3 DEF TypeInv, MutexesOK
    <3>2. n0 + 1 \in DOMAIN lq[o0]
      BY <1>7, <3>1 DEF Touches
    <3> QED
      BY <3>1, <3>2, ElementOfSeq
  <2>3. \A v, o \in Worker, n \in Int :
           InLine(v, o, n)' <=> InLine(v, o, n) \/ (v = w /\ o = o0 /\ n = n0)
    <3> TAKE v \in Worker, o \in Worker, n \in Int
    <3> DEFINE s == lq[o0][n0 + 1]
               e == Append(s, w)
    <3>1. /\ e[Len(s) + 1] = w /\ Len(s) + 1 \in DOMAIN e
          /\ \A i \in DOMAIN s : i \in DOMAIN e /\ e[i] = s[i]
          /\ \A i \in DOMAIN e : i \in DOMAIN s \/ i = Len(s) + 1
      <4> HIDE DEF s
      <4> QED
        BY <2>2, AppendFacts DEF s
    <3>2. CASE o = o0 /\ n = n0
      <4>1. lq'[o][n + 1] = e /\ lq[o][n + 1] = s /\ n + 1 \in DOMAIN lq'[o] /\ n + 1 \in DOMAIN lq[o]
        BY <2>1, <2>2, <3>2
      <4> HIDE DEF e, s
      <4> QED
        BY <3>1, <3>2, <4>1 DEF InLine
    <3>3. CASE ~(o = o0 /\ n = n0)
      <4>1. /\ n + 1 \in DOMAIN lq'[o] <=> n + 1 \in DOMAIN lq[o]
            /\ n + 1 \in DOMAIN lq[o] => lq'[o][n + 1] = lq[o][n + 1]
        BY <2>1, <3>3
      <4> QED
        BY <3>3, <4>1 DEF InLine
    <3> QED
      BY <3>2, <3>3
  <2>4. \A v, o \in Worker, n \in Int : Agreed(v, o, n)' /\ (Owns(v, o, n)' => Owns(v, o, n))
    <3> TAKE v \in Worker, o \in Worker, n \in Int
    <3>1. CASE v # w \/ master[o] # m
      <4>1. Apart(v, o, n)
        BY <1>1, <1>2, <1>3, <1>4, <2>3, <3>1 DEF Apart
      <4>2. Agreed(v, o, n)
        BY DEF MutexInv
      <4> QED
        BY <4>1, <4>2, ApartTold, ApartAgreed
    <3>2. CASE v = w /\ master[o] = m
      <4>1. ~Told(w, "OP_LOCK", o, n)' /\ ~Told(w, "OP_UNLOCK", o, n)'
        BY <1>1, <3>2 DEF Told
      <4>2. InLine(w, o, n)' <=> o = o0 /\ n = n0
        BY <1>1, <2>3, <3>2
      <4>3. ~Cleared(w, o, n)'
        BY <1>4, <1>5, <4>2 DEF Cleared
      <4>4. Underway(w, master[o])' = {}
        BY <1>1, <3>2
      <4>5. InLine(w, o, n)' => Awaits(w, o, n)'
        BY <1>2, <1>4, <4>2
      <4> QED
        BY <1>1, <3>2, <4>1, <4>3, <4>4, <4>5 DEF Agreed, Owns
    <3> QED
      BY <3>1, <3>2
  <2> QED
    BY <1>1, <1>7, <2>4, MutexesKept
<1>8. \/ /\ Touches(o0, n0 + 1) => mutexes[o0][n0 + 1] = UNLOCKED
         /\ Assert(Touches(o0, n0 + 1) /\ Expected(m, w))
         /\ mutexes' = [mutexes EXCEPT ![o0][n0 + 1] = w] /\ UNCHANGED lq
      \/ /\ Touches(o0, n0 + 1) /\ lq' = [lq EXCEPT ![o0][n0 + 1] = Append(@, w)]
         /\ UNCHANGED <<mutexes, failed>>
  BY <1>2 DEF LockHandler
<1> QED
  BY <1>6, <1>7, <1>8

\* A master learns that w gave a mutex back: nobody else owns it, and w not any
\* more.
LEMMA UnlockReceived ==
    ASSUME PrInv, MutexInv, NEW m \in Server, NEW w \in Worker, UnlockHandler(m, w),
           UNCHANGED <<job, master>>, ~failed
    PROVE  /\ UNCHANGED <<pc, mode, held>> /\ HeldTyped'
           /\ \A v \in Worker, k \in Server : v # w \/ k # m => Underway(v, k)' = Underway(v, k)
           /\ \A o \in Worker, n \in Int : master[o] = m => ~InLine(w, o, n)
           /\ \E o \in Worker, n \in Int :
                 /\ Msg(m, w).rank = o /\ Msg(m, w).id = n /\ master[o] = m
                 /\ n + 1 \in DOMAIN mutexes[o] /\ \A v \in Worker : Owns(v, o, n) => v = w
                 /\ ~Told(w, "OP_UNLOCK", o, n)'
                 /\ (Told(w, "OP_LOCK", o, n)' <=> Told(w, "OP_LOCK", o, n))
                 /\ <<o, n>> \notin held[w] /\ ~Cleared(w, o, n)
                 /\ \A p \in Worker, j \in Int : \A h :
                       (/\ About(h, "OP_LOCK", p, j) \/ About(h, "OP_UNLOCK", p, j)
                        /\ About(h, "OP_UNLOCK", p, j) => (p # o \/ j # n))
                       => (h \in Underway(w, master[p])' <=> h \in Underway(w, master[p]))
<1>1. /\ TypeInv /\ JobOK /\ Incoming(m, w, {"OP_UNLOCK"}) /\ Receive(m, w)
      /\ UNCHANGED <<pc, mode, held>>
  BY DEF UnlockHandler, PrInv, TypeInv, control
<1>2. /\ Msg(m, w) \in Underway(w, m) /\ Msg(m, w).op \in {"OP_UNLOCK"}
      /\ Underway(w, m)' = Underway(w, m) \ {Msg(m, w)}
      /\ \A v \in Worker, k \in Server : v # w \/ k # m => Underway(v, k)' = Underway(v, k)
  BY <1>1, UnderwayReceived
<1>3. Msg(m, w) \in Message /\ Sensible(Msg(m, w), m)
  BY <1>1, Receiving DEF TypeInv
<1>4. PICK o \in Worker, n \in Int : Msg(m, w).rank = o /\ Msg(m, w).id = n /\ master[o] = m
  BY <1>2, <1>3 DEF Sensible, Message
<1>5. Told(w, "OP_UNLOCK", o, n) /\ About(Msg(m, w), "OP_UNLOCK", o, n)
  BY <1>2, <1>4 DEF Told, About
<1>6. Owns(w, o, n) /\ Agreed(w, o, n)
  BY <1>5 DEF MutexInv, Owns
<1>7. n + 1 \in DOMAIN mutexes[o] /\ \A v \in Worker : Owns(v, o, n) => v = w
  BY <1>6 DEF MutexInv, Entered
<1>8. <<o, n>> \notin held[w] /\ ~Cleared(w, o, n)
  BY <1>5, <1>6 DEF Agreed
<1>9. ~Told(w, "OP_UNLOCK", o, n)'
  <2>1. \A h \in Underway(w, m) : About(h, "OP_UNLOCK", o, n) => h = Msg(m, w)
    BY <1>2, <1>4, <1>5, <1>6 DEF Agreed
  <2>2. master'[o] = m
    BY <1>4
  <2> QED
    BY <1>2, <2>1, <2>2 DEF Told
<1>10. Told(w, "OP_LOCK", o, n)' <=> Told(w, "OP_LOCK", o, n)
  BY <1>2, <1>4 DEF Told, About
<1>11. ASSUME NEW p \in Worker, NEW j \in Int, NEW h,
              About(h, "OP_LOCK", p, j) \/ About(h, "OP_UNLOCK", p, j),
              About(h, "OP_UNLOCK", p, j) => (p # o \/ j # n)
       PROVE  h \in Underway(w, master[p])' <=> h \in Underway(w, master[p])
  <2>1. h # Msg(m, w)
    BY <1>5, <1>11 DEF About
  <2>2. master[p] \in Server
    BY <1>1, Hosts
  <2> QED
    BY <1>2, <2>1, <2>2
<1>12. HeldTyped'
  BY <1>1, SameHosts DEF MutexInv, HeldTyped
<1>13. \A p \in Worker, j \in Int : master[p] = m => ~InLine(w, p, j)
  BY <1>2, NotInLine
<1> QED
  BY <1>1, <1>2, <1>4, <1>7, <1>8, <1>9, <1>10, <1>11, <1>12, <1>13

\* It gives the mutex to the first in the queue, if any.
LEMMA MutexesUnlocked ==
    ASSUME PrInv, MutexInv, NEW m \in Server, NEW w \in Worker, UnlockHandler(m, w),
           UNCHANGED <<job, master>>, ~failed
    PROVE  MutexInv'
<1>1. /\ UNCHANGED <<pc, mode, held>> /\ HeldTyped'
      /\ \A v \in Worker, k \in Server : v # w \/ k # m => Underway(v, k)' = Underway(v, k)
      /\ \A o \in Worker, n \in Int : master[o] = m => ~InLine(w, o, n)
  BY UnlockReceived
<1>2. PICK o0 \in Worker, n0 \in Int :
         /\ Msg(m, w).rank = o0 /\ Msg(m, w).id = n0 /\ master[o0] = m
         /\ n0 + 1 \in DOMAIN mutexes[o0] /\ \A v \in Worker : Owns(v, o0, n0) => v = w
         /\ ~Told(w, "OP_UNLOCK", o0, n0)'
         /\ (Told(w, "OP_LOCK", o0, n0)' <=> Told(w, "OP_LOCK", o0, n0))
         /\ <<o0, n0>> \notin held[w] /\ ~Cleared(w, o0, n0)
         /\ \A p \in Worker, j \in Int : \A h :
               (/\ About(h, "OP_LOCK", p, j) \/ About(h, "OP_UNLOCK", p, j)
                /\ About(h, "OP_UNLOCK", p, j) => (p # o0 \/ j # n0))
               => (h \in Underway(w, master[p])' <=> h \in Underway(w, master[p]))
  BY UnlockReceived
<1>3. /\ TypeInv /\ JobOK /\ QueuedOnce /\ Worker' = Worker /\ \A o \in Worker : master[o] \in Server
      /\ mutexes \in [Worker -> Seq(Int)] /\ lq \in [Worker -> Seq(Seq(Worker))]
      /\ n0 + 1 \in DOMAIN lq[o0] /\ lq[o0][n0 + 1] \in Seq(Worker)
  <2>1. /\ TypeInv /\ JobOK /\ QueuedOnce /\ Worker' = Worker
        /\ mutexes \in [Worker -> Seq(Int)] /\ lq \in [Worker -> Seq(Seq(Worker))]
        /\ \A o \in Worker : master[o] \in Server
    BY SameHosts, Hosts DEF PrInv, TypeInv, MutexesOK
  <2>2. lq[o0] \in Seq(Seq(Worker)) /\ mutexes[o0] \in Seq(Int) /\ Len(lq[o0]) = Len(mutexes[o0])
    BY <2>1 DEF TypeInv, MutexesOK
  <2>3. n0 + 1 \in DOMAIN lq[o0]
    BY <1>2, <2>2
  <2>4. lq[o0][n0 + 1] \in Seq(Worker)
    BY <2>2, <2>3, ElementOfSeq
  <2> QED
    BY <2>1, <2>3, <2>4
<1>4. \A v, o \in Worker, n \in Int : Awaits(v, o, n)' <=> Awaits(v, o, n)
  BY <1>1 DEF Awaits, Cur
<1>5. ASSUME NEW v \in Worker, NEW o \in Worker, NEW n \in Int,
             InLine(v, o, n)' <=> InLine(v, o, n), v # w \/ o # o0 \/ n # n0
      PROVE  Apart(v, o, n)
  <2>1. \A h : About(h, "OP_LOCK", o, n) \/ About(h, "OP_UNLOCK", o, n) =>
           (h \in Underway(v, master[o])' <=> h \in Underway(v, master[o]))
    <3>1. CASE v = w
      BY <1>2, <1>5, <3>1
    <3>2. CASE v # w
      BY <1>1, <1>3, <3>2
    <3> QED
      BY <3>1, <3>2
  <2> QED
    BY <1>1, <1>4, <1>5, <2>1 DEF Apart
\* what w has to do with the mutex
<1>6. ASSUME ~InLine(w, o0, n0)' PROVE Agreed(w, o0, n0)' /\ ~Owns(w, o0, n0)'
  <2>1. Agreed(w, o0, n0)
    BY DEF MutexInv
  <2>2. ~Cleared(w, o0, n0)'
    <3>1. ~InLine(w, o0, n0)
      BY <1>1, <1>2
    <3> QED
      BY <1>2, <1>4, <3>1 DEF Cleared
  <2>3. \A f, g \in Underway(w, master[o0])' :
           About(f, "OP_UNLOCK", o0, n0) /\ About(g, "OP_UNLOCK", o0, n0) => f = g
    BY <1>2 DEF Told
  <2> QED
    BY <1>1, <1>2, <1>4, <1>6, <2>1, <2>2, <2>3 DEF Agreed, Owns
<1>7. ASSUME NEW e, mutexes' = [mutexes EXCEPT ![o0][n0 + 1] = e]
      PROVE  \A p \in Worker : /\ DOMAIN mutexes'[p] = DOMAIN mutexes[p]
                               /\ \A j \in DOMAIN mutexes[p] :
                                     mutexes'[p][j] = IF p = o0 /\ j = n0 + 1 THEN e ELSE mutexes[p][j]
  <2>1. n0 + 1 \in Int
    OBVIOUS
  <2> QED
    BY <1>3, <1>7, <2>1, PlaceChanged
\* the other mutexes
<1>8. ASSUME NEW e, mutexes' = [mutexes EXCEPT ![o0][n0 + 1] = e],
             NEW o \in Worker, NEW n \in Int, ~(o = o0 /\ n = n0),
             \A v \in Worker : Owns(v, o, n)' => Owns(v, o, n), failed => failed'
      PROVE  \A v \in Worker : Entered(v, o, n)'
  <2>1. /\ n + 1 \in DOMAIN mutexes'[o] <=> n + 1 \in DOMAIN mutexes[o]
        /\ n + 1 \in DOMAIN mutexes[o] => mutexes'[o][n + 1] = mutexes[o][n + 1]
    BY <1>7, <1>8
  <2>2. \A v \in Worker : Entered(v, o, n)
    BY DEF MutexInv
  <2> QED
    BY <1>8, <2>1, <2>2, EnteredSame
<1>9. CASE mutexes' = [mutexes EXCEPT ![o0][n0 + 1] = UNLOCKED] /\ UNCHANGED lq
  <2>1. \A v, o \in Worker, n \in Int : InLine(v, o, n)' <=> InLine(v, o, n)
    BY <1>9 DEF InLine
  <2>2. \A v, o \in Worker, n \in Int : Agreed(v, o, n)' /\ (Owns(v, o, n)' => Owns(v, o, n))
    <3> TAKE v \in Worker, o \in Worker, n \in Int
    <3>1. CASE v # w \/ o # o0 \/ n # n0
      <4>1. Apart(v, o, n) /\ Agreed(v, o, n)
        BY <1>5, <2>1, <3>1 DEF MutexInv
      <4> QED
        BY <4>1, ApartTold, ApartAgreed
    <3>2. CASE v = w /\ o = o0 /\ n = n0
      BY <1>1, <1>2, <1>6, <2>1, <3>2
    <3> QED
      BY <3>1, <3>2
  <2>3. \A v \in Worker : ~Owns(v, o0, n0)'
    <3>1. ~Owns(w, o0, n0)'
      BY <1>1, <1>2, <1>6, <2>1
    <3> QED
      BY <1>2, <2>2, <3>1
  <2>4. ASSUME NEW o \in Worker, NEW n \in Int PROVE \A v \in Worker : Entered(v, o, n)'
    <3>1. CASE o = o0 /\ n = n0
      BY <1>3, <2>3, <3>1 DEF Entered
    <3>2. CASE ~(o = o0 /\ n = n0)
      BY <1>8, <1>9, <2>2, <3>2
    <3> QED
      BY <3>1, <3>2
  <2> QED
    BY <1>1, <1>3, <2>2, <2>4 DEF MutexInv
<1>10. ASSUME NEW u \in Worker, lq[o0][n0 + 1] # <<>>, u = Head(lq[o0][n0 + 1]),
              mutexes' = [mutexes EXCEPT ![o0][n0 + 1] = u],
              lq' = [lq EXCEPT ![o0][n0 + 1] = Tail(@)]
       PROVE  MutexInv'
  <2> DEFINE s == lq[o0][n0 + 1]
  <2>1. \A p \in Worker : /\ DOMAIN lq'[p] = DOMAIN lq[p]
                          /\ \A j \in DOMAIN lq[p] :
                                lq'[p][j] = IF p = o0 /\ j = n0 + 1 THEN Tail(s) ELSE lq[p][j]
    <3>1. n0 + 1 \in Int /\ lq' = [lq EXCEPT ![o0][n0 + 1] = Tail(s)]
      BY <1>3, <1>10
    <3> QED
      BY <1>3, <3>1, PlaceChanged
  <2>2. /\ u = s[1] /\ 1 \in DOMAIN s
        /\ \A i \in DOMAIN Tail(s) : i + 1 \in DOMAIN s /\ Tail(s)[i] = s[i + 1] /\ i + 1 # 1
        /\ \A i \in DOMAIN s : i # 1 => i - 1 \in DOMAIN Tail(s) /\ Tail(s)[i - 1] = s[i]
    <3>1. s \in Seq(Worker) /\ s # <<>> /\ u = Head(s)
      BY <1>3, <1>10
    <3> HIDE DEF s
    <3>2. /\ u = s[1] /\ 1 \in DOMAIN s /\ Tail(s) \in Seq(Worker)
          /\ \A i \in DOMAIN Tail(s) : i + 1 \in DOMAIN s /\ Tail(s)[i] = s[i + 1]
          /\ \A i \in DOMAIN s : i # 1 => i - 1 \in DOMAIN Tail(s) /\ Tail(s)[i - 1] = s[i]
      BY <3>1, TailFacts
    <3>3. \A i \in DOMAIN Tail(s) : i + 1 # 1
      BY <3>2
    <3> QED
      BY <3>2, <3>3
  <2>3. \A i, k \in DOMAIN s : s[i] = s[k] => i = k
    BY <1>3 DEF QueuedOnce
  <2>4. InLine(u, o0, n0)
    BY <1>3, <2>2 DEF InLine
  <2>5. \A v, o \in Worker, n \in Int :
           InLine(v, o, n)' <=> InLine(v, o, n) /\ ~(v = u /\ o = o0 /\ n = n0)
    <3> TAKE v \in Worker, o \in Worker, n \in Int
    <3>1. CASE o = o0 /\ n = n0
      <4>1. lq'[o][n + 1] = Tail(s) /\ lq[o][n + 1] = s /\ n + 1 \in DOMAIN lq'[o] /\ n + 1 \in DOMAIN lq[o]
        BY <1>3, <2>1, <3>1
      <4> HIDE DEF s
      <4>2. ASSUME NEW k \in DOMAIN Tail(s), Tail(s)[k] = v
            PROVE  v # u /\ \E i \in DOMAIN s : s[i] = v
        <5>1. k + 1 \in DOMAIN s /\ s[k + 1] = v /\ k + 1 # 1
          BY <2>2, <4>2
        <5> QED
          BY <2>2, <2>3, <5>1
      <4>3. ASSUME NEW k \in DOMAIN s, s[k] = v, v # u
            PROVE  \E i \in DOMAIN Tail(s) : Tail(s)[i] = v
        <5>1. k # 1
          BY <2>2, <4>3
        <5> QED
          BY <2>2, <4>3, <5>1
      <4> QED
        BY <3>1, <4>1, <4>2, <4>3 DEF InLine
    <3>2. CASE ~(o = o0 /\ n = n0)
      <4>1. /\ n + 1 \in DOMAIN lq'[o] <=> n + 1 \in DOMAIN lq[o]
            /\ n + 1 \in DOMAIN lq[o] => lq'[o][n + 1] = lq[o][n + 1]
        BY <2>1, <3>2
      <4> QED
        BY <3>2, <4>1 DEF InLine
    <3> QED
      BY <3>1, <3>2
  <2> HIDE DEF s
  <2>6. u # w
    BY <1>1, <1>2, <2>4
  \* who waits has sent nothing since
  <2>7. Underway(u, m)' = {} /\ Agreed(u, o0, n0)
    <3>1. Queued(u, m)
      BY <1>2, <2>4 DEF InLine, Queued
    <3>2. Underway(u, m) = {}
      BY <3>1, UnderwayFacts
    <3> QED
      BY <1>1, <2>6, <3>2 DEF MutexInv
  <2>8. Agreed(u, o0, n0)' /\ ~Told(u, "OP_UNLOCK", o0, n0)'
    <3>1. ~Told(u, "OP_LOCK", o0, n0)' /\ ~Told(u, "OP_UNLOCK", o0, n0)'
      BY <1>2, <2>7 DEF Told
    <3>2. Underway(u, master[o0])' = {}
      BY <1>2, <2>7
    <3>3. ~InLine(u, o0, n0)'
      BY <2>5
    <3> QED
      BY <3>1, <3>2, <3>3 DEF Agreed
  <2>9. \A v, o \in Worker, n \in Int :
           /\ Agreed(v, o, n)'
           /\ Owns(v, o, n)' => Owns(v, o, n) \/ (v = u /\ o = o0 /\ n = n0)
    <3> TAKE v \in Worker, o \in Worker, n \in Int
    <3>1. CASE ~(o = o0 /\ n = n0 /\ v \in {u, w})
      <4>1. Apart(v, o, n) /\ Agreed(v, o, n)
        BY <1>5, <2>5, <3>1 DEF MutexInv
      <4> QED
        BY <4>1, ApartTold, ApartAgreed
    <3>2. CASE v = w /\ o = o0 /\ n = n0
      <4>1. ~InLine(w, o0, n0)'
        BY <1>1, <1>2, <2>5
      <4> QED
        BY <1>6, <3>2, <4>1
    <3>3. CASE v = u /\ o = o0 /\ n = n0
      BY <2>8, <3>3
    <3> QED
      BY <3>1, <3>2, <3>3
  <2>10. \A v \in Worker : Owns(v, o0, n0)' => v = u
    <3>1. ~Owns(w, o0, n0)'
      BY <1>1, <1>2, <1>6, <2>5
    <3> QED
      BY <1>2, <2>9, <3>1
  <2>11. failed => failed'
    OBVIOUS
  <2>12. ASSUME NEW o \in Worker, NEW n \in Int PROVE \A v \in Worker : Entered(v, o, n)'
    <3>1. CASE o = o0 /\ n = n0
      <4>1. \A p \in Worker : /\ DOMAIN mutexes'[p] = DOMAIN mutexes[p]
                              /\ \A j \in DOMAIN mutexes[p] :
                                    mutexes'[p][j] = IF p = o0 /\ j = n0 + 1 THEN u ELSE mutexes[p][j]
        <5>1. mutexes' = [mutexes EXCEPT ![o0][n0 + 1] = u]
          BY <1>10
        <5> QED
          BY <1>7, <5>1
      <4>2. n0 + 1 \in DOMAIN mutexes'[o0] /\ mutexes'[o0][n0 + 1] = u
        BY <1>2, <4>1
      <4> QED
        BY <1>3, <2>10, <3>1, <4>2 DEF Entered
    <3>2. CASE ~(o = o0 /\ n = n0)
      <4>1. \A v \in Worker : Owns(v, o, n)' => Owns(v, o, n)
        BY <2>9, <3>2
      <4> QED
        BY <1>8, <1>10, <2>11, <3>2, <4>1
    <3> QED
      BY <3>1, <3>2
  <2> QED
    BY <1>1, <1>3, <2>9, <2>12 DEF MutexInv
<1>11. \/ /\ lq[o0][n0 + 1] # <<>>
          /\ mutexes' = [mutexes EXCEPT ![o0][n0 + 1] = Head(lq[o0][n0 + 1])]
          /\ lq' = [lq EXCEPT ![o0][n0 + 1] = Tail(@)]
       \/ mutexes' = [mutexes EXCEPT ![o0][n0 + 1] = UNLOCKED] /\ UNCHANGED lq
  BY <1>2 DEF UnlockHandler
<1>12. lq[o0][n0 + 1] # <<>> => Head(lq[o0][n0 + 1]) \in Worker
  BY <1>3
<1> QED
  BY <1>9, <1>10, <1>11, <1>12

\* Nothing happens to mutexes.
LEMMA MutexesStill ==
    ASSUME PrInv, MutexInv, UNCHANGED <<job, master, control, chan, held, mutexes, lq>>, failed => failed'
    PROVE  MutexInv'
<1>1. TypeInv /\ JobOK
  BY DEF PrInv, TypeInv
<1>2. \A v \in Worker, m \in Server : Underway(v, m)' = Underway(v, m)
  BY SameUnderway
<1>3. ASSUME NEW w \in Worker PROVE \A o \in Worker, n \in Int : Apart(w, o, n)
  BY <1>1, <1>2, QuietApart DEF control
<1>4. HeldTyped'
  BY SameHosts DEF MutexInv, HeldTyped
<1> QED
  BY <1>3, <1>4, MutexesApart

LEMMA MutexesByWorker ==
    ASSUME PrInv, MutexInv, Disciplined, NEW w \in Worker, WorkerStep(w), UNCHANGED <<job, master>>,
           ~failed
    PROVE  MutexInv'
BY MutexesElsewhere, MutexesAsked, MutexesTold, MutexesReturned

LEMMA MutexesByServer ==
    ASSUME PrInv, MutexInv, Disciplined, NEW m \in Server, ServerStep(m), UNCHANGED <<job, master>>,
           ~failed
    PROVE  MutexInv'
<1>1. ASSUME NEW w \in Worker, NEW ops, Incoming(m, w, ops), Receive(m, w),
             UNCHANGED <<control, held, mutexes, lq>>,
             "OP_LOCK" \notin ops, "OP_UNLOCK" \notin ops
      PROVE  MutexInv'
  BY <1>1, MutexesServed
<1>2. ASSUME NEW w \in Worker, PutHandler(m, w) PROVE MutexInv'
  <2>1. /\ Incoming(m, w, {"OP_PUT"}) /\ Receive(m, w) /\ UNCHANGED <<control, held, mutexes, lq>>
        /\ "OP_LOCK" \notin {"OP_PUT"} /\ "OP_UNLOCK" \notin {"OP_PUT"}
    BY <1>2 DEF PutHandler, locks
  <2> QED
    BY <1>1, <2>1
<1>3. ASSUME NEW w \in Worker, GetHandler(m, w) PROVE MutexInv'
  <2>1. /\ Incoming(m, w, {"OP_GET"}) /\ Receive(m, w) /\ UNCHANGED <<control, held, mutexes, lq>>
        /\ "OP_LOCK" \notin {"OP_GET"} /\ "OP_UNLOCK" \notin {"OP_GET"}
    BY <1>3 DEF GetHandler, locks
  <2> QED
    BY <1>1, <2>1
<1>4. ASSUME NEW w \in Worker, AccHandler(m, w) PROVE MutexInv'
  <2>1. /\ Incoming(m, w, {"OP_ACC"}) /\ Receive(m, w) /\ UNCHANGED <<control, held, mutexes, lq>>
        /\ "OP_LOCK" \notin {"OP_ACC"} /\ "OP_UNLOCK" \notin {"OP_ACC"}
    BY <1>4 DEF AccHandler, locks
  <2> QED
    BY <1>1, <2>1
<1>5. ASSUME NEW w \in Worker, RmwHandler(m, w) PROVE MutexInv'
  <2> DEFINE ops == {"OP_FETCH_AND_ADD", "OP_SWAP"}
  <2>1. /\ Incoming(m, w, ops) /\ Receive(m, w) /\ UNCHANGED <<control, held, mutexes, lq>>
        /\ "OP_LOCK" \notin ops /\ "OP_UNLOCK" \notin ops
    BY <1>5 DEF RmwHandler, locks
  <2> HIDE DEF ops
  <2> QED
    BY <1>1, <2>1
<1>6. ASSUME NEW w \in Worker, FenceHandler(m, w) PROVE MutexInv'
  <2>1. /\ Incoming(m, w, {"OP_FENCE"}) /\ Receive(m, w) /\ UNCHANGED <<control, held, mutexes, lq>>
        /\ "OP_LOCK" \notin {"OP_FENCE"} /\ "OP_UNLOCK" \notin {"OP_FENCE"}
    BY <1>6 DEF FenceHandler, locks
  <2> QED
    BY <1>1, <2>1
<1>7. ASSUME NEW w \in Worker, MallocHandler(m, w) PROVE MutexInv'
  <2>1. /\ Incoming(m, w, {"OP_MALLOC"}) /\ Receive(m, w) /\ UNCHANGED <<control, held, mutexes, lq>>
        /\ "OP_LOCK" \notin {"OP_MALLOC"} /\ "OP_UNLOCK" \notin {"OP_MALLOC"}
    BY <1>7 DEF MallocHandler, locks
  <2> QED
    BY <1>1, <2>1
<1>8. ASSUME NEW w \in Worker, FreeHandler(m, w) PROVE MutexInv'
  <2>1. /\ Incoming(m, w, {"OP_FREE"}) /\ Receive(m, w) /\ UNCHANGED <<control, held, mutexes, lq>>
        /\ "OP_LOCK" \notin {"OP_FREE"} /\ "OP_UNLOCK" \notin {"OP_FREE"}
    BY <1>8 DEF FreeHandler, locks
  <2> QED
    BY <1>1, <2>1
<1>9. ASSUME NEW w \in Worker, Quit(m, w) PROVE MutexInv'
  <2>1. /\ Incoming(m, w, {"OP_QUIT"}) /\ Receive(m, w) /\ UNCHANGED <<control, held, mutexes, lq>>
        /\ "OP_LOCK" \notin {"OP_QUIT"} /\ "OP_UNLOCK" \notin {"OP_QUIT"}
    BY <1>9 DEF Quit, locks
  <2> QED
    BY <1>1, <2>1
<1>10. CASE AccApply(m) \/ RmwApply(m)
  <2>1. UNCHANGED <<control, chan, held, mutexes, lq>>
    BY <1>10 DEF AccApply, RmwApply, locks
  <2> QED
    BY <2>1, MutexesStill
<1>11. ASSUME NEW w \in Worker, MutexCreateHandler(m, w) \/ MutexDestroyHandler(m, w) PROVE MutexInv'
  BY <1>11, MutexesTabled
<1>12. ASSUME NEW w \in Worker, LockHandler(m, w) PROVE MutexInv'
  BY <1>12, MutexesLocked
<1>13. ASSUME NEW w \in Worker, UnlockHandler(m, w) PROVE MutexInv'
  BY <1>13, MutexesUnlocked
<1> QED
  BY <1>2, <1>3, <1>4, <1>5, <1>6, <1>7, <1>8, <1>9, <1>10, <1>11, <1>12, <1>13 DEF ServerStep

LEMMA MutexStep ==
    ASSUME PrInv, MutexInv, Disciplined, [Next]_vars
    PROVE  MutexInv'
<1>1. TypeInv /\ UNCHANGED <<job, master>>
  BY Steps DEF PrInv
<1>2. CASE UNCHANGED vars
  BY <1>1, <1>2, MutexesStill DEF vars, locks
<1>3. CASE Next /\ ~UNCHANGED vars
  BY <1>1, <1>3, MutexesByWorker, MutexesByServer, MutexesTogether DEF Next
<1> QED
  BY <1>2, <1>3

LEMMA MutexInit ==
    ASSUME Init
    PROVE  MutexInv
<1>1. /\ PrInv /\ TypeInv /\ JobOK /\ \A o \in Worker : master[o] \in Server
  BY PrInit, Hosts DEF PrInv, TypeInv
<1>2. \A i : i \notin DOMAIN <<>>
  OBVIOUS
<1>3. \A w \in Worker, m \in Server : Underway(w, m) = {}
  BY <1>2 DEF Init, Underway
<1>4. \A w \in Worker : mode[w] = "run" /\ held[w] = {} /\ lq[w] = <<>> /\ mutexes[w] = <<>>
  BY DEF Init
<1>5. HeldTyped
  BY DEF Init, HeldTyped
<1>6. ASSUME NEW w \in Worker, NEW o \in Worker, NEW n \in Int
      PROVE  Agreed(w, o, n) /\ ~Owns(w, o, n)
  <2>1. Underway(w, master[o]) = {} /\ ~Told(w, "OP_LOCK", o, n) /\ ~Told(w, "OP_UNLOCK", o, n)
    BY <1>1, <1>3 DEF Told
  <2>2. ~InLine(w, o, n) /\ ~Awaits(w, o, n)
    BY <1>2, <1>4 DEF InLine, Awaits
  <2> QED
    BY <1>4, <2>1, <2>2 DEF Agreed, Owns, Cleared
<1> QED
  BY <1>5, <1>6 DEF MutexInv, Entered

\* comex_lock and comex_unlock: a mutex is never held by two workers, and its
\* master has the holder in the table, whatever requests and grants are under
\* way, if programs unlock what they hold and no table is made or destroyed
\* while one of its mutexes is taken.
THEOREM MutexesHeldOnce == Spec /\ []Disciplined => []MutexHeldOnce
<1>1. Init => PrInv /\ MutexInv
  BY PrInit, MutexInit
<1>2. PrInv /\ MutexInv /\ Disciplined /\ [Next]_vars => PrInv' /\ MutexInv'
  BY PrStep, MutexStep
<1>3. MutexInv => MutexHeldOnce
  <2> SUFFICES ASSUME MutexInv, NEW w \in Worker, NEW x \in held[w]
               PROVE  /\ \A v \in Worker \ {w} : x \notin held[v]
                      /\ x[2] + 1 \in DOMAIN mutexes[x[1]] => mutexes[x[1]][x[2] + 1] = w
    BY DEF MutexHeldOnce
  <2>1. PICK o \in Worker, n \in Int : x = <<o, n>>
    BY DEF MutexInv, HeldTyped
  <2>2. Entered(w, o, n) /\ \A v \in Worker : x \in held[v] => Owns(v, o, n)
    BY <2>1 DEF MutexInv, Owns
  <2> QED
    BY <2>1, <2>2 DEF Entered
<1> QED
  BY <1>1, <1>2, <1>3, PTL DEF Spec

-----------------------------------------------------------------------------
(* The end *)

\* w has come as far as the part k of comex_finalize.
Past(w, k) ==
    IF Active(w) THEN Cur(w).op = "finalize" /\ stage[w] >= k
    ELSE \E i \in DOMAIN job.calls[w] : job.calls[w][i].op = "finalize"

\* It has told its master to quit, if that was for it to do.
Quitted(w) == Past(w, 7) \/ (Past(w, 6) /\ mode[w] = "wait")

Stops(h) == h.op = "OP_QUIT"

EndInv ==
    /\ \A w, v \in Worker : (Past(w, 3) => Past(v, 3)) /\ (Past(w, 6) => Past(v, 6))
    /\ \A w \in Worker :
          Active(w) /\ Cur(w).op = "finalize" /\ mode[w] = "wait" => stage[w] \in {1, 6}
    /\ \A w \in Worker, m \in Server :
          /\ Past(w, 2) => ~fence[w][m]
          /\ Past(w, 4) => posted[w][m] = <<>>
          /\ \A h \in Underway(w, m) : Stops(h) =>
                m = master[w] /\ Smallest(w) /\ Quitted(w) /\ running[m]
          /\ \A h, g \in Underway(w, m) : Stops(h) /\ Stops(g) => h = g
    /\ \A m \in Server : ~running[m] =>
          \E w \in Worker : m = master[w] /\ Smallest(w) /\ Quitted(w)

LEMMA Housed ==
    ASSUME JobOK
    PROVE  \A r \in Ranks : job.hostid[master[r]] = job.hostid[r]
<1> DEFINE Host(r) == {q \in DOMAIN job.hostid : job.hostid[q] = job.hostid[r]}
<1>1. job \in Jobs /\ Ranks \subseteq Rank /\ Rank \subseteq Nat /\ IsFiniteSet(Rank)
  BY RankAssumption, JobAssumption DEF JobOK, Ranks
<1> TAKE r \in Ranks
<1>2. master[r] = Max(Host(r))
  BY DEF JobOK, MasterOf
<1>3. Host(r) \in SUBSET Int /\ IsFiniteSet(Host(r)) /\ Host(r) # {}
  <2>1. Host(r) \subseteq Ranks /\ r \in Host(r)
    BY DEF Ranks
  <2> HIDE DEF Host
  <2>2. Host(r) \subseteq Rank /\ Host(r) \in SUBSET Int
    <3>1. Ranks \in SUBSET Int
      BY <1>1
    <3> QED
      BY <1>1, <2>1, <3>1
  <2>3. IsFiniteSet(Host(r))
    BY <1>1, <2>2, FS_Subset
  <2> QED
    BY <2>1, <2>2, <2>3
<1>4. Max(Host(r)) \in Host(r)
  <2> HIDE DEF Host
  <2> QED
    BY <1>3, LargestOf
<1> QED
  BY <1>2, <1>4

LEMMA OneSmallest ==
    ASSUME JobOK, NEW v \in Worker, NEW w \in Worker, Smallest(v), Smallest(w), master[v] = master[w]
    PROVE  v = w
<1>1. v \in Ranks /\ w \in Ranks /\ v \in Nat /\ w \in Nat
  BY Hosts
<1>2. SameHost(v, w) /\ SameHost(w, v)
  BY <1>1, Housed DEF SameHost
<1>3. v <= w /\ w <= v
  BY <1>2 DEF Smallest
<1> QED
  BY <1>1, <1>3

LEMMA FinalStages ==
    /\ Len(Stages("finalize")) = 7
    /\ Stages("finalize")[1] = "fence" /\ Stages("finalize")[2] = "sync"
    /\ Stages("finalize")[3] = "wait_all" /\ Stages("finalize")[4] = "fence"
    /\ Stages("finalize")[5] = "sync" /\ Stages("finalize")[6] = "quit"
    /\ Stages("finalize")[7] = "leave"
BY DEF Stages

\* Only the end of the programs stops a server.
LEMMA OnlyFinalize ==
    ASSUME JobOK, ControlOK, NEW w \in Worker, Active(w), Stage(w) = "quit"
    PROVE  Cur(w).op = "finalize"
<1>1. Cur(w).op \in {"put", "acc", "get", "fadd", "swap", "wait", "test", "wait_all",
               "fence", "fence_proc", "barrier", "malloc", "free", "create",
               "destroy", "lock", "unlock", "finalize"} /\ stage[w] \in 1 .. Len(Stages(Cur(w).op))
  BY CallFacts DEF Call
<1> QED
  BY <1>1 DEF Stage, Stages

LEMMA PastMore ==
    ASSUME JobOK, ControlOK, NEW w \in Worker, NEW i \in 1 .. 7, NEW k \in 1 .. 7, i <= k, Past(w, k)
    PROVE  Past(w, i)
<1>1. Active(w) => stage[w] \in Nat
  BY CallFacts
<1> QED
  BY <1>1 DEF Past

LEMMA PastSame ==
    ASSUME UNCHANGED <<job, master>>, NEW w \in Worker, pc'[w] = pc[w], stage'[w] = stage[w]
    PROVE  /\ \A k : Past(w, k)' <=> Past(w, k)
           /\ Active(w)' <=> Active(w)
           /\ Active(w) => Cur(w)' = Cur(w) /\ Stage(w)' = Stage(w)
BY DEF Past, Active, Cur, Stage

LEMMA PastNext ==
    ASSUME JobOK, ControlOK, FinalizedTogether, UNCHANGED <<job, master>>,
           NEW ws \in SUBSET Worker, Advance(ws), NEW w \in ws, Active(w)
    PROVE  \A k \in 2 .. 7 : Past(w, k)' <=> (Cur(w).op = "finalize" /\ stage[w] + 1 >= k)
<1> TAKE k \in 2 .. 7
<1>1. /\ pc \in [Worker -> Nat \ {0}] /\ stage \in [Worker -> Nat \ {0}]
      /\ pc[w] \in DOMAIN job.calls[w] /\ stage[w] \in 1 .. Len(Stages(Cur(w).op))
      /\ Len(Stages(Cur(w).op)) \in 1 .. 7 /\ job.calls[w] \in Seq(Call)
  BY CallFacts, Hosts DEF ControlOK
<1>2. \A i \in DOMAIN job.calls[w] : job.calls[w][i].op = "finalize" => i = Len(job.calls[w])
  BY DEF FinalizedTogether
<1>3. CASE stage[w] = Len(Stages(Cur(w).op))
  <2>1. pc'[w] = pc[w] + 1 /\ stage'[w] = 1
    BY <1>1, <1>3 DEF Advance
  <2>2. CASE Cur(w).op = "finalize"
    <3>1. pc[w] = Len(job.calls[w]) /\ stage[w] = 7
      BY <1>1, <1>2, <1>3, <2>2, FinalStages DEF Cur
    <3>2. ~Active(w)'
      BY <1>1, <2>1, <3>1 DEF Active
    <3> QED
      BY <1>1, <2>2, <3>1, <3>2 DEF Past, Cur
  <2>3. CASE Cur(w).op # "finalize"
    <3>1. Active(w)' => ~(stage'[w] >= k)
      BY <2>1
    <3>2. ASSUME ~Active(w)', NEW i \in DOMAIN job.calls[w], job.calls[w][i].op = "finalize" PROVE FALSE
      <4>1. pc[w] = Len(job.calls[w])
        BY <1>1, <2>1, <3>2 DEF Active
      <4> QED
        BY <1>2, <2>3, <3>2, <4>1 DEF Cur
    <3> QED
      BY <2>3, <3>1, <3>2 DEF Past
  <2> QED
    BY <2>2, <2>3
<1>4. CASE stage[w] # Len(Stages(Cur(w).op))
  <2>1. pc'[w] = pc[w] /\ stage'[w] = stage[w] + 1
    BY <1>1, <1>4 DEF Advance
  <2> QED
    BY <2>1 DEF Past, Active, Cur
<1> QED
  BY <1>3, <1>4

\* Nobody falls back, and who is behind comes to the next part.
LEMMA PastMonotone ==
    ASSUME JobOK, ControlOK, FinalizedTogether, UNCHANGED <<job, master>>,
           NEW ws \in SUBSET Worker, Advance(ws), \A w \in ws : Active(w), NEW w \in Worker,
           NEW k \in 2 .. 7
    PROVE  /\ Past(w, k) => Past(w, k)'
           /\ Past(w, k)' /\ ~Past(w, k) => w \in ws /\ Cur(w).op = "finalize" /\ stage[w] = k - 1
<1>1. CASE w \in ws
  <2>1. stage[w] \in Nat /\ Active(w)
    BY <1>1, CallFacts
  <2>2. Past(w, k)' <=> (Cur(w).op = "finalize" /\ stage[w] + 1 >= k)
    BY <1>1, <2>1, PastNext
  <2>3. Past(w, k) <=> (Cur(w).op = "finalize" /\ stage[w] >= k)
    BY <2>1 DEF Past
  <2> QED
    BY <1>1, <2>1, <2>2, <2>3
<1>2. CASE w \notin ws
  <2>1. pc'[w] = pc[w] /\ stage'[w] = stage[w]
    BY <1>2 DEF Advance, ControlOK
  <2> QED
    BY <2>1, PastSame
<1> QED
  BY <1>1, <1>2

LEMMA QuittedMonotone ==
    ASSUME JobOK, ControlOK, FinalizedTogether, UNCHANGED <<job, master>>,
           NEW ws \in SUBSET Worker, Advance(ws), \A w \in ws : Active(w), NEW w \in Worker,
           Quitted(w)
    PROVE  Quitted(w)'
<1>1. CASE Past(w, 7)
  BY <1>1, PastMonotone DEF Quitted
<1>2. CASE Past(w, 6) /\ ~Past(w, 7) /\ mode[w] = "wait" /\ w \in ws
  <2>1. stage[w] \in Nat /\ Active(w)
    BY <1>2, CallFacts
  <2>2. Cur(w).op = "finalize" /\ stage[w] >= 6
    BY <1>2, <2>1 DEF Past
  <2>3. Past(w, 7)'
    BY <1>2, <2>1, <2>2, PastNext
  <2> QED
    BY <2>3 DEF Quitted
<1>3. CASE Past(w, 6) /\ mode[w] = "wait" /\ w \notin ws
  <2>1. mode'[w] = mode[w]
    BY <1>3 DEF Advance
  <2> QED
    BY <1>3, <2>1, PastMonotone DEF Quitted
<1> QED
  BY <1>1, <1>2, <1>3 DEF Quitted

\* Workers that met go on together.
LEMMA EndsMet ==
    ASSUME PrInv, EndInv, FinalizedTogether, UNCHANGED <<job, master>>,
           NEW ws \in SUBSET Worker, GroupStep(ws) \/ (Leave /\ ws = Worker)
    PROVE  EndInv'
<1>1. /\ TypeInv /\ JobOK /\ ControlOK /\ Worker' = Worker /\ Server' = Server
      /\ Advance(ws) /\ UNCHANGED <<chan, posted, fence, running>>
  BY SameHosts DEF PrInv, TypeInv, GroupStep, Sync, GatherMalloc, GatherFree, GatherCreate, Leave,
     data, servers
<1>2. /\ \A w \in ws : Active(w) /\ mode[w] = "run" /\ Stage(w) \in {"sync", "gather", "leave"}
      /\ \A w \in ws : Stage(w) = "sync" => Met(ws, "sync")
  BY DEF GroupStep, Sync, GatherMalloc, GatherFree, GatherCreate, Leave, Met, At
<1>3. ASSUME NEW w \in Worker, NEW k \in 2 .. 7, Past(w, k)', ~Past(w, k)
      PROVE  w \in ws /\ Cur(w).op = "finalize" /\ stage[w] = k - 1 /\ k \in {3, 6, 7}
  <2>1. w \in ws /\ Cur(w).op = "finalize" /\ stage[w] = k - 1
    BY <1>1, <1>2, <1>3, PastMonotone
  <2>2. Stages("finalize")[k - 1] \in {"sync", "leave"}
    BY <1>2, <2>1, FinalStages DEF Stage
  <2> QED
    BY <2>1, <2>2, FinalStages
<1>4. \A w \in Worker, k \in 2 .. 7 : Past(w, k) => Past(w, k)'
  BY <1>1, <1>2, PastMonotone
\* If they meet in finalize, then all are there.
<1>5. ASSUME NEW w \in ws, Cur(w).op = "finalize", Stage(w) = "sync"
      PROVE  ws = Worker /\ \A v \in Worker : Cur(v).op = "finalize" /\ stage[v] \in {2, 5}
  <2>1. Met(ws, "sync") /\ Group(w) = ws
    BY <1>2, <1>5 DEF Met
  <2>2. ws = Worker /\ Met(Worker, "sync")
    BY <1>5, <2>1 DEF Group
  <2>3. \A v \in Worker : Cur(v).op = "finalize" /\ At(v, "sync")
    BY <1>5, <2>2 DEF FinalizedTogether, Met
  <2>4. \A v \in Worker : stage[v] \in 1 .. 7 /\ Stages("finalize")[stage[v]] = "sync"
    BY <1>1, <2>3, CallFacts, FinalStages DEF At, Stage
  <2> QED
    BY <2>2, <2>3, <2>4, FinalStages
<1>6. \A w, v \in Worker : Past(w, 3)' => Past(v, 3)'
  <2> SUFFICES ASSUME NEW w \in Worker, NEW v \in Worker, Past(w, 3)' PROVE Past(v, 3)'
    OBVIOUS
  <2>1. CASE Past(w, 3)
    BY <1>4, <2>1 DEF EndInv
  <2>2. CASE ~Past(w, 3)
    <3>1. w \in ws /\ Cur(w).op = "finalize" /\ stage[w] = 2
      BY <1>3, <2>2
    <3>2. ws = Worker /\ Cur(v).op = "finalize" /\ stage[v] \in {2, 5}
      BY <1>5, <3>1, FinalStages DEF Stage
    <3> QED
      BY <1>1, <1>2, <3>2, PastNext
  <2> QED
    BY <2>1, <2>2
<1>7. \A w, v \in Worker : Past(w, 6)' => Past(v, 6)'
  <2> SUFFICES ASSUME NEW w \in Worker, NEW v \in Worker, Past(w, 6)' PROVE Past(v, 6)'
    OBVIOUS
  <2>1. CASE Past(w, 6)
    BY <1>4, <2>1 DEF EndInv
  <2>2. CASE ~Past(w, 6)
    <3>1. w \in ws /\ Cur(w).op = "finalize" /\ stage[w] = 5 /\ Active(w)
      BY <1>2, <1>3, <2>2
    <3>2. ws = Worker /\ Cur(v).op = "finalize" /\ stage[v] \in {2, 5} /\ Active(v)
      BY <1>2, <1>5, <3>1, FinalStages DEF Stage
    <3>3. Past(w, 3)
      BY <3>1 DEF Past
    <3>4. Past(v, 3)
      BY <3>3 DEF EndInv
    <3>5. stage[v] = 5
      BY <3>2, <3>4 DEF Past
    <3> QED
      BY <1>1, <1>2, <3>2, <3>5, PastNext
  <2> QED
    BY <2>1, <2>2
<1>8. \A w \in Worker : Active(w)' /\ Cur(w)'.op = "finalize" /\ mode'[w] = "wait" => stage'[w] \in {1, 6}
  <2> TAKE w \in Worker
  <2>1. CASE w \in ws
    BY <2>1, <1>1 DEF Advance
  <2>2. CASE w \notin ws
    <3>1. pc'[w] = pc[w] /\ stage'[w] = stage[w] /\ mode'[w] = mode[w]
      BY <1>1, <2>2 DEF Advance, ControlOK
    <3> QED
      BY <3>1, PastSame DEF EndInv
  <2> QED
    BY <2>1, <2>2
<1>9. \A w \in Worker, m \in Server : Underway(w, m)' = Underway(w, m)
  BY <1>1, SameUnderway
<1>10. \A w \in Worker : Quitted(w) => Quitted(w)'
  BY <1>1, <1>2, QuittedMonotone
<1>11. \A w \in Worker : (Past(w, 2)' => Past(w, 2)) /\ (Past(w, 4)' => Past(w, 4))
  BY <1>3
<1>12. \A w \in Worker : Smallest(w)' = Smallest(w)
  BY <1>1 DEF Smallest, SameHost
<1> QED
  BY <1>1, <1>6, <1>7, <1>8, <1>9, <1>10, <1>11, <1>12 DEF EndInv

\* Only comex_finalize comes to these parts.
LEMMA InFinalize ==
    ASSUME PrInv, NEW w \in Worker, WorkerStep(w), Active(w), Cur(w).op = "finalize"
    PROVE  Return(w) \/ Fence(w) \/ WaitAll(w) \/ SendQuit(w) \/ Exhausted(w)
<1>1. /\ mode[w] # "acc" /\ stage[w] \in 1 .. 7
      /\ Stage(w) \in {"fence", "sync", "wait_all", "quit", "leave"}
  <2>1. mode[w] # "acc" /\ stage[w] \in 1 .. 7
    BY CallFacts, FinalStages DEF PrInv, TypeInv, ControlOK
  <2> QED
    BY <2>1, FinalStages DEF Stage
<1>2. ~ (DirectPut(w) \/ DirectGet(w) \/ DirectAcc(w) \/ DirectAccApply(w))
  BY <1>1 DEF DirectPut, DirectGet, DirectAcc, DirectAccApply, Calling
<1>3. ~ (RemoteWrite(w) \/ RemoteGet(w) \/ Rmw(w) \/ Wait(w) \/ Test(w) \/ FenceProc(w))
  BY <1>1 DEF RemoteWrite, RemoteGet, Rmw, Wait, Test, FenceProc, Calling, At
<1>4. ~ (Notify(w) \/ Release(w) \/ Create(w) \/ Destroy(w))
  BY <1>1 DEF Notify, Release, Create, Destroy, At
<1>5. ~ (Lock(w) \/ Unlock(w))
  BY DEF Lock, Unlock, Calling
<1> QED
  BY <1>2, <1>3, <1>4, <1>5 DEF WorkerStep

LEMMA OnlyActive ==
    ASSUME PrInv, NEW w \in Worker, WorkerStep(w)
    PROVE  Active(w)
<1>1. mode[w] # "run" => Active(w)
  BY DEF PrInv, TypeInv, ControlOK
<1>2. CASE DirectPut(w) \/ DirectGet(w) \/ DirectAcc(w) \/ DirectAccApply(w) \/ RemoteWrite(w)
           \/ RemoteGet(w) \/ Rmw(w) \/ Return(w)
  BY <1>1, <1>2 DEF DirectPut, DirectGet, DirectAcc, DirectAccApply, RemoteWrite, RemoteGet, Rmw,
                    Return, Calling, At
<1>3. CASE Wait(w) \/ Test(w) \/ WaitAll(w) \/ FenceProc(w) \/ Fence(w)
  BY <1>3 DEF Wait, Test, WaitAll, FenceProc, Complete, Fence, Calling, At
<1>4. CASE Notify(w) \/ Release(w) \/ Create(w) \/ Destroy(w)
  BY <1>4 DEF Notify, Release, Create, Destroy, At
<1>5. CASE Lock(w) \/ Unlock(w) \/ SendQuit(w) \/ Exhausted(w)
  BY <1>5 DEF Lock, Unlock, SendQuit, Exhausted, Takes, Calling, At
<1> QED
  BY <1>2, <1>3, <1>4, <1>5 DEF WorkerStep

\* What a worker does is about its own links and flags.
LEMMA OwnLinks ==
    ASSUME TypeInv, NEW w \in Worker, WorkerStep(w)
    PROVE  /\ UNCHANGED running
           /\ \A v \in Worker \ {w} : chan'[v] = chan[v] /\ posted'[v] = posted[v] /\ fence'[v] = fence[v]
<1>1. /\ chan \in [Worker -> [Server -> Seq(Message)]] /\ posted \in [Worker -> [Server -> Seq(Waiting)]]
      /\ fence \in [Worker -> [Server -> BOOLEAN]]
  BY DEF TypeInv, LinksOK, ChanOK, PostedOK, MemoryOK, Flags
<1>2. CASE DirectPut(w) \/ DirectGet(w) \/ DirectAcc(w) \/ DirectAccApply(w)
  BY <1>2 DEF DirectPut, DirectGet, DirectAcc, DirectAccApply, servers
<1>3. CASE RemoteWrite(w) \/ RemoteGet(w) \/ Rmw(w)
  BY <1>1, <1>3 DEF RemoteWrite, RemoteGet, Rmw, Ask, Send, Prepost, servers, data
<1>4. CASE Return(w) \/ Wait(w) \/ Test(w) \/ WaitAll(w) \/ FenceProc(w) \/ Fence(w)
  BY <1>1, <1>4 DEF Return, Wait, Test, WaitAll, FenceProc, Complete, Fence, Ask, Send, Prepost, servers, data
<1>5. CASE Notify(w) \/ Release(w) \/ Create(w) \/ Destroy(w)
  BY <1>1, <1>5 DEF Notify, Release, Create, Destroy, Ask, Send, Prepost, servers, data
<1>6. CASE Lock(w) \/ Unlock(w) \/ SendQuit(w) \/ Exhausted(w)
  BY <1>1, <1>6 DEF Lock, Unlock, SendQuit, Exhausted, Ask, Send, Prepost, servers, data
<1> QED
  BY <1>2, <1>3, <1>4, <1>5, <1>6 DEF WorkerStep

\* w does something, and comes to no part it was not past that matters.
LEMMA EndsByOne ==
    ASSUME PrInv, EndInv, UNCHANGED <<job, master, running>>, NEW w \in Worker,
           \A v \in Worker \ {w} : /\ pc'[v] = pc[v] /\ stage'[v] = stage[v] /\ mode'[v] = mode[v]
                                   /\ chan'[v] = chan[v] /\ posted'[v] = posted[v] /\ fence'[v] = fence[v],
           \A k \in 2 .. 7 : Past(w, k) => Past(w, k)',
           Past(w, 3)' => Past(w, 3), Past(w, 6)' => Past(w, 6), Quitted(w) => Quitted(w)',
           Active(w)' /\ Cur(w)'.op = "finalize" /\ mode'[w] = "wait" => stage'[w] \in {1, 6},
           \A m \in Server : /\ Past(w, 2)' => ~fence'[w][m]
                             /\ Past(w, 4)' => posted'[w][m] = <<>>,
           \/ \A m \in Server : \A h \in Underway(w, m)' : Stops(h) => h \in Underway(w, m)
           \/ /\ ~Quitted(w) /\ Quitted(w)' /\ Smallest(w)
              /\ \A m \in Server : \E h : \A g \in Underway(w, m)' : Stops(g) =>
                    (m = master[w] /\ g = h) \/ g \in Underway(w, m)
    PROVE  EndInv'
<1>1. /\ TypeInv /\ JobOK /\ Worker' = Worker /\ Server' = Server
  BY SameHosts DEF PrInv, TypeInv
<1>2. \A v \in Worker \ {w} : /\ \A k : Past(v, k)' <=> Past(v, k)
                              /\ Quitted(v)' <=> Quitted(v)
                              /\ Active(v)' <=> Active(v)
                              /\ Active(v) => Cur(v)' = Cur(v)
                              /\ \A m \in Server : Underway(v, m)' = Underway(v, m)
  BY PastSame DEF Quitted, Underway
<1>3. \A v \in Worker : Smallest(v)' = Smallest(v)
  BY <1>1 DEF Smallest, SameHost
<1>4. \A v \in Worker : Quitted(v) => Quitted(v)'
  BY <1>2
<1>5. \A v, u \in Worker : (Past(v, 3)' => Past(u, 3)') /\ (Past(v, 6)' => Past(u, 6)')
  <2>1. \A v \in Worker : /\ Past(v, 3) <=> Past(v, 3)'
                          /\ Past(v, 6) <=> Past(v, 6)'
    BY <1>2
  <2> QED
    BY <2>1 DEF EndInv
<1>6. \A v \in Worker :
          Active(v)' /\ Cur(v)'.op = "finalize" /\ mode'[v] = "wait" => stage'[v] \in {1, 6}
  BY <1>2 DEF EndInv
<1>7. \A v \in Worker, m \in Server : (Past(v, 2)' => ~fence'[v][m]) /\ (Past(v, 4)' => posted'[v][m] = <<>>)
  BY <1>2 DEF EndInv
<1>8. \A m \in Server : ~running[m] =>
          \E v \in Worker : m = master[v] /\ Smallest(v) /\ Quitted(v)
  BY DEF EndInv
<1>9. \A v \in Worker \ {w}, m \in Server :
          /\ \A h \in Underway(v, m)' : Stops(h) =>
                m = master[v] /\ Smallest(v) /\ Quitted(v)' /\ running[m]
          /\ \A h, g \in Underway(v, m)' : Stops(h) /\ Stops(g) => h = g
  BY <1>2 DEF EndInv
<1>10. \A m \in Server :
          /\ \A h \in Underway(w, m)' : Stops(h) =>
                m = master[w] /\ Smallest(w) /\ Quitted(w)' /\ running[m]
          /\ \A h, g \in Underway(w, m)' : Stops(h) /\ Stops(g) => h = g
  <2>1. CASE \A m \in Server : \A h \in Underway(w, m)' : Stops(h) => h \in Underway(w, m)
    BY <2>1 DEF EndInv
  <2>2. CASE /\ ~Quitted(w) /\ Quitted(w)' /\ Smallest(w)
             /\ \A m \in Server : \E h : \A g \in Underway(w, m)' : Stops(g) =>
                   (m = master[w] /\ g = h) \/ g \in Underway(w, m)
    <3>1. \A m \in Server : \A h \in Underway(w, m) : ~Stops(h)
      BY <2>2 DEF EndInv
    <3>2. running[master[w]]
      <4>1. ASSUME ~running[master[w]] PROVE FALSE
        <5>1. master[w] \in Server
          BY <1>1, Hosts
        <5>2. PICK v \in Worker : master[w] = master[v] /\ Smallest(v) /\ Quitted(v)
          BY <1>8, <4>1, <5>1
        <5>3. v = w
          BY <1>1, <2>2, <5>2, OneSmallest
        <5> QED
          BY <2>2, <5>2, <5>3
      <4> QED
        BY <4>1
    <3> QED
      BY <2>2, <3>1, <3>2
  <2> QED
    BY <2>1, <2>2
<1> QED
  BY <1>1, <1>3, <1>4, <1>5, <1>6, <1>7, <1>8, <1>9, <1>10 DEF EndInv

LEMMA EndsByWorker ==
    ASSUME PrInv, EndInv, FinalizedTogether, UNCHANGED <<job, master>>,
           NEW w \in Worker, WorkerStep(w)
    PROVE  EndInv'
<1>1. /\ TypeInv /\ JobOK /\ ControlOK /\ Active(w) /\ stage[w] \in Nat
      /\ Worker' = Worker /\ Server' = Server
  BY OnlyActive, SameHosts, CallFacts DEF PrInv, TypeInv
<1>2. /\ \A v \in Worker \ {w} : /\ pc'[v] = pc[v] /\ stage'[v] = stage[v] /\ mode'[v] = mode[v]
                                 /\ chan'[v] = chan[v] /\ posted'[v] = posted[v] /\ fence'[v] = fence[v]
      /\ UNCHANGED running
  BY <1>1, Modes, OwnLinks
<1>3. \/ Advance({w})
      \/ pc'[w] = pc[w] /\ stage'[w] = stage[w]
  BY StepOfOne DEF Turn, control
<1>4. /\ mode[w] = "wait" => Return(w)
      /\ mode'[w] = "wait" => pc'[w] = pc[w] /\ stage'[w] = stage[w] /\ mode[w] = "run"
  BY <1>1, Modes
<1>5. /\ \A k \in 2 .. 7 : Past(w, k) => Past(w, k)'
      /\ \A k \in 2 .. 7 : Past(w, k)' /\ ~Past(w, k) =>
            Advance({w}) /\ Cur(w).op = "finalize" /\ stage[w] = k - 1
      /\ Quitted(w) => Quitted(w)'
  <2>1. CASE Advance({w})
    <3>1. {w} \in SUBSET Worker /\ \A v \in {w} : Active(v)
      BY <1>1
    <3> QED
      BY <1>1, <2>1, <3>1, PastMonotone, QuittedMonotone
  <2>2. CASE pc'[w] = pc[w] /\ stage'[w] = stage[w] /\ ~Advance({w})
    <3>1. \A k : Past(w, k)' <=> Past(w, k)
      BY <2>2, PastSame
    <3>2. mode[w] # "wait"
      BY <1>4, <2>2 DEF Return
    <3> QED
      BY <3>1, <3>2 DEF Quitted
  <2> QED
    BY <1>3, <2>1, <2>2
<1>6. CASE Cur(w).op # "finalize"
  <2>1. \A k \in 2 .. 7 : ~Past(w, k) /\ ~Past(w, k)'
    BY <1>1, <1>5, <1>6 DEF Past
  <2>2. \A m \in Server : \A h \in Underway(w, m)' : Stops(h) => h \in Underway(w, m)
    <3>1. CASE UNCHANGED chan
      BY <3>1, SameUnderway
    <3>2. ASSUME NEW ms, NEW h, Send(w, ms, h), h.op # "OP_QUIT"
          PROVE  \A m \in Server : \A g \in Underway(w, m)' : Stops(g) => g \in Underway(w, m)
      <4>1. \A v \in Worker, m \in Server :
              Underway(v, m)' = IF v = w /\ m \in ms THEN Underway(v, m) \cup {h}
                                ELSE Underway(v, m)
        BY <1>1, <3>2, UnderwaySent
      <4> QED
        BY <3>2, <4>1 DEF Stops
    <3>3. ~SendQuit(w)
      BY <1>1, <1>6, OnlyFinalize DEF SendQuit, At
    <3> QED
      BY <1>1, <3>1, <3>2, <3>3, Speaks
  <2>3. ~(Active(w)' /\ Cur(w)'.op = "finalize" /\ mode'[w] = "wait")
    BY <1>4, <1>6 DEF Cur
  <2>4. ~Past(w, 3)' /\ ~Past(w, 6)' /\ ~Past(w, 2)' /\ ~Past(w, 4)'
    BY <2>1
  <2> QED
    BY <1>2, <1>5, <2>2, <2>3, <2>4, EndsByOne
<1>7. CASE Cur(w).op = "finalize"
  <2>1. /\ stage[w] \in 1 .. 7 /\ Stage(w) = Stages("finalize")[stage[w]]
        /\ \A k \in 2 .. 7 : Past(w, k) <=> stage[w] >= k
        /\ mode[w] = "wait" => stage[w] \in {1, 6}
    BY <1>1, <1>7, CallFacts, FinalStages DEF Stage, Past, EndInv
  <2>2. mode'[w] = "wait" /\ stage[w] \in {1, 6} =>
           (Active(w)' /\ Cur(w)'.op = "finalize" /\ mode'[w] = "wait" => stage'[w] \in {1, 6})
    BY <1>4
  <2>3. /\ fence \in [Worker -> [Server -> BOOLEAN]]
        /\ posted \in [Worker -> [Server -> Seq(Waiting)]]
    BY <1>1 DEF TypeInv, MemoryOK, Flags, LinksOK, PostedOK
  <2>4. \A m \in Server : (Past(w, 2) => ~fence[w][m]) /\ (Past(w, 4) => posted[w][m] = <<>>)
    BY DEF EndInv
  \* what w is in, and where it goes from there
  <2>5. ASSUME stage[w] \notin {2, 5},
               mode'[w] = "wait" => stage[w] \in {1, 6},
               \A m \in Server : /\ fence'[w][m] => fence[w][m]
                                 /\ Past(w, 2)' /\ stage[w] = 1 => ~fence'[w][m]
                                 /\ posted[w][m] = <<>> /\ stage[w] >= 4 => posted'[w][m] = <<>>
                                 /\ Past(w, 4)' /\ stage[w] = 3 => posted'[w][m] = <<>>,
               \/ \A m \in Server : \A h \in Underway(w, m)' : Stops(h) => h \in Underway(w, m)
               \/ /\ ~Quitted(w) /\ Quitted(w)' /\ Smallest(w)
                  /\ \A m \in Server : \E h : \A g \in Underway(w, m)' : Stops(g) =>
                        (m = master[w] /\ g = h) \/ g \in Underway(w, m)
        PROVE  EndInv'
    <3>1. (Past(w, 3)' => Past(w, 3)) /\ (Past(w, 6)' => Past(w, 6))
      BY <1>5, <2>5
    <3>2. Active(w)' /\ Cur(w)'.op = "finalize" /\ mode'[w] = "wait" => stage'[w] \in {1, 6}
      BY <2>2, <2>5
    <3>3. \A m \in Server : (Past(w, 2)' => ~fence'[w][m]) /\ (Past(w, 4)' => posted'[w][m] = <<>>)
      <4> TAKE m \in Server
      <4>1. Past(w, 2)' => ~fence'[w][m]
        <5>1. CASE Past(w, 2)
          BY <2>4, <2>5, <5>1
        <5>2. CASE ~Past(w, 2)
          BY <1>5, <2>5, <5>2
        <5> QED
          BY <5>1, <5>2
      <4>2. Past(w, 4)' => posted'[w][m] = <<>>
        <5>1. CASE Past(w, 4)
          BY <2>1, <2>4, <2>5, <5>1
        <5>2. CASE ~Past(w, 4)
          BY <1>5, <2>5, <5>2
        <5> QED
          BY <5>1, <5>2
      <4> QED
        BY <4>1, <4>2
    <3> QED
      BY <1>2, <1>5, <2>5, <3>1, <3>2, <3>3, EndsByOne
  <2>6. CASE Return(w)
    <3>1. /\ mode[w] = "wait" /\ mode'[w] = "run" /\ UNCHANGED <<chan, posted>>
          /\ fence' = IF Stage(w) # "fence" THEN fence
                      ELSE [fence EXCEPT ![w] = [m \in Server |-> FALSE]]
      BY <2>6 DEF Return, Advance
    <3>2. stage[w] \in {1, 6}
      BY <2>1, <3>1
    <3>3. \A m \in Server : (fence'[w][m] => fence[w][m]) /\ (stage[w] = 1 => ~fence'[w][m])
      BY <2>1, <2>3, <3>1, FinalStages
    <3>4. \A m \in Server : \A h \in Underway(w, m)' : Stops(h) => h \in Underway(w, m)
      BY <3>1, SameUnderway
    <3>5. stage[w] \notin {2, 5} /\ stage[w] # 3 /\ mode'[w] # "wait"
      BY <3>1, <3>2
    <3>6. \A m \in Server : /\ fence'[w][m] => fence[w][m]
                            /\ Past(w, 2)' /\ stage[w] = 1 => ~fence'[w][m]
                            /\ posted[w][m] = <<>> /\ stage[w] >= 4 => posted'[w][m] = <<>>
                            /\ Past(w, 4)' /\ stage[w] = 3 => posted'[w][m] = <<>>
      BY <3>1, <3>3, <3>5
    <3> QED
      BY <2>5, <3>4, <3>5, <3>6
  <2>7. CASE Fence(w)
    <3>1. /\ Stage(w) = "fence" /\ UNCHANGED fence
          /\ \/ /\ Flagged(w) = {} /\ Advance({w}) /\ UNCHANGED <<chan, posted>>
             \/ /\ Flagged(w) # {} /\ Turn(w, "wait")
                /\ Send(w, Flagged(w), Request(w, "OP_FENCE", 0, Null, 0))
      BY <2>7 DEF Fence, At, Ask, data
    <3>2. stage[w] \in {1, 4}
      BY <2>1, <3>1, FinalStages
    <3>3. CASE Flagged(w) = {} /\ Advance({w}) /\ UNCHANGED <<chan, posted>>
      <4>1. \A m \in Server : ~fence[w][m] /\ Underway(w, m)' = Underway(w, m)
        BY <3>3, SameUnderway DEF Flagged
      <4>2. mode'[w] = "run"
        BY <3>3 DEF Advance
      <4> QED
        BY <2>5, <3>1, <3>2, <3>3, <4>1, <4>2
    <3>4. CASE Flagged(w) # {} /\ Turn(w, "wait") /\ Send(w, Flagged(w), Request(w, "OP_FENCE", 0, Null, 0))
      <4> DEFINE h == Request(w, "OP_FENCE", 0, Null, 0)
                 ms == Flagged(w)
      <4>1. stage[w] = 1
        BY <2>1, <2>4, <3>2, <3>4 DEF Flagged
      <4>2. ~Past(w, 2)' /\ ~Past(w, 4)'
        <5>1. pc'[w] = pc[w] /\ stage'[w] = stage[w]
          BY <3>4 DEF Turn
        <5> QED
          BY <2>1, <4>1, <5>1, PastSame
      <4>3. Send(w, ms, h) /\ h.op = "OP_FENCE"
        BY <3>4 DEF Request, Header
      <4> HIDE DEF h, ms
      <4>4. \A v \in Worker, m \in Server :
              Underway(v, m)' = IF v = w /\ m \in ms THEN Underway(v, m) \cup {h}
                                ELSE Underway(v, m)
        BY <1>1, <4>3, UnderwaySent
      <4>5. \A m \in Server : \A g \in Underway(w, m)' : Stops(g) => g \in Underway(w, m)
        BY <4>3, <4>4 DEF Stops
      <4>6. \A m \in Server : /\ fence'[w][m] => fence[w][m]
                              /\ Past(w, 2)' /\ stage[w] = 1 => ~fence'[w][m]
                              /\ posted[w][m] = <<>> /\ stage[w] >= 4 => posted'[w][m] = <<>>
                              /\ Past(w, 4)' /\ stage[w] = 3 => posted'[w][m] = <<>>
        BY <3>1, <4>1, <4>2
      <4>7. stage[w] \notin {2, 5} /\ stage[w] \in {1, 6}
        BY <4>1
      <4> QED
        BY <2>5, <4>5, <4>6, <4>7
    <3> QED
      BY <3>1, <3>3, <3>4
  <2>8. CASE WaitAll(w)
    <3>1. /\ Stage(w) = "wait_all" /\ Advance({w}) /\ UNCHANGED <<chan, posted, fence>>
          /\ \A h \in Handle : ~Pending(w, h)
      BY <2>8 DEF WaitAll, Complete, At, data
    <3>2. stage[w] \in {3}
      BY <2>1, <3>1, FinalStages
    <3>3. ASSUME NEW m \in Server PROVE posted[w][m] = <<>>
      <4>1. posted[w][m] \in Seq(Waiting)
        BY <2>3
      <4>2. ASSUME posted[w][m] # <<>> PROVE FALSE
        <5>1. 1 \in DOMAIN posted[w][m] /\ posted[w][m][1] \in Waiting
          BY <4>1, <4>2, TailFacts, ElementOfSeq
        <5>2. posted[w][m][1].nb \in Handle
          BY <5>1 DEF Waiting
        <5> QED
          BY <3>1, <5>1, <5>2 DEF Pending
      <4> QED
        BY <4>2
    <3>4. mode'[w] = "run" /\ \A m \in Server : Underway(w, m)' = Underway(w, m)
      BY <3>1, SameUnderway DEF Advance
    <3> QED
      BY <2>5, <3>1, <3>2, <3>3, <3>4
  <2>9. CASE SendQuit(w)
    <3>1. /\ Stage(w) = "quit" /\ mode[w] = "run" /\ UNCHANGED <<posted, fence>>
          /\ \/ UNCHANGED chan /\ Advance({w})
             \/ Smallest(w) /\ Send(w, {master[w]}, Request(w, "OP_QUIT", 0, Null, 0)) /\ Turn(w, "wait")
      BY <2>9 DEF SendQuit, At, data
    <3>2. stage[w] \in {6}
      BY <2>1, <3>1, FinalStages
    <3>5. stage[w] \notin {2, 5} /\ stage[w] # 3 /\ stage[w] # 1 /\ stage[w] \in {1, 6}
      BY <3>2
    <3>6. \A m \in Server : /\ fence'[w][m] => fence[w][m]
                            /\ Past(w, 2)' /\ stage[w] = 1 => ~fence'[w][m]
                            /\ posted[w][m] = <<>> /\ stage[w] >= 4 => posted'[w][m] = <<>>
                            /\ Past(w, 4)' /\ stage[w] = 3 => posted'[w][m] = <<>>
      BY <3>1, <3>5
    <3>3. CASE UNCHANGED chan /\ Advance({w})
      <4>1. \A m \in Server : \A h \in Underway(w, m)' : Stops(h) => h \in Underway(w, m)
        BY <3>3, SameUnderway
      <4> QED
        BY <2>5, <3>5, <3>6, <4>1
    <3>4. CASE Smallest(w) /\ Send(w, {master[w]}, Request(w, "OP_QUIT", 0, Null, 0)) /\ Turn(w, "wait")
      <4> DEFINE h == Request(w, "OP_QUIT", 0, Null, 0)
      <4>1. Send(w, {master[w]}, h)
        BY <3>4
      <4> HIDE DEF h
      <4>2. \A v \in Worker, m \in Server :
              Underway(v, m)' = IF v = w /\ m \in {master[w]} THEN Underway(v, m) \cup {h}
                                ELSE Underway(v, m)
        BY <1>1, <4>1, UnderwaySent
      <4>3. ~Quitted(w)
        BY <2>1, <3>1, <3>2 DEF Quitted
      <4>4. Quitted(w)'
        <5>1. pc'[w] = pc[w] /\ stage'[w] = stage[w] /\ mode'[w] = "wait"
          BY <1>1, <3>4 DEF Turn, ControlOK
        <5> QED
          BY <2>1, <3>2, <5>1, PastSame DEF Quitted
      <4>5. \A m \in Server : \A g \in Underway(w, m)' : Stops(g) =>
                  (m = master[w] /\ g = h) \/ g \in Underway(w, m)
        BY <4>2
      <4> QED
        BY <2>5, <3>4, <3>5, <3>6, <4>3, <4>4, <4>5
    <3> QED
      BY <3>1, <3>3, <3>4
  <2>10. CASE Exhausted(w)
    <3>1. UNCHANGED <<pc, stage, mode, chan, posted, fence>> /\ mode[w] = "run"
      BY <2>10 DEF Exhausted, Takes, control, data
    <3>2. /\ \A k : Past(w, k)' <=> Past(w, k)
          /\ \A m \in Server : Underway(w, m)' = Underway(w, m)
      BY <3>1, PastSame, SameUnderway
    <3>3. \A m \in Server : (Past(w, 2)' => ~fence'[w][m]) /\ (Past(w, 4)' => posted'[w][m] = <<>>)
      BY <2>4, <3>1, <3>2
    <3>4. mode'[w] # "wait"
      BY <3>1
    <3> QED
      BY <1>2, <1>5, <3>2, <3>3, <3>4, EndsByOne
  <2> QED
    BY <1>1, <1>7, <2>6, <2>7, <2>8, <2>9, <2>10, InFinalize
<1> QED
  BY <1>6, <1>7

\* What a server does is to receive, to answer and in the end to quit.
LEMMA OnlyHears ==
    ASSUME PrInv, NEW m \in Server, ServerStep(m), UNCHANGED <<job, master>>
    PROVE  /\ UNCHANGED <<pc, stage, mode, fence, nb, hdls>>
           /\ \/ UNCHANGED chan
              \/ \E w \in Worker : \E ops : Incoming(m, w, ops) /\ Receive(m, w)
           /\ UNCHANGED posted \/ \E w \in Worker : Answer(m, w)
           /\ UNCHANGED running \/ \E w \in Worker : Quit(m, w)
<1>1. CASE AccApply(m) \/ RmwApply(m)
  <2>1. CASE AccApply(m)
    BY <2>1 DEF AccApply, control
  <2>2. CASE RmwApply(m)
    <3>1. srv[m] # <<>> /\ srv[m][1].from \in Worker
      <4>1. m \in Ranks /\ srv[m] # <<>> /\ MemoryOK
        BY <2>2, Hosts DEF RmwApply, Busy, PrInv, TypeInv
      <4> QED
        BY <4>1, HandFacts
    <3>2. Answer(m, srv[m][1].from)
      BY <2>2 DEF RmwApply
    <3>3. UNCHANGED <<control, fence, chan, running, nb, hdls>>
      BY <2>2 DEF RmwApply
    <3> QED
      BY <3>1, <3>2, <3>3 DEF control
  <2> QED
    BY <1>1, <2>1, <2>2
<1>2. ASSUME NEW w \in Worker, PutHandler(m, w) \/ GetHandler(m, w) \/ AccHandler(m, w)
                               \/ RmwHandler(m, w) \/ FenceHandler(m, w)
      PROVE  /\ UNCHANGED <<control, fence, running, nb, hdls>>
             /\ \E ops : Incoming(m, w, ops) /\ Receive(m, w)
             /\ UNCHANGED posted \/ Answer(m, w)
  BY <1>2 DEF PutHandler, GetHandler, AccHandler, RmwHandler, FenceHandler, data, servers
<1>3. ASSUME NEW w \in Worker, MutexCreateHandler(m, w) \/ MutexDestroyHandler(m, w)
                               \/ MallocHandler(m, w) \/ FreeHandler(m, w) \/ Quit(m, w)
      PROVE  /\ UNCHANGED <<control, fence, nb, hdls>> /\ (UNCHANGED running \/ Quit(m, w))
             /\ \E ops : Incoming(m, w, ops) /\ Receive(m, w)
             /\ UNCHANGED posted \/ Answer(m, w)
  BY <1>3 DEF MutexCreateHandler, MutexDestroyHandler, MallocHandler, FreeHandler, Quit, data, servers
<1>4. ASSUME NEW w \in Worker, LockHandler(m, w) \/ UnlockHandler(m, w)
      PROVE  /\ UNCHANGED <<control, fence, running, nb, hdls>>
             /\ \E ops : Incoming(m, w, ops) /\ Receive(m, w)
             /\ UNCHANGED posted \/ Answer(m, w)
                  \/ \E o, i : lq[o][i] # <<>> /\ Touches(o, i) /\ o = Msg(m, w).rank
                               /\ Answer(m, Head(lq[o][i]))
  BY <1>4 DEF LockHandler, UnlockHandler, data, servers
<1>5. ASSUME NEW w \in Worker, LockHandler(m, w) \/ UnlockHandler(m, w)
      PROVE  UNCHANGED posted \/ \E v \in Worker : Answer(m, v)
  <2>1. CASE UNCHANGED posted \/ Answer(m, w)
    BY <2>1
  <2>2. ASSUME NEW o, NEW i, lq[o][i] # <<>>, Touches(o, i), o = Msg(m, w).rank,
               Answer(m, Head(lq[o][i]))
        PROVE  \E v \in Worker : Answer(m, v)
    <3>1. o \in Worker
      <4>1. Incoming(m, w, {"OP_LOCK"}) \/ Incoming(m, w, {"OP_UNLOCK"})
        BY <1>5 DEF LockHandler, UnlockHandler
      <4>2. Msg(m, w).op \in {"OP_LOCK", "OP_UNLOCK"} /\ chan[w][m] # <<>> /\ Msg(m, w) = Head(chan[w][m])
        BY <4>1 DEF Incoming, Msg
      <4>3. Msg(m, w) \in Underway(w, m)
        BY <4>2, UnderwayFacts
      <4>4. Sensible(Msg(m, w), m)
        BY <4>3, UnderwayFacts
      <4> QED
        BY <2>2, <4>2, <4>4 DEF Sensible
    <3>2. /\ mutexes[o] \in Seq(Int) /\ lq[o] \in Seq(Seq(Worker)) /\ Len(lq[o]) = Len(mutexes[o])
      BY <3>1 DEF PrInv, TypeInv, MutexesOK
    <3>3. i \in DOMAIN lq[o]
      BY <2>2, <3>2 DEF Touches
    <3>4. lq[o][i] \in Seq(Worker)
      BY <3>2, <3>3, ElementOfSeq
    <3>5. Head(lq[o][i]) \in Worker
      BY <2>2, <3>4
    <3> QED
      BY <2>2, <3>5
  <2> QED
    BY <1>4, <1>5, <2>1, <2>2
<1> QED
  BY <1>1, <1>2, <1>3, <1>4, <1>5 DEF ServerStep, control

LEMMA EndsByServer ==
    ASSUME PrInv, EndInv, FinalizedTogether, UNCHANGED <<job, master>>,
           NEW m \in Server, ServerStep(m)
    PROVE  EndInv'
<1>1. /\ TypeInv /\ JobOK /\ Worker' = Worker /\ Server' = Server
      /\ UNCHANGED <<pc, stage, mode, fence>>
  BY SameHosts, OnlyHears DEF PrInv, TypeInv
<1>2. \A w \in Worker : /\ \A k : Past(w, k)' <=> Past(w, k)
                        /\ Quitted(w)' <=> Quitted(w)
                        /\ Smallest(w)' <=> Smallest(w)
                        /\ Active(w)' <=> Active(w)
                        /\ Active(w) => Cur(w)' = Cur(w)
  BY <1>1, PastSame DEF Quitted, Smallest, SameHost
<1>3. \A w \in Worker, k \in Server : Underway(w, k)' \subseteq Underway(w, k)
  <2>1. CASE UNCHANGED chan
    BY <2>1, SameUnderway
  <2>2. ASSUME NEW w \in Worker, NEW ops, Incoming(m, w, ops), Receive(m, w)
        PROVE  \A v \in Worker, k \in Server : Underway(v, k)' \subseteq Underway(v, k)
    BY <2>2, UnderwayReceived
  <2> QED
    BY <2>1, <2>2, OnlyHears
<1>4. \A w \in Worker, k \in Server : posted[w][k] = <<>> => posted'[w][k] = <<>>
  <2>1. posted \in [Worker -> [Server -> Seq(Waiting)]]
    BY <1>1 DEF TypeInv, LinksOK, PostedOK
  <2>2. ASSUME NEW w \in Worker, Answer(m, w)
        PROVE  \A v \in Worker, k \in Server : posted[v][k] = <<>> => posted'[v][k] = <<>>
    <3>1. \A v \in Worker, k \in Server :
             posted'[v][k] = IF v = w /\ k = m THEN SubSeq(posted[w][m], 2, Len(posted[w][m]))
                             ELSE posted[v][k]
      BY <2>1, <2>2 DEF Answer
    <3>2. SubSeq(<<>>, 2, Len(<<>>)) = <<>>
      OBVIOUS
    <3> QED
      BY <3>1, <3>2
  <2> QED
    BY <2>2, OnlyHears
<1>5. CASE UNCHANGED running
  BY <1>1, <1>2, <1>3, <1>4, <1>5 DEF EndInv
<1>6. ASSUME NEW w \in Worker, Quit(m, w) PROVE EndInv'
  <2>1. /\ Incoming(m, w, {"OP_QUIT"}) /\ Receive(m, w) /\ running' = [running EXCEPT ![m] = FALSE]
    BY <1>6 DEF Quit
  <2>2. /\ Msg(m, w) \in Underway(w, m) /\ Stops(Msg(m, w))
        /\ Underway(w, m)' = Underway(w, m) \ {Msg(m, w)}
    BY <2>1, UnderwayReceived DEF Stops
  <2>3. m = master[w] /\ Smallest(w) /\ Quitted(w)
    BY <2>2 DEF EndInv
  <2>4. ASSUME NEW v \in Worker, NEW h \in Underway(v, m)', Stops(h) PROVE FALSE
    <3>1. h \in Underway(v, m) /\ Smallest(v) /\ m = master[v]
      BY <1>3, <2>4 DEF EndInv
    <3>2. v = w
      BY <1>1, <2>3, <3>1, OneSmallest
    <3>3. h = Msg(m, w)
      BY <2>2, <2>4, <3>1, <3>2 DEF EndInv
    <3> QED
      BY <2>2, <2>4, <3>2, <3>3
  <2>5. \A k \in Server \ {m} : running'[k] = running[k]
    BY <2>1
  <2>6. \A v \in Worker, k \in Server : \A h \in Underway(v, k)' : Stops(h) =>
                k = master[v] /\ Smallest(v)' /\ Quitted(v)' /\ running'[k]
    BY <1>2, <1>3, <2>4, <2>5 DEF EndInv
  <2>7. \A v \in Worker, k \in Server : \A h, g \in Underway(v, k)' : Stops(h) /\ Stops(g) => h = g
    BY <1>3 DEF EndInv
  <2>8. \A k \in Server : ~running'[k] =>
          \E v \in Worker : k = master[v] /\ Smallest(v)' /\ Quitted(v)'
    <3> TAKE k \in Server
    <3>1. CASE k = m
      BY <1>2, <2>3, <3>1
    <3>2. CASE k # m
      BY <1>2, <2>5, <3>2 DEF EndInv
    <3> QED
      BY <3>1, <3>2
  <2>9. /\ \A v, u \in Worker : (Past(v, 3)' => Past(u, 3)') /\ (Past(v, 6)' => Past(u, 6)')
        /\ \A v \in Worker : Active(v)' /\ Cur(v)'.op = "finalize" /\ mode'[v] = "wait" => stage'[v] \in {1, 6}
        /\ \A v \in Worker, k \in Server : (Past(v, 2)' => ~fence'[v][k]) /\ (Past(v, 4)' => posted'[v][k] = <<>>)
    BY <1>1, <1>2, <1>4 DEF EndInv
  <2> QED
    BY <1>1, <2>6, <2>7, <2>8, <2>9 DEF EndInv
<1> QED
  BY <1>5, <1>6, OnlyHears

LEMMA EndStep ==
    ASSUME PrInv, EndInv, FinalizedTogether, [Next]_vars
    PROVE  EndInv'
<1>1. TypeInv /\ UNCHANGED <<job, master>>
  BY Steps DEF PrInv
<1>2. CASE UNCHANGED vars
  <2>1. /\ Worker' = Worker /\ Server' = Server /\ UNCHANGED <<pc, stage, mode, fence, posted, running>>
        /\ \A w \in Worker, m \in Server : Underway(w, m)' = Underway(w, m)
    BY <1>1, <1>2, SameHosts, SameUnderway DEF vars, control, data, servers
  <2>2. \A w \in Worker : /\ \A k : Past(w, k)' <=> Past(w, k)
                          /\ Quitted(w)' <=> Quitted(w)
                          /\ Smallest(w)' <=> Smallest(w)
                          /\ Active(w)' <=> Active(w)
                          /\ Active(w) => Cur(w)' = Cur(w)
    BY <1>1, <2>1, PastSame DEF Quitted, Smallest, SameHost
  <2> QED
    BY <1>1, <2>1, <2>2 DEF EndInv
<1>3. CASE Next /\ ~UNCHANGED vars
  <2>1. ASSUME NEW ws \in SUBSET Worker, GroupStep(ws) PROVE EndInv'
    BY <1>1, <2>1, EndsMet
  <2>2. CASE Leave
    BY <1>1, <2>2, EndsMet
  <2> QED
    BY <1>1, <1>3, <2>1, <2>2, EndsByWorker, EndsByServer DEF Next
<1> QED
  BY <1>2, <1>3

LEMMA EndInit ==
    ASSUME Init
    PROVE  EndInv
<1>1. TypeInv /\ JobOK
  BY PrInit DEF PrInv, TypeInv
<1>2. ASSUME NEW w \in Worker, NEW k \in 2 .. 7 PROVE ~Past(w, k)
  <2>1. pc[w] = 1 /\ stage[w] = 1 /\ job.calls[w] \in Seq(Call)
    BY <1>1, Hosts DEF Init
  <2>2. ~Active(w) => DOMAIN job.calls[w] = {}
    <3>1. ~Active(w) => Len(job.calls[w]) = 0
      BY <2>1 DEF Active
    <3> QED
      BY <2>1, <3>1
  <2> QED
    BY <2>1, <2>2 DEF Past
<1>3. \A w \in Worker, m \in Server : Underway(w, m) = {}
  <2>1. DOMAIN <<>> = {}
    OBVIOUS
  <2> QED
    BY <2>1 DEF Init, Underway
<1>4. \A w \in Worker : ~Past(w, 2) /\ ~Past(w, 3) /\ ~Past(w, 4) /\ ~Past(w, 6) /\ mode[w] = "run"
  BY <1>2 DEF Init
<1>5. \A m \in Server : running[m]
  BY DEF Init
<1> QED
  BY <1>3, <1>4, <1>5 DEF EndInv

\* comex_finalize: a server that has left its loop has nothing to do any more.
\* No worker waits for an answer of it, and at most unlocks that nobody waits
\* for are lost, if comex_finalize is the last call of every program and the
\* workers meet in it.
THEOREM ServersQuitLast == Spec /\ []FinalizedTogether => []QuitLast
<1>1. Init => PrInv /\ EndInv
  BY PrInit, EndInit
<1>2. PrInv /\ EndInv /\ FinalizedTogether /\ [Next]_vars => PrInv' /\ EndInv'
  BY PrStep, EndStep
<1>3. PrInv /\ EndInv => QuitLast
  <2> SUFFICES ASSUME PrInv, EndInv, NEW m \in Server, ~running[m], NEW w \in Worker
               PROVE  /\ posted[w][m] = <<>>
                      /\ \A i \in DOMAIN chan[w][m] : chan[w][m][i].op = "OP_UNLOCK"
    BY DEF QuitLast
  <2>1. TypeInv /\ JobOK /\ ControlOK
    BY DEF PrInv, TypeInv
  <2>2. PICK v \in Worker : Quitted(v)
    BY DEF EndInv
  <2>3. Past(v, 6)
    BY <2>1, <2>2, PastMore DEF Quitted
  <2>4. Past(w, 6)
    BY <2>3 DEF EndInv
  <2>5. Past(w, 4) /\ Past(w, 2)
    BY <2>1, <2>4, PastMore
  <2>6. posted[w][m] = <<>> /\ ~fence[w][m]
    BY <2>5 DEF EndInv
  <2>7. ASSUME NEW i \in DOMAIN chan[w][m] PROVE chan[w][m][i].op = "OP_UNLOCK"
    <3>1. chan[w][m][i] \in Underway(w, m)
      BY DEF Underway
    <3>2. chan[w][m][i].op \in MsgOp
      BY <3>1, UnderwayFacts DEF Message
    <3>3. ~Answered(chan[w][m][i])
      <4>1. DOMAIN <<>> = {}
        OBVIOUS
      <4> QED
        BY <2>6, <3>1, <4>1, UnderwayFacts
    <3>4. chan[w][m][i].op # "OP_QUIT"
      BY <3>1 DEF EndInv, Stops
    <3>5. ~IsWrite(chan[w][m][i])
      <4>1. \E k \in DOMAIN Ongoing(w, m) : Ongoing(w, m)[k] = chan[w][m][i]
        BY <2>1, ChanOngoing
      <4>2. FlushedAt(w, m)
        BY DEF PrInv
      <4> QED
        BY <2>6, <4>1, <4>2 DEF FlushedAt, Flushed
    <3> QED
      BY <3>2, <3>3, <3>4, <3>5 DEF Answered, IsWrite, MsgOp, ToMem
  <2> QED
    BY <2>6, <2>7
<1> QED
  BY <1>1, <1>2, <1>3, PTL DEF Spec

================================================================================
