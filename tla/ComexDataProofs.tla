---------------------------- MODULE ComexDataProofs ----------------------------
(***************************************************************************)
(* What the runtime promises about memory, for every set of ranks, every   *)
(* bound and every program: fence_array remembers every rank that may lag  *)
(* behind, and the puts, accumulates, gets, rmws, fences and mutexes of    *)
(* the message-passing runtime implement those of OneSided.                *)
(***************************************************************************)
EXTENDS ComexCallProofs

-----------------------------------------------------------------------------
(* What the steps send *)

\* Rank r posts at most one message, neither a write nor a value.
PostsPlain(r) ==
    \/ chan' = chan
    \/ \E d \in Rank : \E m : Push(r, d, m) /\ m.op \notin WriteOp \cup ValueOp

LEMMA DataPosts ==
    ASSUME TypeInv, NEW r \in Rank, DataStep(r)
    PROVE  PutRemote(r) \/ AccRemote(r) \/ PostsPlain(r)
<1>1. CASE PutSelf(r) \/ AccSelf(r) \/ GetSelf(r) \/ WaitStart(r) \/ FenceNothing(r)
           \/ FenceReturn(r) \/ CallReturn(r)
  BY <1>1 DEF PutSelf, AccSelf, GetSelf, WaitStart, FenceNothing, FenceReturn,
     CallReturn, PostsPlain
<1>2. CASE GetRemote(r)
  <2>1. Cur(r).to \in Rank
    BY <1>2, BlockType DEF GetRemote, DataOp, Call
  <2> QED BY <1>2, <2>1 DEF GetRemote, PostsPlain, Msg, WriteOp, ValueOp
<1>3. CASE RmwStart(r)
  <2>1. Cur(r).to \in Rank
    BY <1>3, CallsType DEF RmwStart, Call
  <2> QED BY <1>3, <2>1 DEF RmwStart, PostsPlain, Msg, WriteOp, ValueOp
<1>4. CASE FenceStart(r)
  <2>1. FenceTargets(r) \subseteq Rank
    BY <1>4, CallsType DEF FenceStart, FenceTargets, Call
  <2> QED BY <1>4, <2>1 DEF FenceStart, SendFence, PostsPlain, Msg, WriteOp, ValueOp
<1>5. CASE FenceNext(r)
  <2>1. todo[r] \subseteq Rank
    BY CallVars
  <2> QED BY <1>5, <2>1 DEF FenceNext, SendFence, PostsPlain, Msg, WriteOp, ValueOp
<1> QED BY <1>1, <1>2, <1>3, <1>4, <1>5 DEF DataStep

LEMMA BarrierPosts ==
    ASSUME TypeInv, NEW r \in Rank, BarrierStep(r)
    PROVE  PostsPlain(r)
<1>1. CASE BarrierGathered(r) \/ BarrierKeep(r) \/ BarrierScanned(r) \/ BarrierReturn(r)
  BY <1>1 DEF BarrierGathered, BarrierKeep, BarrierScanned, BarrierReturn, PostsPlain
<1>2. ASSUME NEW ps \in SUBSET Rank, NEW p \in ps, SendRequest(r, p, ps)
      PROVE  PostsPlain(r)
  BY <1>2 DEF SendRequest, PostsPlain, Msg, WriteOp, ValueOp
<1>3. CASE BarrierStart(r)
  <2>1. Cur(r).grp \ {r} \in SUBSET Rank
    BY <1>3, CallsType DEF BarrierStart, Call
  <2> QED BY <1>2, <1>3, <2>1 DEF BarrierStart, PostsPlain
<1>4. CASE BarrierSend(r)
  <2>1. todo[r] \in SUBSET Rank
    BY CallVars
  <2> QED BY <1>2, <1>4, <2>1 DEF BarrierSend
<1>5. CASE BarrierAnswer(r)
  <2>1. Head(bq[r]).rank \in Rank
    <3>1. bq[r] \in Seq(Waiter) /\ bq[r] # <<>>
      BY <1>5, QueueTypes DEF BarrierAnswer, Answerable
    <3>2. Head(bq[r]) \in Waiter
      BY <3>1, HeadTailProperties
    <3> QED BY <3>2 DEF Waiter
  <2> QED BY <1>5, <2>1 DEF BarrierAnswer, PostsPlain, Msg, WriteOp, ValueOp
<1> QED BY <1>1, <1>3, <1>4, <1>5 DEF BarrierStep

LEMMA MutexPosts ==
    ASSUME TypeInv, NEW r \in Rank, MutexStep(r)
    PROVE  PostsPlain(r)
<1>1. CASE CreateMutexes(r) \/ LockReturn(r) \/ DestroyReturn(r)
  BY <1>1 DEF CreateMutexes, LockReturn, DestroyReturn, Abort, PostsPlain
<1>2. CASE Lock(r)
  <2>1. Cur(r).to \in Rank
    BY <1>2, CallsType DEF Lock, Call
  <2> QED BY <1>2, <2>1 DEF Lock, PostsPlain, Msg, WriteOp, ValueOp
<1>3. CASE Unlock(r)
  <2>1. Cur(r).to \in Rank
    BY <1>3, CallsType DEF Unlock, Call
  <2> QED BY <1>3, <2>1 DEF Unlock, PostsPlain, Msg, WriteOp, ValueOp
<1> QED BY <1>1, <1>2, <1>3 DEF MutexStep

\* Only a put or accumulate to another rank posts a write.
LEMMA LocalPosts ==
    ASSUME TypeInv, NEW r \in Rank, LocalStep(r)
    PROVE  PutRemote(r) \/ AccRemote(r) \/ PostsPlain(r)
<1>1. MemoryStep(r) => PostsPlain(r)
  BY DEF MemoryStep, LocalSegment, GatherStart, GatherReturn, PostsPlain
<1> QED BY <1>1, DataPosts, BarrierPosts, MutexPosts DEF LocalStep

\* Rank r receives the first message of s, and answers at most by a message
\* that is no write.
AnswersPlain(r, s) ==
    /\ chan[s][r] # <<>>
    /\ \/ Consume(r, s)
       \/ \E d \in Rank : \E m : Answer(r, s, d, m) /\ m.op \notin WriteOp

\* ... nor a value.
AnswersMute(r, s) ==
    /\ chan[s][r] # <<>>
    /\ Head(chan[s][r]).op \notin WriteOp \cup ValueOp
    /\ \/ Consume(r, s)
       \/ \E d \in Rank : \E m : Answer(r, s, d, m) /\ m.op \notin WriteOp \cup ValueOp

LEMMA LqProgressAnswers ==
    ASSUME TypeInv, NEW r \in Rank, NEW s \in Rank, chan[s][r] # <<>>,
           Head(chan[s][r]).op \notin WriteOp \cup ValueOp, NEW id, NEW holder,
           NEW queue \in Seq(Waiter), LqProgress(r, s, id, holder, queue)
    PROVE  AnswersMute(r, s)
<1>1. CASE holder = Nobody /\ queue # <<>>
  <2>1. Head(queue) \in Waiter
    BY <1>1, HeadTailProperties
  <2>2. Head(queue).rank \in Rank
    BY <2>1 DEF Waiter
  <2>3. Answer(r, s, Head(queue).rank, Msg("OP_LOCK_RESPONSE", -1, 0, Head(queue).call))
    BY <1>1 DEF LqProgress
  <2> QED BY <2>2, <2>3 DEF AnswersMute, Msg, WriteOp, ValueOp
<1>2. CASE ~(holder = Nobody /\ queue # <<>>)
  BY <1>2 DEF LqProgress, AnswersMute
<1> QED BY <1>1, <1>2

LEMMA MutexAnswers ==
    ASSUME TypeInv, NEW r \in Rank, NEW s \in Rank, MutexReceive(r, s)
    PROVE  Abort \/ AnswersMute(r, s)
<1>1. CASE LockResponseHandler(r, s)
  BY <1>1 DEF LockResponseHandler, Receives, AnswersMute, WriteOp, ValueOp
<1> DEFINE m == Head(chan[s][r])
           w == [rank |-> s, call |-> m.call]
<1>2. CASE LockRequestHandler(r, s) /\ ~Abort
  <2>1. /\ chan[s][r] # <<>> /\ m.op = "OP_LOCK_REQUEST" /\ ~NoSuchMutex(r, m.loc)
        /\ LqProgress(r, s, m.loc, mutexes[r][m.loc], Append(lq[r][m.loc], w))
    BY <1>2 DEF LockRequestHandler, Receives
  <2>2. m.loc \in Nat /\ m.call \in Nat
    BY <2>1, HeadType DEF Message
  <2>3. lq[r][m.loc] \in Seq(Waiter) /\ w \in Waiter
    BY <2>1, <2>2, MutexId, LockVars DEF Waiter
  <2> HIDE DEF w
  <2>4. Append(lq[r][m.loc], w) \in Seq(Waiter)
    BY <2>3
  <2>5. m.op \notin WriteOp \cup ValueOp
    BY <2>1 DEF WriteOp, ValueOp
  <2> QED BY <2>1, <2>4, <2>5, LqProgressAnswers
<1>3. CASE UnlockRequestHandler(r, s) /\ ~Abort
  <2>1. /\ chan[s][r] # <<>> /\ m.op = "OP_UNLOCK" /\ ~NoSuchMutex(r, m.loc)
        /\ LqProgress(r, s, m.loc, Nobody, lq[r][m.loc])
    BY <1>3 DEF UnlockRequestHandler, Receives
  <2>2. m.loc \in Nat
    BY <2>1, HeadType DEF Message
  <2>3. lq[r][m.loc] \in Seq(Waiter)
    BY <2>1, <2>2, MutexId, LockVars
  <2>4. m.op \notin WriteOp \cup ValueOp
    BY <2>1 DEF WriteOp, ValueOp
  <2> QED BY <2>1, <2>3, <2>4, LqProgressAnswers
<1> QED BY <1>1, <1>2, <1>3 DEF MutexReceive

LEMMA BarrierAnswers ==
    ASSUME NEW r \in Rank, NEW s \in Rank, BarrierReceive(r, s)
    PROVE  AnswersMute(r, s)
  BY DEF BarrierReceive, BarrierRequestHandler, BarrierResponseHandler, Receives,
     AnswersMute, WriteOp, ValueOp

LEMMA ReplyAnswers ==
    ASSUME TypeInv, NEW r \in Rank, NEW s \in Rank, NEW op, Receives(r, s, op),
           NEW to \in OpCode \ WriteOp, NEW val,
           \/ Answer(r, s, s, [Head(chan[s][r]) EXCEPT !.op = to, !.val = val])
           \/ Answer(r, s, s, [Head(chan[s][r]) EXCEPT !.op = to])
    PROVE  AnswersPlain(r, s)
<1>1. chan[s][r] # <<>> /\ Head(chan[s][r]) \in Message
  BY HeadType DEF Receives
<1>2. /\ [Head(chan[s][r]) EXCEPT !.op = to, !.val = val].op = to
      /\ [Head(chan[s][r]) EXCEPT !.op = to].op = to
  BY <1>1 DEF Message
<1> QED BY <1>1, <1>2 DEF AnswersPlain

LEMMA ReceiveAnswers ==
    ASSUME TypeInv, NEW r \in Rank, NEW s \in Rank, Receive(r, s)
    PROVE  chan' = chan \/ AnswersPlain(r, s)
<1>1. CASE DataReceive(r, s)
  <2>1. CASE PutHandler(r, s) \/ AccHandler(r, s) \/ GetResponseHandler(r, s)
             \/ RmwResponseHandler(r, s) \/ FenceResponseHandler(r, s)
    BY <2>1 DEF PutHandler, AccHandler, GetResponseHandler, RmwResponseHandler,
       FenceResponseHandler, Receives, AnswersPlain
  <2>2. {"OP_GET_RESPONSE", "OP_FETCH_AND_ADD_RESPONSE", "OP_SWAP_RESPONSE",
         "OP_FENCE_RESPONSE"} \subseteq OpCode \ WriteOp
    BY DEF OpCode, WriteOp
  <2>3. CASE GetRequestHandler(r, s)
    BY <2>2, <2>3, ReplyAnswers DEF GetRequestHandler
  <2>4. CASE FetchAndAddRequestHandler(r, s)
    BY <2>2, <2>4, ReplyAnswers DEF FetchAndAddRequestHandler
  <2>5. CASE SwapRequestHandler(r, s)
    BY <2>2, <2>5, ReplyAnswers DEF SwapRequestHandler
  <2>6. CASE FenceRequestHandler(r, s)
    BY <2>2, <2>6, ReplyAnswers DEF FenceRequestHandler
  <2> QED BY <1>1, <2>1, <2>3, <2>4, <2>5, <2>6 DEF DataReceive
<1>2. CASE BarrierReceive(r, s)
  BY <1>2, BarrierAnswers DEF AnswersMute, AnswersPlain
<1>3. CASE MutexReceive(r, s)
  BY <1>3, MutexAnswers DEF AnswersMute, AnswersPlain, Abort
<1> QED BY <1>1, <1>2, <1>3 DEF Receive

-----------------------------------------------------------------------------
(* The writes on their way and the requests behind them *)

FenceRequest == {"OP_FENCE_REQUEST"}

\* A channel gains no write, and loses no fence request ahead of one.
Still(old, new) ==
    WritesAhead(old) =>
        /\ WritesAhead(new)
        /\ Holds(new, WriteOp) =>
              /\ Holds(old, WriteOp)
              /\ Holds(old, FenceRequest) => Holds(new, FenceRequest)

LEMMA StillTrans ==
    ASSUME NEW p, NEW q, NEW t, Still(p, q), Still(q, t)
    PROVE  Still(p, t)
  BY DEF Still

LEMMA StillSame == \A q : Still(q, q)
  BY DEF Still

LEMMA StillAppend ==
    ASSUME NEW q \in Seq(Message), NEW m, m.op \notin WriteOp
    PROVE  Still(q, Append(q, m))
<1>1. /\ \A i \in DOMAIN Append(q, m) :
            \/ i \in DOMAIN q /\ Append(q, m)[i] = q[i]
            \/ i = Len(q) + 1 /\ Append(q, m)[i] = m
      /\ \A i \in DOMAIN q : i \in DOMAIN Append(q, m) /\ Append(q, m)[i] = q[i]
      /\ \A i \in DOMAIN q : i <= Len(q) /\ i \in Nat
      /\ Len(q) \in Nat
  OBVIOUS
<1>2. WritesAhead(q) => WritesAhead(Append(q, m))
  <2> SUFFICES ASSUME WritesAhead(q), NEW i \in DOMAIN Append(q, m),
                      NEW j \in DOMAIN Append(q, m),
                      Append(q, m)[i].op \in RequestOp, i < j
               PROVE  Append(q, m)[j].op \notin WriteOp
    BY DEF WritesAhead
  <2>1. CASE Append(q, m)[j] = m
    BY <2>1
  <2>2. CASE j \in DOMAIN q /\ Append(q, m)[j] = q[j]
    <3>1. i \in DOMAIN q /\ Append(q, m)[i] = q[i]
      BY <1>1, <2>2
    <3> QED BY <2>2, <3>1 DEF WritesAhead
  <2> QED BY <1>1, <2>1, <2>2
<1>3. Holds(Append(q, m), WriteOp) => Holds(q, WriteOp)
  BY <1>1 DEF Holds
<1>4. Holds(q, FenceRequest) => Holds(Append(q, m), FenceRequest)
  BY <1>1 DEF Holds
<1> QED BY <1>2, <1>3, <1>4 DEF Still

LEMMA StillTail ==
    ASSUME NEW q \in Seq(Message), q # <<>>
    PROVE  Still(q, Tail(q))
<1>1. /\ \A i \in DOMAIN Tail(q) : i \in Nat /\ i + 1 \in DOMAIN q /\ Tail(q)[i] = q[i + 1] /\ 1 < i + 1
      /\ 1 \in DOMAIN q
      /\ \A i \in DOMAIN q : i # 1 => i - 1 \in DOMAIN Tail(q) /\ Tail(q)[i - 1] = q[i]
  <2>1. /\ Tail(q) \in Seq(Message) /\ Len(Tail(q)) = Len(q) - 1 /\ Len(q) \in Nat \ {0}
        /\ DOMAIN q = 1 .. Len(q) /\ DOMAIN Tail(q) = 1 .. Len(Tail(q))
        /\ \A i \in 1 .. Len(Tail(q)) : Tail(q)[i] = q[i + 1]
    BY HeadTailProperties, EmptySeq
  <2>2. \A i \in DOMAIN q : i # 1 => i - 1 \in DOMAIN Tail(q) /\ Tail(q)[i - 1] = q[i]
    <3> TAKE i \in DOMAIN q
    <3> HAVE i # 1
    <3>1. i \in Nat /\ i - 1 \in 1 .. Len(Tail(q)) /\ (i - 1) + 1 = i
      BY <2>1
    <3> QED BY <2>1, <3>1
  <2>3. \A i \in DOMAIN Tail(q) : i \in Nat /\ i + 1 \in DOMAIN q /\ Tail(q)[i] = q[i + 1] /\ 1 < i + 1
    BY <2>1
  <2> QED BY <2>1, <2>2, <2>3
<1>2. WritesAhead(q) => WritesAhead(Tail(q))
  <2> SUFFICES ASSUME WritesAhead(q), NEW i \in DOMAIN Tail(q), NEW j \in DOMAIN Tail(q),
                      Tail(q)[i].op \in RequestOp, i < j
               PROVE  Tail(q)[j].op \notin WriteOp
    BY DEF WritesAhead
  <2>1. /\ i + 1 \in DOMAIN q /\ Tail(q)[i] = q[i + 1] /\ i \in Nat
        /\ j + 1 \in DOMAIN q /\ Tail(q)[j] = q[j + 1] /\ j \in Nat
        /\ i + 1 < j + 1
    BY <1>1
  <2> QED BY <2>1 DEF WritesAhead
<1>3. Holds(Tail(q), WriteOp) => Holds(q, WriteOp)
  BY <1>1 DEF Holds
<1>4. WritesAhead(q) /\ Holds(Tail(q), WriteOp) /\ Holds(q, FenceRequest)
      => Holds(Tail(q), FenceRequest)
  <2> SUFFICES ASSUME WritesAhead(q), Holds(Tail(q), WriteOp), Holds(q, FenceRequest)
               PROVE  Holds(Tail(q), FenceRequest)
    OBVIOUS
  <2>1. PICK i \in DOMAIN q : q[i].op = "OP_FENCE_REQUEST"
    BY DEF Holds, FenceRequest
  <2>2. PICK j \in DOMAIN Tail(q) : Tail(q)[j].op \in WriteOp
    BY DEF Holds
  <2>3. i # 1
    <3>1. j + 1 \in DOMAIN q /\ q[j + 1].op \in WriteOp /\ 1 < j + 1
      BY <1>1, <2>2
    <3> QED BY <1>1, <2>1, <3>1 DEF WritesAhead, RequestOp
  <2>4. i - 1 \in DOMAIN Tail(q) /\ Tail(q)[i - 1].op = "OP_FENCE_REQUEST"
    BY <1>1, <2>1, <2>3
  <2> QED BY <2>4 DEF Holds, FenceRequest
<1> QED BY <1>2, <1>3, <1>4 DEF Still

\* No channel gains a write, and none loses a fence request ahead of one.
AllStill == \A x, y \in Rank : Still(chan[x][y], chan'[x][y])

LEMMA PostsStill ==
    ASSUME TypeInv, NEW r \in Rank, PostsPlain(r)
    PROVE  AllStill
<1> SUFFICES ASSUME NEW x \in Rank, NEW y \in Rank
             PROVE  Still(chan[x][y], chan'[x][y])
  BY DEF AllStill
<1>1. CASE chan' = chan
  BY <1>1, StillSame
<1>2. ASSUME NEW d \in Rank, NEW m, Push(r, d, m), m.op \notin WriteOp
      PROVE  Still(chan[x][y], chan'[x][y])
  <2>1. chan'[x][y] = IF x = r /\ y = d THEN Append(chan[x][y], m) ELSE chan[x][y]
    BY <1>2, PushChan
  <2>2. Still(chan[x][y], Append(chan[x][y], m))
    BY <1>2, ChanType, StillAppend
  <2> QED BY <2>1, <2>2, StillSame
<1> QED BY <1>1, <1>2 DEF PostsPlain

LEMMA AnswersStill ==
    ASSUME TypeInv, NEW r \in Rank, NEW s \in Rank, AnswersPlain(r, s)
    PROVE  AllStill
<1> SUFFICES ASSUME NEW x \in Rank, NEW y \in Rank
             PROVE  Still(chan[x][y], chan'[x][y])
  BY DEF AllStill
<1>1. Still(chan[x][y], Taken(r, s)[x][y])
  <2>1. Taken(r, s)[x][y] = IF x = s /\ y = r THEN Tail(chan[x][y]) ELSE chan[x][y]
    BY TakenChan
  <2>2. chan[x][y] # <<>> => Still(chan[x][y], Tail(chan[x][y]))
    BY ChanType, StillTail
  <2> QED BY <2>1, <2>2, StillSame DEF AnswersPlain
<1>2. CASE Consume(r, s)
  BY <1>1, <1>2 DEF Consume
<1>3. ASSUME NEW d \in Rank, NEW m, Answer(r, s, d, m), m.op \notin WriteOp
      PROVE  Still(chan[x][y], chan'[x][y])
  <2> DEFINE t == Taken(r, s)[x][y]
  <2>1. /\ t \in Seq(Message)
        /\ chan'[x][y] = IF x = r /\ y = d THEN Append(t, m) ELSE t
    BY <1>3, AnswerChan DEF AnswersPlain
  <2> HIDE DEF t
  <2>2. Still(t, Append(t, m))
    BY <1>3, <2>1, StillAppend
  <2>3. Still(chan[x][y], t)
    BY <1>1 DEF t
  <2> QED BY <2>1, <2>2, <2>3, StillTrans
<1> QED BY <1>2, <1>3 DEF AnswersPlain

-----------------------------------------------------------------------------
(* fence_array at every step *)

\* A step at which the fences are what they were, or are over
FencesKept ==
    /\ fence' = fence
    /\ \A q, p \in Rank : FenceSent(q, p)' => FenceSent(q, p)

LEMMA StillFence ==
    ASSUME FenceInv, AllStill, FencesKept
    PROVE  FenceInv'
<1> SUFFICES ASSUME NEW r \in Rank, NEW p \in Rank
             PROVE  /\ WritesAhead(chan'[r][p])
                    /\ Holds(chan'[r][p], WriteOp) =>
                          /\ r # p
                          /\ fence'[r][p]
                          /\ FenceSent(r, p)' => Holds(chan'[r][p], FenceRequest)
  BY DEF FenceInv, FenceRequest, WritesAhead, Holds
<1>1. /\ WritesAhead(chan[r][p])
      /\ Holds(chan[r][p], WriteOp) =>
            /\ r # p
            /\ fence[r][p]
            /\ FenceSent(r, p) => Holds(chan[r][p], FenceRequest)
  BY DEF FenceInv, FenceRequest
<1>2. Still(chan[r][p], chan'[r][p])
  BY DEF AllStill
<1> QED BY <1>1, <1>2 DEF Still, FencesKept

LEMMA OthersSent ==
    ASSUME NEW r \in Rank, Alone(r), \A q \in Rank \ {r} : todo'[q] = todo[q]
    PROVE  \A q \in Rank \ {r} : \A p \in Rank : FenceSent(q, p)' <=> FenceSent(q, p)
  BY DEF Alone, FenceSent, In, Cur

LEMMA KeptOutside ==
    ASSUME NEW r \in Rank, Alone(r), \A q \in Rank \ {r} : todo'[q] = todo[q],
           fence' = fence, ~In(r, {"fence"})'
    PROVE  FencesKept
<1>1. \A p \in Rank : ~FenceSent(r, p)'
  BY DEF FenceSent
<1> QED BY <1>1, OthersSent DEF FencesKept

LEMMA KeptOn ==
    ASSUME TypeInv, NEW r \in Rank, NEW ph \in Phase \ {"idle"},
           Progress(r, ph) \/ Proceed(r, ph) \/ Pushed(r, ph), Cur(r).op # "fence",
           \A q \in Rank \ {r} : todo'[q] = todo[q], fence' = fence
    PROVE  FencesKept
<1>1. Alone(r) /\ Cur(r)' = Cur(r)
  BY MovedOn
<1>2. ~In(r, {"fence"})'
  BY <1>1 DEF In
<1> QED BY <1>1, <1>2, KeptOutside

LEMMA KeptBack ==
    ASSUME TypeInv, NEW r \in Rank, Return(r), todo' = todo, fence' = fence
    PROVE  FencesKept
<1>1. Alone(r) /\ phase'[r] = "idle"
  BY MovedBack
<1>2. ~In(r, {"fence"})'
  BY <1>1 DEF In
<1> QED BY <1>1, <1>2, KeptOutside

LEMMA KeptBlock ==
    ASSUME TypeInv, NEW r \in Rank, NEW ops \in SUBSET DataOp, NextBlock(r, ops),
           NEW pushed \in BOOLEAN, BlockIssued(r, pushed), fence' = fence
    PROVE  FencesKept
<1>1. Alone(r) /\ Cur(r)' = Cur(r) /\ Cur(r).op \in ops
  BY MovedBlock, BlockType
<1>2. ~In(r, {"fence"})' /\ todo' = todo
  BY <1>1 DEF In, NextBlock, DataOp
<1> QED BY <1>1, <1>2, KeptOutside

LEMMA DataKept ==
    ASSUME TypeInv, NEW r \in Rank, DataStep(r)
    PROVE  \/ PutRemote(r) \/ AccRemote(r) \/ FenceStart(r) \/ FenceNext(r) \/ FenceReturn(r)
           \/ FencesKept
<1>1. CASE PutSelf(r)
  BY <1>1, KeptBlock DEF PutSelf, DataOp
<1>2. CASE AccSelf(r)
  BY <1>2, KeptBlock DEF AccSelf, DataOp
<1>3. CASE GetSelf(r)
  BY <1>3, KeptBlock DEF GetSelf, DataOp
<1>4. CASE GetRemote(r)
  BY <1>4, KeptBlock DEF GetRemote, DataOp
<1>5. CASE WaitStart(r)
  BY <1>5, KeptOn DEF WaitStart, Calls, Phase, issuing
<1>6. CASE RmwStart(r)
  BY <1>6, KeptOn DEF RmwStart, Calls, RmwOp, Phase, issuing
<1>7. CASE FenceNothing(r) \/ CallReturn(r)
  BY <1>7, KeptBack DEF FenceNothing, CallReturn, issuing
<1> QED BY <1>1, <1>2, <1>3, <1>4, <1>5, <1>6, <1>7 DEF DataStep

LEMMA BarrierStepKept ==
    ASSUME TypeInv, CallInv, NEW r \in Rank, BarrierStep(r)
    PROVE  FencesKept
<1>1. ASSUME phase[r] \in BarrierPhase \/ \E op \in BarrierOp : Calls(r, op)
      PROVE  Cur(r).op # "fence"
  BY <1>1 DEF CallInv, PhaseAt, BarrierOp, Calls
<1>2. ASSUME NEW ps \in SUBSET Rank, NEW p \in ps, SendRequest(r, p, ps), Cur(r).op # "fence",
             fence' = fence
      PROVE  FencesKept
  <2>1. PICK ph \in Phase \ {"idle"} : Progress(r, ph) \/ Pushed(r, ph)
    BY <1>2 DEF SendRequest, Phase
  <2>2. \A q \in Rank \ {r} : todo'[q] = todo[q]
    BY <1>2, CallVars DEF SendRequest
  <2> QED BY <1>2, <2>1, <2>2, KeptOn
<1>3. CASE BarrierStart(r)
  <2>1. Cur(r).grp \ {r} \in SUBSET Rank /\ Cur(r).op # "fence"
    BY <1>1, <1>3, CallsType DEF BarrierStart, Call
  <2>2. CASE Cur(r).grp \ {r} = {}
    BY <1>3, <2>1, <2>2, KeptOn DEF BarrierStart, Phase
  <2>3. CASE Cur(r).grp \ {r} # {}
    BY <1>2, <1>3, <2>1, <2>3 DEF BarrierStart
  <2> QED BY <2>2, <2>3
<1>4. CASE BarrierSend(r)
  <2>1. todo[r] \in SUBSET Rank /\ Cur(r).op # "fence"
    BY <1>1, <1>4, CallVars DEF BarrierSend, BarrierPhase
  <2> QED BY <1>2, <1>4, <2>1 DEF BarrierSend
<1>5. CASE BarrierGathered(r)
  BY <1>1, <1>5, KeptOn DEF BarrierGathered, BarrierPhase, Phase, issuing
<1>6. CASE BarrierAnswer(r)
  BY <1>1, <1>6, KeptOn DEF BarrierAnswer, BarrierPhase, Phase, issuing
<1>7. CASE BarrierKeep(r)
  BY <1>1, <1>7, KeptOn DEF BarrierKeep, BarrierPhase, Phase, issuing
<1>8. CASE BarrierScanned(r)
  BY <1>1, <1>8, KeptOn DEF BarrierScanned, BarrierPhase, Phase, issuing
<1>9. CASE BarrierReturn(r)
  BY <1>9, KeptBack DEF BarrierReturn, issuing
<1> QED BY <1>3, <1>4, <1>5, <1>6, <1>7, <1>8, <1>9 DEF BarrierStep

LEMMA SameKept ==
    ASSUME UNCHANGED <<control, fence, todo>>
    PROVE  FencesKept
  BY DEF FencesKept, control, FenceSent, In, Cur

LEMMA MutexStepKept ==
    ASSUME TypeInv, NEW r \in Rank, MutexStep(r)
    PROVE  FencesKept
<1>1. CASE Abort
  BY <1>1, SameKept DEF Abort, issuing
<1>2. CASE CreateMutexes(r) /\ ~Abort
  BY <1>2, KeptBack DEF CreateMutexes, issuing
<1>3. CASE Lock(r)
  BY <1>3, KeptOn DEF Lock, Calls, Phase, issuing
<1>4. CASE Unlock(r)
  BY <1>4, KeptOn DEF Unlock, Calls, Phase, issuing
<1>5. CASE LockReturn(r) \/ DestroyReturn(r)
  BY <1>5, KeptBack DEF LockReturn, DestroyReturn, issuing
<1> QED BY <1>1, <1>2, <1>3, <1>4, <1>5 DEF MutexStep

LEMMA MemoryStepKept ==
    ASSUME TypeInv, NEW r \in Rank, MemoryStep(r)
    PROVE  FencesKept
<1>1. CASE LocalSegment(r) \/ GatherReturn(r)
  BY <1>1, KeptBack DEF LocalSegment, GatherReturn, issuing
<1>2. CASE GatherStart(r)
  BY <1>2, KeptOn DEF GatherStart, Calls, Phase, issuing
<1> QED BY <1>1, <1>2 DEF MemoryStep

LEMMA ReceiveKept ==
    ASSUME NEW r \in Rank, NEW s \in Rank, Receive(r, s)
    PROVE  FencesKept
<1>1. UNCHANGED <<control, fence, todo>>
  BY DEF Receive, DataReceive, PutHandler, AccHandler, GetRequestHandler,
     GetResponseHandler, FetchAndAddRequestHandler, SwapRequestHandler,
     RmwResponseHandler, FenceRequestHandler, FenceResponseHandler,
     BarrierReceive, BarrierRequestHandler, BarrierResponseHandler,
     MutexReceive, LockRequestHandler, UnlockRequestHandler, LockResponseHandler,
     Abort, issuing
<1> QED BY <1>1, SameKept

\* A put or accumulate to another rank: it waits for nobody, so that no
\* request of its rank is on its way.
LEMMA WriteFence ==
    ASSUME TypeInv, CallInv, FenceInv, NEW r \in Rank, PutRemote(r) \/ AccRemote(r)
    PROVE  FenceInv'
<1>1. PICK ops \in SUBSET {"put", "putnext", "acc"} : NextBlock(r, ops) /\ BlockIssued(r, TRUE)
  BY DEF PutRemote, AccRemote
<1>2. /\ Cur(r).op \in ops /\ Cur(r).to \in Rank \ {r}
      /\ Alone(r) /\ Cur(r)' = Cur(r)
  <2>1. ops \in SUBSET DataOp
    BY DEF DataOp
  <2>2. Cur(r).to # r
    BY DEF PutRemote, AccRemote
  <2> QED BY <1>1, <2>1, <2>2, BlockType, MovedBlock DEF Call
<1> DEFINE d == Cur(r).to
<1>3. PICK m : Push(r, d, m) /\ m.op \in WriteOp
  <2>1. \A op, v : Msg(op, step[r], v, pc[r]).op = op
    BY DEF Msg
  <2>2. PICK op \in WriteOp : \E v : Push(r, d, Msg(op, step[r], v, pc[r]))
    BY DEF PutRemote, AccRemote, WriteOp
  <2> QED BY <2>1, <2>2
<1>4. /\ \A q, p \in Rank : fence'[q][p] <=> fence[q][p] \/ (q = r /\ p = d)
      /\ todo' = todo
  <2>1. fence \in [Rank -> [Rank -> BOOLEAN]]
    BY DEF TypeInv, TypeOK
  <2>2. fence' = [fence EXCEPT ![r][d] = TRUE]
    BY DEF PutRemote, AccRemote
  <2>3. \A q \in Rank : fence'[q] = IF q = r THEN [fence[r] EXCEPT ![d] = TRUE] ELSE fence[q]
    BY <2>1, <2>2
  <2>4. /\ \A p \in Rank : p # d => fence'[r][p] = fence[r][p]
        /\ fence'[r][d] = TRUE
    <3>1. fence'[r] = [fence[r] EXCEPT ![d] = TRUE] /\ fence[r] \in [Rank -> BOOLEAN]
      BY <2>1, <2>3
    <3> QED BY <1>2, <3>1
  <2>6. \A q, p \in Rank : fence'[q][p] <=> fence[q][p] \/ (q = r /\ p = d)
    <3> TAKE q, p \in Rank
    <3>1. CASE q = r /\ p = d
      BY <2>4, <3>1
    <3>2. CASE ~(q = r /\ p = d)
      <4>1. fence'[q][p] = fence[q][p]
        BY <2>3, <2>4, <3>2
      <4> QED BY <3>2, <4>1
    <3> QED BY <3>1, <3>2
  <2> QED BY <1>1, <2>6 DEF NextBlock
<1>5. \A p \in Rank : \A i \in DOMAIN chan[r][p] : chan[r][p][i].op \notin RequestOp
  <2>1. NoneOpen(r)
    BY <1>2, PlainOpen DEF AskingOp, RmwOp, BarrierOp
  <2> QED BY <2>1, OpenTrace DEF NoneOpen
<1>6. \A q \in Rank \ {r} : \A p \in Rank : FenceSent(q, p)' <=> FenceSent(q, p)
  BY <1>2, <1>4, OthersSent
<1>7. \A p \in Rank : ~FenceSent(r, p)'
  BY <1>2 DEF FenceSent, In
<1> SUFFICES ASSUME NEW q \in Rank, NEW p \in Rank
             PROVE  /\ WritesAhead(chan'[q][p])
                    /\ Holds(chan'[q][p], WriteOp) =>
                          /\ q # p
                          /\ fence'[q][p]
                          /\ FenceSent(q, p)' => Holds(chan'[q][p], {"OP_FENCE_REQUEST"})
  BY DEF FenceInv, WritesAhead, Holds
<1>8. /\ WritesAhead(chan[q][p])
      /\ Holds(chan[q][p], WriteOp) =>
            /\ q # p
            /\ fence[q][p]
            /\ FenceSent(q, p) => Holds(chan[q][p], {"OP_FENCE_REQUEST"})
  BY DEF FenceInv
<1>9. chan'[q][p] = IF q = r /\ p = d THEN Append(chan[q][p], m) ELSE chan[q][p]
  BY <1>2, <1>3, PushChan
<1>10. CASE q = r /\ p = d
  <2>1. WritesAhead(chan'[q][p])
    <3>1. \A i \in DOMAIN chan'[q][p] : chan'[q][p][i].op \notin RequestOp
      <4>1. \A i \in DOMAIN Append(chan[q][p], m) :
               \/ i \in DOMAIN chan[q][p] /\ Append(chan[q][p], m)[i] = chan[q][p][i]
               \/ Append(chan[q][p], m)[i] = m
        BY ChanType
      <4>2. m.op \notin RequestOp
        BY <1>3, OpDisjoint
      <4> QED BY <1>5, <1>9, <1>10, <4>1, <4>2
    <3> QED BY <3>1 DEF WritesAhead
  <2> QED BY <1>2, <1>4, <1>7, <1>10, <2>1
<1>11. CASE ~(q = r /\ p = d)
  BY <1>4, <1>6, <1>7, <1>8, <1>9, <1>11
<1> QED BY <1>10, <1>11

\* A fence request is posted to p, one of the ranks ps the fence has still
\* to ask.
LEMMA SendFenceFence ==
    ASSUME TypeInv, FenceInv, NEW r \in Rank, NEW ps \in SUBSET Rank, NEW p \in ps,
           SendFence(r, p, ps), Cur(r).op = "fence", fence' = fence,
           \A q \in Cur(r).grp : q \notin ps /\ fence[r][q] => FenceSent(r, q)
    PROVE  FenceInv'
<1>1. PICK ph \in Phase \ {"idle"} : Progress(r, ph) \/ Pushed(r, ph)
  BY DEF SendFence, Phase
<1>2. Alone(r) /\ Cur(r)' = Cur(r)
  BY <1>1, MovedOn
<1>3. todo'[r] = ps \ {p} /\ \A q \in Rank \ {r} : todo'[q] = todo[q]
  BY CallVars DEF SendFence
<1> DEFINE m == Msg("OP_FENCE_REQUEST", 0, 0, pc[r])
<1>4. Push(r, p, m) /\ m.op = "OP_FENCE_REQUEST"
  BY DEF SendFence, Msg
<1> HIDE DEF m
<1>5. AllStill
  <2>1. PostsPlain(r)
    BY <1>4 DEF PostsPlain, WriteOp, ValueOp
  <2> QED BY <2>1, PostsStill
<1>6. Holds(chan'[r][p], {"OP_FENCE_REQUEST"})
  <2>0. p \in Rank /\ Push(r, p, m)
    BY <1>4
  <2>1. chan'[r][p] = Append(chan[r][p], m)
    BY <2>0 DEF Push, TypeInv, TypeOK
  <2>2. /\ Len(chan[r][p]) + 1 \in DOMAIN Append(chan[r][p], m)
        /\ Append(chan[r][p], m)[Len(chan[r][p]) + 1] = m
    BY ChanType
  <2> QED BY <1>4, <2>1, <2>2 DEF Holds
<1> SUFFICES ASSUME NEW x \in Rank, NEW y \in Rank
             PROVE  /\ WritesAhead(chan'[x][y])
                    /\ Holds(chan'[x][y], WriteOp) =>
                          /\ x # y
                          /\ fence'[x][y]
                          /\ FenceSent(x, y)' => Holds(chan'[x][y], {"OP_FENCE_REQUEST"})
  BY DEF FenceInv, WritesAhead, Holds
<1>7. /\ WritesAhead(chan[x][y])
      /\ Holds(chan[x][y], WriteOp) =>
            /\ x # y
            /\ fence[x][y]
            /\ FenceSent(x, y) => Holds(chan[x][y], FenceRequest)
  BY DEF FenceInv, FenceRequest
<1>8. Still(chan[x][y], chan'[x][y])
  BY <1>5 DEF AllStill
<1>9. ASSUME Holds(chan'[x][y], WriteOp), FenceSent(x, y)', ~(x = r /\ y = p)
      PROVE  FenceSent(x, y)
  <2>1. CASE x # r
    BY <1>2, <1>3, <1>9, <2>1, OthersSent
  <2>2. CASE x = r
    <3>1. y \in Cur(r).grp /\ y \notin ps
      BY <1>2, <1>3, <1>9, <2>2 DEF FenceSent
    <3>2. fence[r][y]
      BY <1>7, <1>8, <1>9, <2>2 DEF Still
    <3> QED BY <2>2, <3>1, <3>2
  <2> QED BY <2>1, <2>2
<1>10. Holds(chan'[x][y], WriteOp) /\ FenceSent(x, y)' => Holds(chan'[x][y], FenceRequest)
  BY <1>6, <1>7, <1>8, <1>9 DEF Still, FenceRequest
<1> QED BY <1>7, <1>8, <1>10 DEF Still, FenceRequest

LEMMA FenceStartFence ==
    ASSUME TypeInv, FenceInv, NEW r \in Rank, FenceStart(r)
    PROVE  FenceInv'
<1>1. Cur(r).op = "fence" /\ FenceTargets(r) \in SUBSET Rank
  BY CallsType DEF FenceStart, FenceTargets, Call
<1>2. PICK p \in FenceTargets(r) : SendFence(r, p, FenceTargets(r))
  BY DEF FenceStart
<1>3. \A q \in Cur(r).grp : q \notin FenceTargets(r) /\ fence[r][q] => FenceSent(r, q)
  BY DEF FenceTargets
<1> QED BY <1>1, <1>2, <1>3, SendFenceFence DEF FenceStart

LEMMA FenceNextFence ==
    ASSUME TypeInv, FenceInv, NEW r \in Rank, FenceNext(r)
    PROVE  FenceInv'
<1>1. Cur(r).op = "fence" /\ todo[r] \in SUBSET Rank /\ phase[r] = "fence"
  BY CallVars DEF FenceNext, TypeInv, ControlOK
<1>2. PICK p \in todo[r] : SendFence(r, p, todo[r])
  BY DEF FenceNext
<1>3. \A q \in Cur(r).grp : q \notin todo[r] /\ fence[r][q] => FenceSent(r, q)
  BY <1>1 DEF FenceSent, In
<1> QED BY <1>1, <1>2, <1>3, SendFenceFence DEF FenceNext

\* When a fence returns every rank it asked has answered, and received
\* before its answer all that was written to it.
LEMMA FenceReturned ==
    ASSUME TypeInv, CallInv, FenceInv, NEW r \in Rank, FenceReturn(r)
    PROVE  \A p \in Cur(r).grp \cap Rank : ~Holds(chan[r][p], WriteOp)
<1>1. /\ phase[r] = "wait" /\ Cur(r).op = "fence" /\ notify[r] = 0
  BY DEF FenceReturn
<1>2. FenceCounted(r) /\ In(r, {"fence"}) /\ todo[r] = {}
  BY <1>1 DEF CallInv, Counted, In, PhaseAt
<1>3. \A p \in Rank : Open(r, p) = 0
  <2>1. IsFiniteSet(Awaited(r))
    BY RankAssumption, FS_Subset DEF Awaited
  <2>2. Awaited(r) = {}
    BY <1>1, <1>2, <2>1, FS_EmptySet DEF FenceCounted
  <2> QED BY <2>2 DEF Awaited
<1> SUFFICES ASSUME NEW p \in Cur(r).grp \cap Rank, Holds(chan[r][p], WriteOp)
             PROVE  FALSE
  OBVIOUS
<1>4. FenceSent(r, p)
  BY <1>2 DEF FenceSent
<1>5. PICK i \in DOMAIN chan[r][p] : chan[r][p][i].op = "OP_FENCE_REQUEST"
  BY <1>4 DEF FenceInv, Holds
<1> QED BY <1>3, <1>5, OpenTrace DEF RequestOp

LEMMA FenceReturnFence ==
    ASSUME TypeInv, CallInv, FenceInv, NEW r \in Rank, FenceReturn(r)
    PROVE  FenceInv'
<1>1. \A p \in Cur(r).grp \cap Rank : ~Holds(chan[r][p], WriteOp)
  BY FenceReturned
<1>2. /\ \A q, p \in Rank : fence'[q][p] <=> fence[q][p] /\ ~(q = r /\ p \in Cur(r).grp)
      /\ todo' = todo /\ chan' = chan
  <2>1. /\ fence' = [fence EXCEPT ![r] = [p \in Rank |-> fence[r][p] /\ p \notin Cur(r).grp]]
        /\ todo' = todo /\ chan' = chan
    BY DEF FenceReturn, issuing
  <2>2. fence \in [Rank -> [Rank -> BOOLEAN]]
    BY DEF TypeInv, TypeOK
  <2>3. \A q \in Rank : fence'[q] =
           IF q = r THEN [p \in Rank |-> fence[r][p] /\ p \notin Cur(r).grp] ELSE fence[q]
    BY <2>1, <2>2
  <2>4. ASSUME NEW q \in Rank, NEW p \in Rank
        PROVE  fence'[q][p] <=> fence[q][p] /\ ~(q = r /\ p \in Cur(r).grp)
    <3>1. CASE q = r
      <4>1. fence'[r] = [x \in Rank |-> fence[r][x] /\ x \notin Cur(r).grp]
        BY <2>3
      <4> QED BY <3>1, <4>1
    <3>2. CASE q # r
      BY <2>3, <3>2
    <3> QED BY <3>1, <3>2
  <2> QED BY <2>1, <2>4
<1>3. Alone(r) /\ phase'[r] = "idle"
  BY MovedBack DEF FenceReturn
<1>4. /\ \A q \in Rank \ {r} : \A p \in Rank : FenceSent(q, p)' <=> FenceSent(q, p)
      /\ \A p \in Rank : ~FenceSent(r, p)'
  BY <1>2, <1>3, OthersSent DEF FenceSent, In
<1> SUFFICES ASSUME NEW q \in Rank, NEW p \in Rank
             PROVE  /\ WritesAhead(chan'[q][p])
                    /\ Holds(chan'[q][p], WriteOp) =>
                          /\ q # p
                          /\ fence'[q][p]
                          /\ FenceSent(q, p)' => Holds(chan'[q][p], {"OP_FENCE_REQUEST"})
  BY DEF FenceInv, WritesAhead, Holds
<1> QED BY <1>1, <1>2, <1>4 DEF FenceInv

LEMMA InitFence == Init => FenceInv
  BY DEF Init, FenceInv, WritesAhead, Holds

LEMMA NextFence == TypeInv /\ CallInv /\ FenceInv /\ [Next]_vars => FenceInv'
<1> SUFFICES ASSUME TypeInv, CallInv, FenceInv, [Next]_vars PROVE FenceInv'
  OBVIOUS
<1>1. ASSUME NEW r \in Rank, LocalStep(r) PROVE FenceInv'
  <2>1. CASE PutRemote(r) \/ AccRemote(r)
    BY <2>1, WriteFence
  <2>2. CASE FenceStart(r) \/ FenceNext(r) \/ FenceReturn(r)
    BY <2>2, FenceStartFence, FenceNextFence, FenceReturnFence
  <2>3. CASE FencesKept /\ ~(PutRemote(r) \/ AccRemote(r))
    <3>1. AllStill
      BY <1>1, <2>3, LocalPosts, PostsStill
    <3> QED BY <2>3, <3>1, StillFence
  <2> QED BY <1>1, <2>1, <2>2, <2>3, DataKept, BarrierStepKept, MutexStepKept, MemoryStepKept
          DEF LocalStep
<1>2. ASSUME NEW r \in Rank, NEW s \in Rank, Receive(r, s) PROVE FenceInv'
  <2>1. AllStill
    BY <1>2, ReceiveAnswers, AnswersStill, StillSame DEF AllStill
  <2> QED BY <1>2, <2>1, ReceiveKept, StillFence
<1>3. CASE UNCHANGED vars
  <2>1. UNCHANGED <<control, fence, todo>> /\ chan' = chan
    BY <1>3 DEF vars, issuing
  <2>2. AllStill
    BY <2>1, StillSame DEF AllStill
  <2> QED BY <2>1, <2>2, SameKept, StillFence
<1> QED BY <1>1, <1>2, <1>3 DEF Next, ReceiveStep, Over

\* fence_array: a rank that is not marked has applied every put and
\* accumulate sent to it, whatever the programs do between their fences.
THEOREM FenceArray == Spec => []FenceSound
<1>1. Spec => [](TypeInv /\ CallInv /\ FenceInv)
  BY InitType, NextType, InitCall, NextCall, InitFence, NextFence, PTL DEF Spec
<1>2. TypeInv /\ FenceInv => FenceSound
  BY DEF FenceInv, FenceSound, Holds, InFlight
<1> QED BY <1>1, <1>2, PTL

-----------------------------------------------------------------------------
(* The messages of a kind that a channel holds, in their order *)

\* The place of a message of q among those that are one of ops is one more
\* than that of the one before.
LEMMA UptoStep ==
    ASSUME NEW q \in Seq(Message), NEW ops, NEW i \in 0 .. Len(q)
    PROVE  /\ Upto(q, ops, i) \in Nat
           /\ Upto(q, ops, 0) = 0
           /\ i # 0 => Upto(q, ops, i) = Upto(q, ops, i - 1) + Unit(q[i].op \in ops)
<1> DEFINE S(k) == {j \in 1 .. k : q[j].op \in ops}
<1>1. \A k \in 0 .. Len(q) : IsFiniteSet(S(k)) /\ Cardinality(S(k)) \in Nat
  <2> TAKE k \in 0 .. Len(q)
  <2>1. S(k) \subseteq DOMAIN q
    OBVIOUS
  <2> HIDE DEF S
  <2> QED BY <2>1, IndexSet
<1>2. S(0) = {}
  OBVIOUS
<1>3. ASSUME i # 0
      PROVE  Cardinality(S(i)) = Cardinality(S(i - 1)) + Unit(q[i].op \in ops)
  <2>1. i - 1 \in 0 .. Len(q) /\ i \notin S(i - 1)
    BY <1>3
  <2>2. S(i) = IF q[i].op \in ops THEN S(i - 1) \cup {i} ELSE S(i - 1)
    BY <1>3
  <2> HIDE DEF S
  <2>3. IsFiniteSet(S(i - 1)) /\ Cardinality(S(i - 1)) \in Nat
    BY <1>1, <2>1
  <2>4. Cardinality(S(i - 1) \cup {i}) = Cardinality(S(i - 1)) + 1
    BY <2>1, <2>3, FS_AddElement
  <2> QED BY <2>2, <2>3, <2>4 DEF Unit
<1>4. Cardinality(S(0)) = 0
  BY <1>2, FS_EmptySet
<1> QED BY <1>1, <1>3, <1>4 DEF Upto

LEMMA UptoMono ==
    ASSUME NEW q \in Seq(Message), NEW ops, NEW i \in 0 .. Len(q), NEW j \in i .. Len(q)
    PROVE  Upto(q, ops, i) <= Upto(q, ops, j)
<1> DEFINE S(k) == {x \in 1 .. k : q[x].op \in ops}
<1>1. S(j) \subseteq DOMAIN q /\ S(i) \subseteq S(j)
  OBVIOUS
<1> HIDE DEF S
<1>2. IsFiniteSet(S(j))
  BY <1>1, IndexSet
<1>3. Cardinality(S(i)) <= Cardinality(S(j))
  BY <1>1, <1>2, FS_Subset
<1> QED BY <1>3 DEF Upto, S

\* No two messages have the same place, ...
LEMMA UptoUnique ==
    ASSUME NEW q \in Seq(Message), NEW ops, NEW i \in DOMAIN q, NEW j \in DOMAIN q,
           q[i].op \in ops, q[j].op \in ops, Upto(q, ops, i) = Upto(q, ops, j)
    PROVE  i = j
<1>1. ASSUME NEW a \in DOMAIN q, NEW b \in DOMAIN q, q[b].op \in ops, a < b
      PROVE  Upto(q, ops, a) # Upto(q, ops, b)
  <2>1. /\ a \in 0 .. Len(q) /\ b \in 0 .. Len(q) /\ b # 0
        /\ b - 1 \in a .. Len(q) /\ b - 1 \in 0 .. Len(q)
    BY <1>1
  <2>2. Upto(q, ops, a) <= Upto(q, ops, b - 1)
    BY <2>1, UptoMono
  <2>3. Upto(q, ops, b) = Upto(q, ops, b - 1) + 1
    BY <1>1, <2>1, UptoStep DEF Unit
  <2>4. Upto(q, ops, a) \in Nat /\ Upto(q, ops, b - 1) \in Nat
    BY <2>1, UptoStep
  <2> QED BY <2>2, <2>3, <2>4
<1>2. i < j \/ j < i \/ i = j
  OBVIOUS
<1> QED BY <1>1, <1>2

LEMMA UptoBounds ==
    ASSUME NEW q \in Seq(Message), NEW ops, NEW i \in DOMAIN q, q[i].op \in ops
    PROVE  /\ Upto(q, ops, Len(q)) \in Nat
           /\ Upto(q, ops, i) \in 1 .. Upto(q, ops, Len(q))
<1>1. i \in 0 .. Len(q) /\ i # 0 /\ i - 1 \in 0 .. Len(q)
      /\ Len(q) \in i .. Len(q) /\ Len(q) \in 0 .. Len(q)
  OBVIOUS
<1>2. Upto(q, ops, i) = Upto(q, ops, i - 1) + 1 /\ Upto(q, ops, i - 1) \in Nat
  BY <1>1, UptoStep DEF Unit
<1>3. Upto(q, ops, i) <= Upto(q, ops, Len(q)) /\ Upto(q, ops, Len(q)) \in Nat
  BY <1>1, UptoMono, UptoStep
<1> QED BY <1>2, <1>3

\* ... and no place is left out.
LEMMA UptoOnto ==
    ASSUME NEW q \in Seq(Message), NEW ops, NEW k \in 1 .. Upto(q, ops, Len(q))
    PROVE  \E i \in DOMAIN q : q[i].op \in ops /\ Upto(q, ops, i) = k
<1> DEFINE S == {i \in 1 .. Len(q) : q[i].op \in ops}
           n == Upto(q, ops, Len(q))
           T == 1 .. n
           f == [i \in S |-> Upto(q, ops, i)]
<1> SUFFICES ASSUME \A i \in S : Upto(q, ops, i) # k PROVE FALSE
  OBVIOUS
<1>1. IsFiniteSet(S) /\ Cardinality(S) = n /\ n \in Nat
  <2>1. S \subseteq DOMAIN q /\ Len(q) \in 0 .. Len(q)
    OBVIOUS
  <2>2. IsFiniteSet(S)
    BY <2>1, IndexSet
  <2>3. n \in Nat
    BY <2>1, UptoStep
  <2> QED BY <2>2, <2>3 DEF Upto
<1>2. IsFiniteSet(T \ {k}) /\ Cardinality(T \ {k}) < Cardinality(S)
  <2> HIDE DEF n, S
  <2>1. IsFiniteSet(T) /\ Cardinality(T) = n
    BY <1>1, FS_Interval
  <2>2. k \in T
    BY DEF n
  <2>3. IsFiniteSet(T \ {k}) /\ Cardinality(T \ {k}) = n - 1
    BY <2>1, <2>2, FS_RemoveElement
  <2> QED BY <1>1, <2>3
<1>3. f \in [S -> T \ {k}]
  <2>1. \A i \in S : Upto(q, ops, i) \in T
    BY UptoBounds
  <2> QED BY <2>1
<1>4. \A x, y \in S : f[x] = f[y] => x = y
  BY UptoUnique
<1> HIDE DEF S, T, f
<1> QED BY <1>1, <1>2, <1>3, <1>4, FS_PigeonHole

\* What Only is
LEMMA OnlyAt ==
    ASSUME NEW q \in Seq(Message), NEW ops
    PROVE  /\ Only(q, ops) \in Seq(Message)
           /\ Len(Only(q, ops)) = Upto(q, ops, Len(q)) /\ Upto(q, ops, Len(q)) \in Nat
           /\ DOMAIN Only(q, ops) = 1 .. Upto(q, ops, Len(q))
           /\ \A i \in DOMAIN q : q[i].op \in ops =>
                 /\ Upto(q, ops, i) \in DOMAIN Only(q, ops)
                 /\ Only(q, ops)[Upto(q, ops, i)] = q[i]
<1> DEFINE n == Upto(q, ops, Len(q))
           at(k) == CHOOSE i \in DOMAIN q : q[i].op \in ops /\ Upto(q, ops, i) = k
<1>1. n \in Nat
  BY UptoStep
<1>2. \A k \in 1 .. n : at(k) \in DOMAIN q /\ q[at(k)].op \in ops /\ Upto(q, ops, at(k)) = k
  BY UptoOnto
<1>3. Only(q, ops) = [k \in 1 .. n |-> q[at(k)]]
  BY DEF Only
<1>4. ASSUME NEW i \in DOMAIN q, q[i].op \in ops
      PROVE  /\ Upto(q, ops, i) \in 1 .. n
             /\ at(Upto(q, ops, i)) = i
  <2>1. Upto(q, ops, i) \in 1 .. n
    BY <1>4, UptoBounds
  <2> DEFINE j == at(Upto(q, ops, i))
  <2>2. j \in DOMAIN q /\ q[j].op \in ops /\ Upto(q, ops, j) = Upto(q, ops, i)
    BY <1>2, <2>1
  <2> HIDE DEF j, n
  <2>3. j = i
    BY <1>4, <2>2, UptoUnique
  <2> QED BY <2>1, <2>3 DEF j
<1> HIDE DEF at, n
<1>5. \A k \in 1 .. n : q[at(k)] \in Message
  BY <1>2
<1>6. Only(q, ops) \in Seq(Message) /\ Len(Only(q, ops)) = n /\ DOMAIN Only(q, ops) = 1 .. n
  BY <1>1, <1>3, <1>5
<1>7. \A i \in DOMAIN q : q[i].op \in ops => Only(q, ops)[Upto(q, ops, i)] = q[i]
  BY <1>3, <1>4
<1> QED BY <1>1, <1>4, <1>6, <1>7 DEF n

\* The messages of q that are one of ops, when one is added at the end ...
LEMMA OnlyAppend ==
    ASSUME NEW q \in Seq(Message), NEW ops, NEW m \in Message
    PROVE  Only(Append(q, m), ops) = IF m.op \in ops THEN Append(Only(q, ops), m)
                                                      ELSE Only(q, ops)
<1> DEFINE a == Append(q, m)
           n == Upto(q, ops, Len(q))
           t == IF m.op \in ops THEN Append(Only(q, ops), m) ELSE Only(q, ops)
<1>1. /\ a \in Seq(Message) /\ Len(a) = Len(q) + 1 /\ Len(q) \in Nat /\ a[Len(q) + 1] = m
      /\ DOMAIN q = 1 .. Len(q) /\ DOMAIN a = 1 .. Len(q) + 1
      /\ \A i \in DOMAIN q : a[i] = q[i] /\ i \in DOMAIN a
  OBVIOUS
<1> HIDE DEF a
<1>2. \A i \in 0 .. Len(q) : Upto(a, ops, i) = Upto(q, ops, i)
  <2> TAKE i \in 0 .. Len(q)
  <2>1. {j \in 1 .. i : a[j].op \in ops} = {j \in 1 .. i : q[j].op \in ops}
    BY <1>1
  <2> QED BY <2>1 DEF Upto
<1>3. Upto(a, ops, Len(a)) = n + Unit(m.op \in ops) /\ n \in Nat
  <2>1. /\ Len(a) \in 0 .. Len(a) /\ Len(a) # 0 /\ Len(a) - 1 = Len(q)
        /\ Len(q) \in 0 .. Len(q) /\ a[Len(a)] = m
    BY <1>1
  <2>2. Upto(a, ops, Len(a)) = Upto(a, ops, Len(a) - 1) + Unit(a[Len(a)].op \in ops)
    BY <1>1, <2>1, UptoStep
  <2>3. Upto(q, ops, Len(q)) \in Nat
    BY <2>1, UptoStep
  <2> QED BY <1>2, <2>1, <2>2, <2>3
<1>4. /\ Only(a, ops) \in Seq(Message) /\ Only(q, ops) \in Seq(Message)
      /\ Len(Only(a, ops)) = n + Unit(m.op \in ops) /\ Len(Only(q, ops)) = n
      /\ DOMAIN Only(q, ops) = 1 .. n
      /\ \A i \in DOMAIN a : a[i].op \in ops => Only(a, ops)[Upto(a, ops, i)] = a[i]
      /\ \A i \in DOMAIN q : q[i].op \in ops => Only(q, ops)[Upto(q, ops, i)] = q[i]
  BY <1>1, <1>3, OnlyAt
<1> HIDE DEF n
<1>5. /\ t \in Seq(Message) /\ Len(t) = n + Unit(m.op \in ops)
      /\ \A k \in 1 .. n : t[k] = Only(q, ops)[k]
      /\ m.op \in ops => t[n + 1] = m
  BY <1>3, <1>4 DEF Unit
<1>6. \A k \in 1 .. n : Only(a, ops)[k] = Only(q, ops)[k]
  <2> TAKE k \in 1 .. n
  <2>1. PICK i \in DOMAIN q : q[i].op \in ops /\ Upto(q, ops, i) = k
    BY UptoOnto DEF n
  <2>2. i \in DOMAIN a /\ a[i] = q[i] /\ Upto(a, ops, i) = k
    BY <1>1, <1>2, <2>1
  <2> QED BY <1>4, <2>1, <2>2
<1>7. ASSUME m.op \in ops PROVE Only(a, ops)[n + 1] = m
  <2>1. Len(a) \in DOMAIN a /\ a[Len(a)] = m
    BY <1>1
  <2>2. Upto(a, ops, Len(a)) = n + 1
    BY <1>3, <1>7 DEF Unit
  <2> QED BY <1>4, <1>7, <2>1, <2>2
<1>8. \A k \in 1 .. n + Unit(m.op \in ops) : k \in 1 .. n \/ (m.op \in ops /\ k = n + 1)
  BY <1>3 DEF Unit
<1>9. \A k \in 1 .. n + Unit(m.op \in ops) : Only(a, ops)[k] = t[k]
  BY <1>5, <1>6, <1>7, <1>8
<1> HIDE DEF t
<1>10. Only(a, ops) = t
  BY <1>4, <1>5, <1>9
<1> QED BY <1>10 DEF a, t

\* ... and when the first is taken away
LEMMA OnlyTail ==
    ASSUME NEW q \in Seq(Message), q # <<>>, NEW ops
    PROVE  IF Head(q).op \in ops
           THEN /\ Only(q, ops) # <<>>
                /\ Head(Only(q, ops)) = Head(q)
                /\ Only(Tail(q), ops) = Tail(Only(q, ops))
           ELSE Only(Tail(q), ops) = Only(q, ops)
<1> DEFINE t == Tail(q)
           u == Unit(Head(q).op \in ops)
           n == Upto(t, ops, Len(t))
           o == Only(q, ops)
           p == Only(t, ops)
<1>1. /\ t \in Seq(Message) /\ Len(t) = Len(q) - 1 /\ Len(q) \in Nat \ {0}
      /\ DOMAIN q = 1 .. Len(q) /\ DOMAIN t = 1 .. Len(t) /\ Head(q) = q[1]
      /\ \A i \in DOMAIN t : t[i] = q[i + 1]
  BY HeadTailProperties, EmptySeq
<1> HIDE DEF t
<1>2. u \in {0, 1} /\ (u = 1 <=> Head(q).op \in ops)
  BY DEF Unit
<1>3. \A i \in 0 .. Len(t) : Upto(q, ops, i + 1) = Upto(t, ops, i) + u
  <2> TAKE i \in 0 .. Len(t)
  <2> DEFINE S == {j \in 1 .. i + 1 : q[j].op \in ops}
             T == {j \in 1 .. i : t[j].op \in ops}
             D == {j \in 2 .. i + 1 : q[j].op \in ops}
  <2>0. i + 1 \in Nat /\ i + 1 <= Len(q) /\ i \in Nat /\ i <= Len(t)
    BY <1>1
  <2>1. T \in SUBSET Nat /\ IsFiniteSet(T) /\ Cardinality(T) \in Nat
    <3>1. T \subseteq DOMAIN t
      BY <1>1, <2>0
    <3> HIDE DEF T
    <3> QED BY <1>1, <3>1, IndexSet
  <2>2. IsFiniteSet(D) /\ Cardinality(D) = Cardinality(T)
    <3>1. \A j \in Nat : j \in D <=> j # 0 /\ j - 1 \in T
      <4> TAKE j \in Nat
      <4>1. j \in 2 .. i + 1 <=> j # 0 /\ j - 1 \in 1 .. i
        BY <2>0
      <4>2. j - 1 \in 1 .. i => t[j - 1] = q[j]
        <5> HAVE j - 1 \in 1 .. i
        <5>1. j - 1 \in DOMAIN t /\ (j - 1) + 1 = j
          BY <1>1, <2>0
        <5> QED BY <1>1, <5>1
      <4> QED BY <4>1, <4>2
    <3>2. D \in SUBSET Nat
      BY <2>0
    <3> HIDE DEF D, T
    <3> QED BY <2>1, <3>1, <3>2, ShiftCard
  <2>3. S = IF Head(q).op \in ops THEN D \cup {1} ELSE D
    <3>1. \A j : j \in 1 .. i + 1 <=> j = 1 \/ j \in 2 .. i + 1
      BY <2>0
    <3> QED BY <1>1, <3>1
  <2>4. 1 \notin D
    OBVIOUS
  <2> HIDE DEF S, T, D
  <2>5. Cardinality(D \cup {1}) = Cardinality(D) + 1
    BY <2>2, <2>4, FS_AddElement
  <2>6. Cardinality(S) = Cardinality(T) + u
    BY <2>1, <2>2, <2>3, <2>5 DEF Unit
  <2> QED BY <2>6 DEF Upto, S, T
<1>4. Upto(q, ops, Len(q)) = n + u /\ n \in Nat
  <2>1. Len(t) \in 0 .. Len(t) /\ Len(t) + 1 = Len(q)
    BY <1>1
  <2>2. Upto(q, ops, Len(t) + 1) = n + u
    BY <1>3, <2>1
  <2>3. Upto(t, ops, Len(t)) \in Nat
    BY <1>1, <2>1, UptoStep
  <2> QED BY <2>1, <2>2, <2>3
<1>5. /\ o \in Seq(Message) /\ p \in Seq(Message)
      /\ Len(o) = n + u /\ Len(p) = n
      /\ \A i \in DOMAIN q : q[i].op \in ops => o[Upto(q, ops, i)] = q[i]
      /\ \A i \in DOMAIN t : t[i].op \in ops => p[Upto(t, ops, i)] = t[i]
  BY <1>1, <1>4, OnlyAt
<1>6. \A k \in 1 .. n : p[k] = o[k + u]
  <2> TAKE k \in 1 .. n
  <2>1. PICK i \in DOMAIN t : t[i].op \in ops /\ Upto(t, ops, i) = k
    BY <1>1, UptoOnto
  <2>2. i \in 0 .. Len(t) /\ i + 1 \in DOMAIN q /\ q[i + 1] = t[i]
    BY <1>1
  <2>3. Upto(q, ops, i + 1) = k + u
    BY <1>3, <2>1, <2>2
  <2> QED BY <1>5, <2>1, <2>2, <2>3
<1> HIDE DEF u, n, o, p
<1>7. CASE Head(q).op \notin ops
  <2>1. u = 0
    BY <1>2, <1>7
  <2>2. Len(p) = Len(o) /\ \A k \in 1 .. Len(p) : p[k] = o[k]
    BY <1>4, <1>5, <1>6, <2>1
  <2>3. p = o
    BY <1>5, <2>2
  <2> QED BY <1>7, <2>3 DEF p, o, t
<1>8. CASE Head(q).op \in ops
  <2>1. u = 1
    BY <1>2, <1>8
  <2>2. Len(o) = n + 1 /\ o # <<>>
    BY <1>4, <1>5, <2>1
  <2>3. o[1] = Head(q)
    <3>1. 0 \in 0 .. Len(t) /\ 1 \in DOMAIN q
      BY <1>1
    <3>2. Upto(q, ops, 0 + 1) = Upto(t, ops, 0) + u
      BY <1>3, <3>1
    <3>3. Upto(t, ops, 0) = 0
      BY <1>1, <3>1, UptoStep
    <3>4. Upto(q, ops, 1) = 1
      BY <2>1, <3>2, <3>3
    <3> QED BY <1>1, <1>5, <1>8, <3>1, <3>4
  <2>4. Tail(o) \in Seq(Message) /\ Len(Tail(o)) = n /\ \A k \in 1 .. n : Tail(o)[k] = o[k + 1]
    BY <1>4, <1>5, <2>2
  <2>5. \A k \in 1 .. n : Tail(o)[k] = p[k]
    BY <1>6, <2>1, <2>4
  <2>6. p = Tail(o)
    BY <1>5, <2>4, <2>5
  <2>7. Head(o) = Head(q)
    BY <1>5, <2>2, <2>3
  <2> QED BY <1>8, <2>2, <2>6, <2>7 DEF p, o, t
<1> QED BY <1>7, <1>8

LEMMA OnlyNone ==
    ASSUME NEW q \in Seq(Message), NEW ops, ~Holds(q, ops)
    PROVE  Only(q, ops) = <<>>
<1>1. Len(q) \in 0 .. Len(q) /\ {j \in 1 .. Len(q) : q[j].op \in ops} = {}
  BY DEF Holds
<1>2. Upto(q, ops, Len(q)) = 0
  BY <1>1, FS_EmptySet DEF Upto
<1> QED BY <1>2, OnlyAt

LEMMA SeqOfFunction ==
    ASSUME NEW S, NEW n \in Nat, NEW f \in [1 .. n -> S]
    PROVE  f \in Seq(S) /\ Len(f) = n
  OBVIOUS

\* The writes and the values of a channel, when a message is added ...
LEMMA UnderWayAppend ==
    ASSUME NEW q \in Seq(Message), NEW m \in Message
    PROVE  /\ Writes(q) \in Seq([op : OpCode, loc : Int, val : Int])
           /\ Writes(Append(q, m)) =
                 IF m.op \in WriteOp
                 THEN Append(Writes(q), [op |-> m.op, loc |-> m.loc, val |-> m.val])
                 ELSE Writes(q)
           /\ Values(q) \in Seq(Int)
           /\ Values(Append(q, m)) =
                 IF m.op \in ValueOp THEN Append(Values(q), m.val) ELSE Values(q)
<1> DEFINE Item == [op : OpCode, loc : Int, val : Int]
           W(x) == [op |-> x.op, loc |-> x.loc, val |-> x.val]
           V(x) == x.val
           AllW(ms) == [i \in DOMAIN ms |-> W(ms[i])]
           AllV(ms) == [i \in DOMAIN ms |-> V(ms[i])]
<1>1. \A x \in Message : W(x) \in Item /\ V(x) \in Int
  BY DEF Message
<1>2. \A x : Writes(x) = AllW(Only(x, WriteOp)) /\ Values(x) = AllV(Only(x, ValueOp))
  BY DEF Writes, Values
<1> HIDE DEF W, V, Item
<1>3. ASSUME NEW ms \in Seq(Message), NEW x \in Message
      PROVE  /\ AllW(ms) \in Seq(Item) /\ AllV(ms) \in Seq(Int)
             /\ AllW(Append(ms, x)) = Append(AllW(ms), W(x))
             /\ AllV(Append(ms, x)) = Append(AllV(ms), V(x))
  <2> DEFINE n == Len(ms)
             a == Append(ms, x)
  <2>1. /\ n \in Nat /\ DOMAIN ms = 1 .. n /\ \A i \in 1 .. n : ms[i] \in Message
        /\ a \in Seq(Message) /\ DOMAIN a = 1 .. n + 1 /\ a[n + 1] = x
        /\ \A i \in 1 .. n : a[i] = ms[i]
    OBVIOUS
  <2> HIDE DEF n, a
  <2>2. /\ AllW(ms) \in Seq(Item) /\ Len(AllW(ms)) = n
        /\ AllV(ms) \in Seq(Int) /\ Len(AllV(ms)) = n
    <3>1. AllW(ms) \in [1 .. n -> Item] /\ AllV(ms) \in [1 .. n -> Int]
      BY <1>1, <2>1
    <3> HIDE DEF AllW, AllV
    <3> QED BY <2>1, <3>1, SeqOfFunction
  <2>3. /\ AllW(a) \in Seq(Item) /\ Len(AllW(a)) = n + 1
        /\ AllV(a) \in Seq(Int) /\ Len(AllV(a)) = n + 1
    <3>1. \A i \in 1 .. n + 1 : a[i] \in Message
      BY <2>1
    <3>2. AllW(a) \in [1 .. n + 1 -> Item] /\ AllV(a) \in [1 .. n + 1 -> Int]
      BY <1>1, <2>1, <3>1
    <3> HIDE DEF AllW, AllV
    <3> QED BY <2>1, <3>2, SeqOfFunction
  <2>4. /\ \A i \in 1 .. n : AllW(a)[i] = AllW(ms)[i] /\ AllV(a)[i] = AllV(ms)[i]
        /\ AllW(a)[n + 1] = W(x) /\ AllV(a)[n + 1] = V(x)
    BY <2>1
  <2> HIDE DEF AllW, AllV
  <2>5. AllW(a) = Append(AllW(ms), W(x))
    <3> DEFINE e == Append(AllW(ms), W(x))
    <3>1. e \in Seq(Item) /\ Len(e) = n + 1
          /\ (\A i \in 1 .. n : e[i] = AllW(ms)[i]) /\ e[n + 1] = W(x)
      BY <1>1, <2>1, <2>2
    <3> HIDE DEF e
    <3>2. \A i \in 1 .. n + 1 : e[i] = AllW(a)[i]
      BY <2>1, <2>4, <3>1
    <3>3. e = AllW(a)
      BY <2>3, <3>1, <3>2
    <3> QED BY <3>3 DEF e
  <2>6. AllV(a) = Append(AllV(ms), V(x))
    <3> DEFINE e == Append(AllV(ms), V(x))
    <3>1. e \in Seq(Int) /\ Len(e) = n + 1
          /\ (\A i \in 1 .. n : e[i] = AllV(ms)[i]) /\ e[n + 1] = V(x)
      BY <1>1, <2>1, <2>2
    <3> HIDE DEF e
    <3>2. \A i \in 1 .. n + 1 : e[i] = AllV(a)[i]
      BY <2>1, <2>4, <3>1
    <3>3. e = AllV(a)
      BY <2>3, <3>1, <3>2
    <3> QED BY <3>3 DEF e
  <2> QED BY <2>2, <2>5, <2>6 DEF a
<1> HIDE DEF AllW, AllV
<1>4. \A ops : Only(q, ops) \in Seq(Message)
  BY OnlyAt
<1>5. Only(Append(q, m), WriteOp) =
         IF m.op \in WriteOp THEN Append(Only(q, WriteOp), m) ELSE Only(q, WriteOp)
  BY OnlyAppend
<1>6. Only(Append(q, m), ValueOp) =
         IF m.op \in ValueOp THEN Append(Only(q, ValueOp), m) ELSE Only(q, ValueOp)
  BY OnlyAppend
<1>7. /\ Writes(q) \in Seq(Item)
      /\ Writes(Append(q, m)) = IF m.op \in WriteOp THEN Append(Writes(q), W(m)) ELSE Writes(q)
  BY <1>2, <1>3, <1>4, <1>5
<1>8. /\ Values(q) \in Seq(Int)
      /\ Values(Append(q, m)) = IF m.op \in ValueOp THEN Append(Values(q), V(m)) ELSE Values(q)
  BY <1>2, <1>3, <1>4, <1>6
<1> QED BY <1>7, <1>8 DEF W, V, Item

\* ... and when one is taken away
LEMMA UnderWayTail ==
    ASSUME NEW q \in Seq(Message), q # <<>>
    PROVE  /\ IF Head(q).op \in WriteOp
              THEN /\ Writes(q) # <<>>
                   /\ Head(Writes(q)) = [op |-> Head(q).op,
                                         loc |-> Head(q).loc, val |-> Head(q).val]
                   /\ Writes(Tail(q)) = Tail(Writes(q))
              ELSE Writes(Tail(q)) = Writes(q)
           /\ IF Head(q).op \in ValueOp
              THEN /\ Values(q) # <<>>
                   /\ Head(Values(q)) = Head(q).val
                   /\ Values(Tail(q)) = Tail(Values(q))
              ELSE Values(Tail(q)) = Values(q)
<1> DEFINE W(x) == [op |-> x.op, loc |-> x.loc, val |-> x.val]
           V(x) == x.val
<1>1. \A x : Writes(x) = [i \in DOMAIN Only(x, WriteOp) |-> W(Only(x, WriteOp)[i])]
  BY DEF Writes
<1>2. \A x : Values(x) = [i \in DOMAIN Only(x, ValueOp) |-> V(Only(x, ValueOp)[i])]
  BY DEF Values
<1>3. \A ops : Only(q, ops) \in Seq(Message)
  BY OnlyAt
<1>4. IF Head(q).op \in WriteOp
      THEN /\ Only(q, WriteOp) # <<>>
           /\ Head(Only(q, WriteOp)) = Head(q)
           /\ Only(Tail(q), WriteOp) = Tail(Only(q, WriteOp))
      ELSE Only(Tail(q), WriteOp) = Only(q, WriteOp)
  BY OnlyTail
<1>5. IF Head(q).op \in ValueOp
      THEN /\ Only(q, ValueOp) # <<>>
           /\ Head(Only(q, ValueOp)) = Head(q)
           /\ Only(Tail(q), ValueOp) = Tail(Only(q, ValueOp))
      ELSE Only(Tail(q), ValueOp) = Only(q, ValueOp)
  BY OnlyTail
<1> HIDE DEF W, V
<1>6. \A ms \in Seq(Message) : ms # <<>> =>
         /\ [i \in DOMAIN ms |-> W(ms[i])] # <<>>
         /\ Head([i \in DOMAIN ms |-> W(ms[i])]) = W(Head(ms))
         /\ [i \in DOMAIN Tail(ms) |-> W(Tail(ms)[i])] = Tail([i \in DOMAIN ms |-> W(ms[i])])
  OBVIOUS
<1>7. \A ms \in Seq(Message) : ms # <<>> =>
         /\ [i \in DOMAIN ms |-> V(ms[i])] # <<>>
         /\ Head([i \in DOMAIN ms |-> V(ms[i])]) = V(Head(ms))
         /\ [i \in DOMAIN Tail(ms) |-> V(Tail(ms)[i])] = Tail([i \in DOMAIN ms |-> V(ms[i])])
  OBVIOUS
<1>8. IF Head(q).op \in WriteOp
      THEN /\ Writes(q) # <<>>
           /\ Head(Writes(q)) = W(Head(q))
           /\ Writes(Tail(q)) = Tail(Writes(q))
      ELSE Writes(Tail(q)) = Writes(q)
  BY <1>1, <1>3, <1>4, <1>6
<1>9. IF Head(q).op \in ValueOp
      THEN /\ Values(q) # <<>>
           /\ Head(Values(q)) = V(Head(q))
           /\ Values(Tail(q)) = Tail(Values(q))
      ELSE Values(Tail(q)) = Values(q)
  BY <1>2, <1>3, <1>5, <1>7
<1> QED BY <1>8, <1>9 DEF W, V

LEMMA UnderWayNone ==
    ASSUME NEW q \in Seq(Message)
    PROVE  /\ ~Holds(q, WriteOp) => Writes(q) = <<>>
           /\ ~Holds(q, ValueOp) => Values(q) = <<>>
  BY OnlyNone DEF Writes, Values

-----------------------------------------------------------------------------
(* The steps of OneSided in terms of the runtime *)

Item == [op : OpCode, loc : Int, val : Int]

\* The values r has read, those on their way included
Log(r) == res[r] \o Returning(r)

PendingSame == \A x, y \in Rank : Pending(x, y)' = Pending(x, y)
LogSame     == \A q \in Rank : Log(q)' = Log(q)

\* Only the writes of s to d change.
OthersPending(s, d) ==
    \A x, y \in Rank : ~(x = s /\ y = d) => Pending(x, y)' = Pending(x, y)

LEMMA MapStutter ==
    ASSUME PendingSame, LogSame, UNCHANGED <<mem, fence, held>>
    PROVE  UNCHANGED Promised!ovars
  BY DEF PendingSame, LogSame, Log, Promised!ovars

LEMMA MapPending ==
    ASSUME PendingSame
    PROVE  [s \in Rank |-> [d \in Rank |-> Pending(s, d)]]'
              = [s \in Rank |-> [d \in Rank |-> Pending(s, d)]]
  BY DEF PendingSame

LEMMA MapLog ==
    ASSUME LogSame
    PROVE  [r \in Rank |-> res[r] \o Returning(r)]' = [r \in Rank |-> res[r] \o Returning(r)]
  BY DEF LogSame, Log

Grid(P) == P = [x \in Rank |-> [y \in Rank |-> P[x][y]]]

DiffersAt(P, Q, s, d) ==
    \A x, y \in Rank : ~(x = s /\ y = d) => Q[x][y] = P[x][y]

LEMMA GridExcept ==
    ASSUME NEW P, Grid(P), NEW Q, Grid(Q), NEW s \in Rank, NEW d \in Rank,
           DiffersAt(P, Q, s, d)
    PROVE  Q = [P EXCEPT ![s][d] = Q[s][d]]
<1>0. /\ P = [x \in Rank |-> [y \in Rank |-> P[x][y]]]
      /\ Q = [x \in Rank |-> [y \in Rank |-> Q[x][y]]]
      /\ \A x, y \in Rank : ~(x = s /\ y = d) => Q[x][y] = P[x][y]
  BY DEF Grid, DiffersAt
<1> DEFINE R == [P EXCEPT ![s][d] = Q[s][d]]
<1>1. /\ R = [x \in Rank |-> R[x]]
      /\ \A x \in Rank : x # s => R[x] = P[x]
      /\ R[s] = [P[s] EXCEPT ![d] = Q[s][d]]
  BY <1>0
<1>2. R[s] = [y \in Rank |-> IF y = d THEN Q[s][d] ELSE P[s][y]]
  BY <1>0, <1>1
<1>3. \A x \in Rank : R[x] = Q[x]
  <2> TAKE x \in Rank
  <2>1. Q[x] = [y \in Rank |-> Q[x][y]] /\ P[x] = [y \in Rank |-> P[x][y]]
    BY <1>0
  <2>2. CASE x = s
    <3>1. \A y \in Rank : (IF y = d THEN Q[s][d] ELSE P[s][y]) = Q[s][y]
      BY <1>0
    <3> HIDE DEF R
    <3> QED BY <1>2, <2>1, <2>2, <3>1
  <2>3. CASE x # s
    <3>1. \A y \in Rank : Q[x][y] = P[x][y]
      BY <1>0, <2>3
    <3> HIDE DEF R
    <3> QED BY <1>1, <2>1, <2>3, <3>1
  <2> QED BY <2>2, <2>3
<1> HIDE DEF R
<1>4. R = Q
  BY <1>0, <1>1, <1>3
<1> QED BY <1>4 DEF R

LEMMA MapWrite ==
    ASSUME TypeInv, NEW s \in Rank, NEW d \in Rank, NEW w \in Item, w.op # "OP_GET",
           Pending(s, d) \in Seq(Item), Pending(s, d)' = Append(Pending(s, d), w),
           OthersPending(s, d), LogSame, UNCHANGED <<mem, held>>,
           fence' = [fence EXCEPT ![s][d] = TRUE]
    PROVE  Promised!Write(s, d)
<1> DEFINE P == [x \in Rank |-> [y \in Rank |-> Pending(x, y)]]
           Q == [x \in Rank |-> [y \in Rank |-> Pending(x, y)']]
<1>1. /\ P[s][d] = Pending(s, d) /\ Q[s][d] = Append(P[s][d], w)
      /\ Len(Q[s][d]) = Len(P[s][d]) + 1 /\ Q[s][d][Len(Q[s][d])] = w
  OBVIOUS
<1>2. Q = [P EXCEPT ![s][d] = Append(@, w)]
  <2>1. DiffersAt(P, Q, s, d)
    BY DEF OthersPending, DiffersAt
  <2>2. Grid(P) /\ Grid(Q)
    BY DEF Grid
  <2> HIDE DEF P, Q
  <2>3. Q = [P EXCEPT ![s][d] = Q[s][d]]
    BY <2>1, <2>2, GridExcept
  <2> QED BY <1>1, <2>3
<1>3. /\ fence' = [fence EXCEPT ![s] = fence'[s]]
      /\ fence'[s][d] /\ \A r \in Rank : fence[s][r] => fence'[s][r]
  <2>1. fence \in [Rank -> [Rank -> BOOLEAN]]
    BY DEF TypeInv, TypeOK
  <2>2. fence'[s] = [fence[s] EXCEPT ![d] = TRUE] /\ fence[s] \in [Rank -> BOOLEAN]
    BY <2>1
  <2>3. fence'[s][d] = TRUE /\ \A r \in Rank : r # d => fence'[s][r] = fence[s][r]
    BY <2>2
  <2>4. fence' = [fence EXCEPT ![s] = fence'[s]]
    BY <2>1, <2>2
  <2> QED BY <2>3, <2>4
<1>4. UNCHANGED [r \in Rank |-> res[r] \o Returning(r)]
  BY MapLog
<1> QED BY <1>1, <1>2, <1>3, <1>4 DEF Promised!Write, Promised!Appended, Promised!Newest,
                                        Promised!IsRead

LEMMA MapArrive ==
    ASSUME TypeInv, NEW s \in Rank, NEW d \in Rank, NEW w \in Item,
           Pending(s, d) # <<>>, Head(Pending(s, d)) = w,
           Pending(s, d)' = Tail(Pending(s, d)),
           OthersPending(s, d), LogSame, UNCHANGED <<fence, held>>,
           w.op # "OP_GET",
           mem' = [mem EXCEPT ![d][w.loc] = IF w.op = "OP_ACC" THEN @ + w.val ELSE w.val]
    PROVE  Promised!Arrive(s, d)
<1> DEFINE P == [x \in Rank |-> [y \in Rank |-> Pending(x, y)]]
           Q == [x \in Rank |-> [y \in Rank |-> Pending(x, y)']]
<1>1. /\ P[s][d] = Pending(s, d) /\ Q[s][d] = Tail(P[s][d]) /\ P[s][d] # <<>>
      /\ Head(P[s][d]) = w
  OBVIOUS
<1>2. Q = [P EXCEPT ![s][d] = Tail(@)]
  <2>1. DiffersAt(P, Q, s, d)
    BY DEF OthersPending, DiffersAt
  <2>2. Grid(P) /\ Grid(Q)
    BY DEF Grid
  <2> HIDE DEF P, Q
  <2>3. Q = [P EXCEPT ![s][d] = Q[s][d]]
    BY <2>1, <2>2, GridExcept
  <2> QED BY <1>1, <2>3
<1>3. mem' = [mem EXCEPT ![d][Head(P[s][d]).loc] = Promised!Written(@, Head(P[s][d]))]
  BY <1>1 DEF Promised!Written
<1>5. ~Promised!IsRead(Head(P[s][d]))
  BY <1>1 DEF Promised!IsRead
<1>4. UNCHANGED [r \in Rank |-> res[r] \o Returning(r)]
  BY MapLog
<1> QED BY <1>1, <1>2, <1>3, <1>4, <1>5 DEF Promised!Arrive

\* The memory of d differs at most in cell c.
MemoryAt(d, c) == mem' = [mem EXCEPT ![d][c] = mem'[d][c]]

LEMMA MapWriteNow ==
    ASSUME NEW s \in Rank, NEW d \in Rank, NEW c \in Cell, MemoryAt(d, c),
           Pending(s, d) = <<>>, PendingSame, LogSame, UNCHANGED <<fence, held>>
    PROVE  Promised!WriteNow(s, d)
<1>1. UNCHANGED [r \in Rank |-> res[r] \o Returning(r)]
  BY MapLog
<1>2. UNCHANGED [x \in Rank |-> [y \in Rank |-> Pending(x, y)]]
  BY MapPending
<1>3. [x \in Rank |-> [y \in Rank |-> Pending(x, y)]][s][d] = <<>>
  OBVIOUS
<1> QED BY <1>1, <1>2, <1>3 DEF Promised!WriteNow, MemoryAt

\* Rank s reads the value v.
Reads(s, v) ==
    /\ Log(s)' = Append(Log(s), v)
    /\ \A q \in Rank \ {s} : Log(q)' = Log(q)

LEMMA MapReads ==
    ASSUME NEW s \in Rank, NEW v, Reads(s, v)
    PROVE  [r \in Rank |-> res[r] \o Returning(r)]'
              = [[r \in Rank |-> res[r] \o Returning(r)] EXCEPT ![s] = Append(@, v)]
<1> DEFINE P == [r \in Rank |-> Log(r)]
           Q == [r \in Rank |-> Log(r)']
<1>1. Q = [P EXCEPT ![s] = Append(@, v)]
  BY DEF Reads
<1> QED BY <1>1 DEF Log

LEMMA MapRead ==
    ASSUME NEW s \in Rank, NEW d \in Rank, NEW c \in Cell, Reads(s, mem[d][c]),
           Pending(s, d) = <<>>, PendingSame, UNCHANGED <<mem, fence, held>>
    PROVE  Promised!Read(s, d)
<1> DEFINE v == mem[d][c]
<1>1. [r \in Rank |-> res[r] \o Returning(r)]'
         = [[r \in Rank |-> res[r] \o Returning(r)] EXCEPT ![s] = Append(@, v)]
  BY MapReads
<1>2. UNCHANGED [x \in Rank |-> [y \in Rank |-> Pending(x, y)]]
  BY MapPending
<1>3. [x \in Rank |-> [y \in Rank |-> Pending(x, y)]][s][d] = <<>>
  OBVIOUS
<1> QED BY <1>1, <1>2, <1>3 DEF Promised!Read

LEMMA MapReadModifyWrite ==
    ASSUME NEW s \in Rank, NEW d \in Rank, NEW c \in Cell, Reads(s, mem[d][c]),
           MemoryAt(d, c), Pending(s, d) = <<>>, PendingSame, UNCHANGED <<fence, held>>
    PROVE  Promised!ReadModifyWrite(s, d)
<1> DEFINE v == mem[d][c]
<1>1. [r \in Rank |-> res[r] \o Returning(r)]'
         = [[r \in Rank |-> res[r] \o Returning(r)] EXCEPT ![s] = Append(@, v)]
  BY MapReads
<1>2. UNCHANGED [x \in Rank |-> [y \in Rank |-> Pending(x, y)]]
  BY MapPending
<1>3. [x \in Rank |-> [y \in Rank |-> Pending(x, y)]][s][d] = <<>>
  OBVIOUS
<1> QED BY <1>1, <1>2, <1>3 DEF Promised!ReadModifyWrite, MemoryAt

LEMMA MapFence ==
    ASSUME NEW s \in Rank, PendingSame, LogSame, UNCHANGED <<mem, held>>,
           fence' = [fence EXCEPT ![s] = fence'[s]],
           \A d \in Rank : IF fence[s][d] THEN fence'[s][d] \/ Pending(s, d) = <<>>
                                          ELSE ~fence'[s][d]
    PROVE  Promised!FenceOver(s)
<1>1. UNCHANGED [r \in Rank |-> res[r] \o Returning(r)]
  BY MapLog
<1>2. UNCHANGED [x \in Rank |-> [y \in Rank |-> Pending(x, y)]]
  BY MapPending
<1>3. \A d \in Rank : [x \in Rank |-> [y \in Rank |-> Pending(x, y)]][s][d] = Pending(s, d)
  OBVIOUS
<1>4. \A d \in Rank : Pending(s, d) = <<>> => Promised!NoWrite(Pending(s, d))
  BY DEF Promised!NoWrite
<1> QED BY <1>1, <1>2, <1>3, <1>4 DEF Promised!FenceOver

LEMMA MapHeld ==
    ASSUME NEW s \in Rank, PendingSame, LogSame, UNCHANGED <<mem, fence>>,
           held' = [held EXCEPT ![s] = held'[s]]
    PROVE  /\ /\ held[s] \subseteq held'[s]
              /\ \A d \in Rank : d # s => held[d] \cap held'[s] = {}
              => Promised!Acquire(s)
           /\ held'[s] \subseteq held[s] => Promised!Release(s)
<1>1. UNCHANGED [r \in Rank |-> res[r] \o Returning(r)]
  BY MapLog
<1>2. UNCHANGED [x \in Rank |-> [y \in Rank |-> Pending(x, y)]]
  BY MapPending
<1> QED BY <1>1, <1>2 DEF Promised!Acquire, Promised!Release

-----------------------------------------------------------------------------
(* What is under way at the steps of the runtime *)

ValuesSame == \A x, y \in Rank : Values(chan'[x][y]) = Values(chan[x][y])

LEMMA NoValues ==
    ASSUME TypeInv, NEW r \in Rank, NEW d \in Rank, Open(r, d) = 0
    PROVE  Values(chan[d][r]) = <<>>
<1>1. ValueOp \subseteq ResponseOp
  BY DEF ValueOp, ResponseOp
<1>2. ~Holds(chan[d][r], ValueOp)
  BY <1>1, OpenTrace DEF Holds
<1> QED BY <1>2, ChanType, UnderWayNone

\* No value is on its way to a rank between its calls.
IdleQuiet ==
    \A r \in Rank : phase[r] = "idle" => \A d \in Rank : Values(chan[d][r]) = <<>>

LEMMA IdleNoValues == TypeInv /\ CallInv => IdleQuiet
<1> SUFFICES ASSUME TypeInv, CallInv, NEW r \in Rank, phase[r] = "idle", NEW d \in Rank
             PROVE  Values(chan[d][r]) = <<>>
  BY DEF IdleQuiet
<1>1. Open(r, d) = 0
  BY IdleOpen DEF NoneOpen
<1> QED BY <1>1, NoValues

LEMMA ToRank ==
    ASSUME TypeInv, NEW r \in Rank, phase[r] # "idle"
    PROVE  Cur(r).to \in Rank /\ Cur(r) \in Call
<1>1. pc[r] \in DOMAIN prog[r]
  BY DEF TypeInv, ControlOK
<1> QED BY <1>1, CurType DEF Call

LEMMA ReturningKept ==
    ASSUME TypeInv, TypeInv', CallInv, CallInv', NEW r \in Rank, Alone(r),
           Cur(r)' = Cur(r) \/ phase'[r] = "idle", ValuesSame
    PROVE  \A q \in Rank : Returning(q)' = Returning(q)
<1>1. IdleQuiet
  BY IdleNoValues
<1>2. \A q \in Rank : phase'[q] = "idle" => \A d \in Rank : Values(chan'[d][q]) = <<>>
  <2>1. IdleQuiet'
    BY IdleNoValues, PTL
  <2> QED BY <2>1 DEF IdleQuiet
<1> SUFFICES ASSUME NEW q \in Rank PROVE Returning(q)' = Returning(q)
  OBVIOUS
<1>3. Cur(q)' = Cur(q) \/ phase'[q] = "idle"
  BY DEF Alone, Cur
<1>4. Returning(q)' = IF phase'[q] = "idle" THEN <<>> ELSE Values(chan'[Cur(q)'.to][q])
  BY DEF Returning
<1>5. CASE phase[q] = "idle" /\ phase'[q] = "idle"
  BY <1>5 DEF Returning
<1>6. CASE phase[q] = "idle" /\ phase'[q] # "idle"
  <2>1. Cur(q)'.to \in Rank
    <3>1. pc'[q] \in DOMAIN prog'[q]
      BY <1>6 DEF TypeInv, ControlOK
    <3>2. prog' \in [Rank -> Seq(Call)]
      BY ProgramAssumption DEF TypeInv, TypeOK
    <3>3. Cur(q)' \in Call
      BY <3>1, <3>2 DEF Cur
    <3> QED BY <3>3 DEF Call
  <2>2. Values(chan'[Cur(q)'.to][q]) = <<>>
    BY <1>1, <1>6, <2>1 DEF ValuesSame, IdleQuiet
  <2> QED BY <1>4, <1>6, <2>2 DEF Returning
<1>7. CASE phase[q] # "idle" /\ phase'[q] = "idle"
  <2>1. Values(chan[Cur(q).to][q]) = <<>>
    BY <1>2, <1>7, ToRank DEF ValuesSame
  <2> QED BY <1>7, <2>1 DEF Returning
<1>8. CASE phase[q] # "idle" /\ phase'[q] # "idle"
  <2>1. Cur(q)' = Cur(q) /\ Cur(q).to \in Rank
    BY <1>3, <1>8, ToRank
  <2>2. Values(chan'[Cur(q).to][q]) = Values(chan[Cur(q).to][q])
    BY <2>1 DEF ValuesSame
  <2> QED BY <1>4, <1>8, <2>1, <2>2 DEF Returning
<1> QED BY <1>5, <1>6, <1>7, <1>8

\* What a message added to a channel does
LEMMA PushUnder ==
    ASSUME TypeInv, TypeInv', NEW r \in Rank, NEW d \in Rank, NEW m, Push(r, d, m)
    PROVE  /\ m \in Message
           /\ m.op \notin ValueOp => ValuesSame
           /\ m.op \notin WriteOp => PendingSame
           /\ m.op \in WriteOp =>
                 /\ Pending(r, d)' = Append(Pending(r, d),
                       [op |-> m.op, loc |-> m.loc, val |-> m.val])
                 /\ OthersPending(r, d)
<1>1. \A x, y \in Rank : chan'[x][y] = IF x = r /\ y = d THEN Append(chan[x][y], m) ELSE chan[x][y]
  BY PushChan
<1>2. m \in Message
  <2>1. chan'[r][d] = Append(chan[r][d], m) /\ chan[r][d] \in Seq(Message)
    BY <1>1, ChanType
  <2>2. /\ Len(chan[r][d]) + 1 \in DOMAIN Append(chan[r][d], m)
        /\ Append(chan[r][d], m)[Len(chan[r][d]) + 1] = m
    BY <2>1
  <2>3. \A i \in DOMAIN chan'[r][d] : chan'[r][d][i] \in Message
    BY ChanNext
  <2> QED BY <2>1, <2>2, <2>3
<1> DEFINE q == chan[r][d]
<1>3. /\ Writes(Append(q, m)) =
            IF m.op \in WriteOp
            THEN Append(Writes(q), [op |-> m.op, loc |-> m.loc, val |-> m.val])
            ELSE Writes(q)
      /\ Values(Append(q, m)) =
            IF m.op \in ValueOp THEN Append(Values(q), m.val) ELSE Values(q)
  BY <1>2, ChanType, UnderWayAppend
<1>4. \A x, y \in Rank : Pending(x, y)' = Writes(chan'[x][y]) /\ Pending(x, y) = Writes(chan[x][y])
  BY DEF Pending
<1>5. m.op \notin ValueOp => ValuesSame
  BY <1>1, <1>3 DEF ValuesSame
<1>6. m.op \notin WriteOp => PendingSame
  BY <1>1, <1>3, <1>4 DEF PendingSame
<1>7. m.op \in WriteOp =>
                 /\ Pending(r, d)' = Append(Pending(r, d),
                       [op |-> m.op, loc |-> m.loc, val |-> m.val])
                 /\ OthersPending(r, d)
  BY <1>1, <1>3, <1>4 DEF OthersPending
<1> QED BY <1>2, <1>5, <1>6, <1>7

LEMMA PostsUnder ==
    ASSUME TypeInv, TypeInv', NEW r \in Rank, PostsPlain(r)
    PROVE  PendingSame /\ ValuesSame
<1>1. CASE chan' = chan
  BY <1>1 DEF PendingSame, ValuesSame, Pending
<1>2. ASSUME NEW d \in Rank, NEW m, Push(r, d, m), m.op \notin WriteOp \cup ValueOp
      PROVE  PendingSame /\ ValuesSame
  BY <1>2, PushUnder
<1> QED BY <1>1, <1>2 DEF PostsPlain

\* Where a step of r takes r
Moves(r) == Alone(r) /\ (Cur(r)' = Cur(r) \/ phase'[r] = "idle")

LEMMA DataMoves ==
    ASSUME TypeInv, NEW r \in Rank, DataStep(r)
    PROVE  Moves(r)
<1>1. CASE PutSelf(r) \/ PutRemote(r) \/ AccSelf(r) \/ AccRemote(r) \/ GetSelf(r) \/ GetRemote(r)
  <2>1. PICK ops \in SUBSET DataOp, pushed \in BOOLEAN : NextBlock(r, ops) /\ BlockIssued(r, pushed)
    <3>1. /\ {"put", "putnext"} \in SUBSET DataOp /\ {"acc"} \in SUBSET DataOp
          /\ {"get"} \in SUBSET DataOp
      BY DEF DataOp
    <3> QED BY <1>1, <3>1 DEF PutSelf, PutRemote, AccSelf, AccRemote, GetSelf, GetRemote
  <2> QED BY <2>1, MovedBlock DEF Moves
<1>2. CASE WaitStart(r) \/ RmwStart(r)
  <2>1. Progress(r, "wait") /\ "wait" \in Phase \ {"idle"}
    BY <1>2 DEF WaitStart, RmwStart, Phase
  <2> QED BY <2>1, MovedOn DEF Moves
<1>3. CASE FenceStart(r) \/ FenceNext(r)
  <2>1. PICK ph \in Phase \ {"idle"} : Progress(r, ph) \/ Pushed(r, ph)
    BY <1>3 DEF FenceStart, FenceNext, SendFence, Phase
  <2> QED BY <2>1, MovedOn DEF Moves
<1>4. CASE FenceNothing(r) \/ FenceReturn(r) \/ CallReturn(r)
  BY <1>4, MovedBack DEF FenceNothing, FenceReturn, CallReturn, Moves
<1> QED BY <1>1, <1>2, <1>3, <1>4 DEF DataStep

LEMMA BarrierMoves ==
    ASSUME TypeInv, NEW r \in Rank, BarrierStep(r)
    PROVE  Moves(r)
<1>1. CASE BarrierReturn(r)
  BY <1>1, MovedBack DEF BarrierReturn, Moves
<1>2. CASE ~BarrierReturn(r)
  <2>1. PICK ph \in Phase \ {"idle"} : Progress(r, ph) \/ Proceed(r, ph) \/ Pushed(r, ph)
    BY <1>2 DEF BarrierStep, BarrierStart, BarrierSend, BarrierGathered, BarrierAnswer,
       BarrierKeep, BarrierScanned, SendRequest, Phase
  <2> QED BY <2>1, MovedOn DEF Moves
<1> QED BY <1>1, <1>2

LEMMA LocalMoves ==
    ASSUME TypeInv, NEW r \in Rank, LocalStep(r)
    PROVE  Moves(r)
<1>1. CASE MutexStep(r)
  <2>1. CASE Abort
    BY <2>1, MovedNot DEF Abort, Moves
  <2>2. CASE CreateMutexes(r) /\ ~Abort
    BY <2>2, MovedBack DEF CreateMutexes, Moves
  <2>3. CASE Lock(r) \/ Unlock(r)
    <3>1. (Progress(r, "wait") \/ Pushed(r, "wait")) /\ "wait" \in Phase \ {"idle"}
      BY <2>3 DEF Lock, Unlock, Phase
    <3> QED BY <3>1, MovedOn DEF Moves
  <2>4. CASE LockReturn(r) \/ DestroyReturn(r)
    BY <2>4, MovedBack DEF LockReturn, DestroyReturn, Moves
  <2> QED BY <1>1, <2>1, <2>2, <2>3, <2>4 DEF MutexStep
<1>2. CASE MemoryStep(r)
  <2>1. CASE LocalSegment(r) \/ GatherReturn(r)
    BY <2>1, MovedBack DEF LocalSegment, GatherReturn, Moves
  <2>2. CASE GatherStart(r)
    BY <2>2, MovedOn DEF GatherStart, Phase, Moves
  <2> QED BY <1>2, <2>1, <2>2 DEF MemoryStep
<1> QED BY <1>1, <1>2, DataMoves, BarrierMoves DEF LocalStep

\* What a receive takes from a channel
LEMMA TakenUnder ==
    ASSUME TypeInv, NEW r \in Rank, NEW s \in Rank, chan[s][r] # <<>>,
           NEW h, h = Head(chan[s][r]), NEW x \in Rank, NEW y \in Rank
    PROVE  /\ Taken(r, s)[x][y] \in Seq(Message)
           /\ Writes(Taken(r, s)[x][y]) =
                 IF x = s /\ y = r /\ h.op \in WriteOp
                 THEN Tail(Writes(chan[x][y])) ELSE Writes(chan[x][y])
           /\ Values(Taken(r, s)[x][y]) =
                 IF x = s /\ y = r /\ h.op \in ValueOp
                 THEN Tail(Values(chan[x][y])) ELSE Values(chan[x][y])
<1>1. Taken(r, s)[x][y] = IF x = s /\ y = r THEN Tail(chan[x][y]) ELSE chan[x][y]
  BY TakenChan
<1>2. CASE x = s /\ y = r
  <2>1. chan[x][y] \in Seq(Message) /\ chan[x][y] # <<>> /\ h = Head(chan[x][y])
    BY <1>2, ChanType
  <2>2. Taken(r, s)[x][y] = Tail(chan[x][y]) /\ Tail(chan[x][y]) \in Seq(Message)
    BY <1>1, <1>2, <2>1, HeadTailProperties
  <2> QED BY <1>2, <2>1, <2>2, UnderWayTail
<1>3. CASE ~(x = s /\ y = r)
  BY <1>1, <1>3, ChanType
<1> QED BY <1>2, <1>3

\* Only the values of s for d change.
OthersValues(s, d) ==
    \A x, y \in Rank : ~(x = s /\ y = d) => Values(chan'[x][y]) = Values(chan[x][y])

LEMMA ConsumeUnder ==
    ASSUME TypeInv, NEW r \in Rank, NEW s \in Rank, chan[s][r] # <<>>,
           NEW h, h = Head(chan[s][r]), Consume(r, s)
    PROVE  /\ h \in Message
           /\ h.op \notin WriteOp => PendingSame
           /\ h.op \in WriteOp =>
                 /\ Pending(s, r) # <<>>
                 /\ Head(Pending(s, r)) = [op |-> h.op, loc |-> h.loc, val |-> h.val]
                 /\ Pending(s, r)' = Tail(Pending(s, r))
                 /\ OthersPending(s, r)
           /\ h.op \notin ValueOp => ValuesSame
           /\ h.op \in ValueOp =>
                 /\ Values(chan[s][r]) # <<>> /\ Head(Values(chan[s][r])) = h.val
                 /\ Values(chan'[s][r]) = Tail(Values(chan[s][r]))
                 /\ OthersValues(s, r)
<1>1. chan' = Taken(r, s)
  BY DEF Consume
<1>2. \A x, y \in Rank :
         /\ Writes(chan'[x][y]) = IF x = s /\ y = r /\ h.op \in WriteOp
                                  THEN Tail(Writes(chan[x][y])) ELSE Writes(chan[x][y])
         /\ Values(chan'[x][y]) = IF x = s /\ y = r /\ h.op \in ValueOp
                                  THEN Tail(Values(chan[x][y])) ELSE Values(chan[x][y])
  BY <1>1, TakenUnder
<1>3. \A x, y \in Rank : Pending(x, y)' = Writes(chan'[x][y]) /\ Pending(x, y) = Writes(chan[x][y])
  BY DEF Pending
<1>4. chan[s][r] \in Seq(Message) /\ h \in Message
  BY HeadType
<1>5. /\ h.op \in WriteOp => /\ Writes(chan[s][r]) # <<>>
                             /\ Head(Writes(chan[s][r])) =
                                   [op |-> h.op, loc |-> h.loc, val |-> h.val]
      /\ h.op \in ValueOp => Values(chan[s][r]) # <<>> /\ Head(Values(chan[s][r])) = h.val
  BY <1>4, UnderWayTail
<1>6. h.op \notin WriteOp => PendingSame
  BY <1>2, <1>3 DEF PendingSame
<1>7. h.op \in WriteOp => OthersPending(s, r) /\ Pending(s, r)' = Tail(Pending(s, r))
  <2> SUFFICES ASSUME h.op \in WriteOp
               PROVE  OthersPending(s, r) /\ Pending(s, r)' = Tail(Pending(s, r))
    OBVIOUS
  <2>1. Pending(s, r)' = Tail(Pending(s, r))
    BY <1>2, <1>3
  <2>2. ASSUME NEW x \in Rank, NEW y \in Rank, ~(x = s /\ y = r)
        PROVE  Pending(x, y)' = Pending(x, y)
    BY <1>2, <1>3, <2>2
  <2> QED BY <2>1, <2>2 DEF OthersPending
<1>8. h.op \notin ValueOp => ValuesSame
  BY <1>2 DEF ValuesSame
<1>9. h.op \in ValueOp =>
         OthersValues(s, r) /\ Values(chan'[s][r]) = Tail(Values(chan[s][r]))
  BY <1>2 DEF OthersValues
<1> QED BY <1>3, <1>4, <1>5, <1>6, <1>7, <1>8, <1>9

LEMMA AnswerUnder ==
    ASSUME TypeInv, TypeInv', NEW r \in Rank, NEW s \in Rank, chan[s][r] # <<>>,
           Head(chan[s][r]).op \notin WriteOp \cup ValueOp,
           NEW d \in Rank, NEW m, Answer(r, s, d, m), m.op \notin WriteOp
    PROVE  /\ PendingSame
           /\ m.op \notin ValueOp => ValuesSame
           /\ m.op \in ValueOp =>
                 /\ Values(chan'[r][d]) = Append(Values(chan[r][d]), m.val)
                 /\ OthersValues(r, d)
<1> DEFINE T(x, y) == Taken(r, s)[x][y]
<1>1. \A x, y \in Rank :
         /\ T(x, y) \in Seq(Message)
         /\ Writes(T(x, y)) = Writes(chan[x][y])
         /\ Values(T(x, y)) = Values(chan[x][y])
  BY TakenUnder
<1>2. \A x, y \in Rank : chan'[x][y] = IF x = r /\ y = d THEN Append(T(x, y), m) ELSE T(x, y)
  BY AnswerChan
<1> HIDE DEF T
<1>3. m \in Message
  <2>1. chan'[r][d] = Append(T(r, d), m) /\ T(r, d) \in Seq(Message)
    BY <1>1, <1>2
  <2>2. /\ Len(T(r, d)) + 1 \in DOMAIN Append(T(r, d), m)
        /\ Append(T(r, d), m)[Len(T(r, d)) + 1] = m
    BY <2>1
  <2>3. \A i \in DOMAIN chan'[r][d] : chan'[r][d][i] \in Message
    BY ChanNext
  <2> QED BY <2>1, <2>2, <2>3
<1>4. /\ Writes(Append(T(r, d), m)) = Writes(T(r, d))
      /\ Values(Append(T(r, d), m)) =
            IF m.op \in ValueOp THEN Append(Values(T(r, d)), m.val) ELSE Values(T(r, d))
  BY <1>1, <1>3, UnderWayAppend
<1>5. \A x, y \in Rank : Pending(x, y)' = Writes(chan'[x][y]) /\ Pending(x, y) = Writes(chan[x][y])
  BY DEF Pending
<1>6. \A x, y \in Rank :
         /\ Writes(chan'[x][y]) = Writes(chan[x][y])
         /\ Values(chan'[x][y]) = IF x = r /\ y = d /\ m.op \in ValueOp
                                  THEN Append(Values(chan[x][y]), m.val) ELSE Values(chan[x][y])
  BY <1>1, <1>2, <1>4
<1>7. PendingSame
  BY <1>5, <1>6 DEF PendingSame
<1>8. m.op \notin ValueOp => ValuesSame
  BY <1>6 DEF ValuesSame
<1> QED BY <1>6, <1>7, <1>8 DEF OthersValues

LEMMA MuteUnder ==
    ASSUME TypeInv, TypeInv', NEW r \in Rank, NEW s \in Rank, AnswersMute(r, s)
    PROVE  PendingSame /\ ValuesSame
<1>1. chan[s][r] # <<>> /\ Head(chan[s][r]).op \notin WriteOp \cup ValueOp
  BY DEF AnswersMute
<1>2. CASE Consume(r, s)
  BY <1>1, <1>2, ConsumeUnder
<1>3. ASSUME NEW d \in Rank, NEW m, Answer(r, s, d, m), m.op \notin WriteOp \cup ValueOp
      PROVE  PendingSame /\ ValuesSame
  BY <1>1, <1>3, AnswerUnder
<1> QED BY <1>2, <1>3 DEF AnswersMute

\* A get or rmw in progress is answered by its target alone.
LEMMA AnsweredByTarget ==
    ASSUME TypeInv, CallInv, NEW r \in Rank, NEW p \in Rank, Open(r, p) # 0,
           In(r, {"get"}) \/ In(r, RmwOp)
    PROVE  phase[r] # "idle" /\ Cur(r).to = p
<1>1. CASE In(r, {"get"})
  BY <1>1 DEF CallInv, Counted, GetCounted, In
<1>2. CASE In(r, RmwOp)
  <2>1. In(r, {"lock"} \cup RmwOp)
    BY <1>2 DEF In
  <2> QED BY <1>2, <2>1 DEF CallInv, Counted, NotifyCounted, In
<1> QED BY <1>1, <1>2

LEMMA JoinAppend ==
    ASSUME NEW a \in Seq(Int), NEW b \in Seq(Int), NEW v \in Int
    PROVE  a \o Append(b, v) = Append(a \o b, v)
<1> DEFINE x == a \o Append(b, v)
           y == Append(a \o b, v)
<1>1. x \in Seq(Int) /\ y \in Seq(Int) /\ Len(x) = Len(y) /\ Len(x) = Len(a) + Len(b) + 1
  OBVIOUS
<1>2. \A i \in 1 .. Len(x) : x[i] = y[i]
  OBVIOUS
<1> HIDE DEF x, y
<1>3. x = y
  BY <1>1, <1>2, SeqEqual
<1> QED BY <1>3 DEF x, y

\* A request of s for a value reaches r when nothing s wrote is under way;
\* the answer is one more value on its way to s.
LEMMA ServedReads ==
    ASSUME TypeInv, TypeInv', CallInv, CallInv', FenceInv, NEW r \in Rank, NEW s \in Rank,
           NEW h, h = Head(chan[s][r]), chan[s][r] # <<>>,
           h.op \in {"OP_GET_REQUEST"} \cup RmwRequest,
           NEW m, m.op \in ValueOp, Answer(r, s, s, m), UNCHANGED <<control, res>>
    PROVE  Pending(s, r) = <<>> /\ PendingSame /\ Reads(s, m.val)
<1>1. h.op \in RequestOp /\ Caller(h.op) \in {{"get"}, RmwOp}
  BY DEF RequestOp, Caller, RmwRequest, RmwResponse
<1>2. h.op \notin WriteOp \cup ValueOp
  BY DEF WriteOp, ValueOp, RmwRequest
<1>3. phase[s] # "idle" /\ Cur(s).to = r
  <2>1. Present(s, h.call, Caller(h.op)) /\ Open(s, r) # 0
    BY <1>1, HeadPresent
  <2> QED BY <1>1, <2>1, AnsweredByTarget DEF Present
<1>4. Pending(s, r) = <<>>
  <2>1. \A i \in DOMAIN chan[s][r] : 1 \in DOMAIN chan[s][r] /\ chan[s][r][1] = h /\ (i = 1 \/ 1 < i)
    BY ChanType
  <2>2. WritesAhead(chan[s][r])
    BY DEF FenceInv
  <2>3. ~Holds(chan[s][r], WriteOp)
    BY <1>1, <1>2, <2>1, <2>2 DEF WritesAhead, Holds
  <2> QED BY <2>3, ChanType, UnderWayNone DEF Pending
<1>5. m.op \notin WriteOp
  BY DEF ValueOp, WriteOp
<1>6. PendingSame /\ OthersValues(r, s)
      /\ Values(chan'[r][s]) = Append(Values(chan[r][s]), m.val)
  BY <1>2, <1>5, AnswerUnder
<1>7. \A q \in Rank : phase'[q] = phase[q] /\ Cur(q)' = Cur(q) /\ res'[q] = res[q]
  BY DEF control, Cur
<1>8. Log(s)' = Append(Log(s), m.val)
  <2>1. Returning(s) = Values(chan[r][s]) /\ Returning(s)' = Values(chan'[r][s])
    BY <1>3, <1>7 DEF Returning
  <2>2. res[s] \in Seq(Int) /\ Values(chan[r][s]) \in Seq(Int) /\ m.val \in Int
    <3>1. m \in Message
      <4>1. \A i \in DOMAIN chan'[r][s] : chan'[r][s][i] \in Message
        BY ChanNext
      <4> DEFINE t == Taken(r, s)[r][s]
      <4>2. chan'[r][s] = Append(t, m) /\ t \in Seq(Message)
        <5>1. \A x, y \in Rank :
                 /\ Taken(r, s)[x][y] \in Seq(Message)
                 /\ chan'[x][y] = IF x = r /\ y = s THEN Append(Taken(r, s)[x][y], m)
                                                    ELSE Taken(r, s)[x][y]
          BY AnswerChan
        <5> QED BY <5>1
      <4> HIDE DEF t
      <4>3. Len(t) + 1 \in DOMAIN Append(t, m) /\ Append(t, m)[Len(t) + 1] = m
        BY <4>2
      <4> QED BY <4>1, <4>2, <4>3
    <3> QED BY <3>1, ChanType, UnderWayAppend DEF TypeInv, TypeOK, Message
  <2>3. res[s] \o Append(Values(chan[r][s]), m.val) = Append(res[s] \o Values(chan[r][s]), m.val)
    BY <2>2, JoinAppend
  <2>4. Log(s)' = res[s] \o Returning(s)'
    BY <1>7 DEF Log
  <2> QED BY <1>6, <2>1, <2>3, <2>4 DEF Log
<1>9. ASSUME NEW q \in Rank \ {s} PROVE Log(q)' = Log(q)
  <2>1. phase[q] # "idle" => Cur(q).to \in Rank
    BY ToRank
  <2>2. Returning(q)' = Returning(q)
    BY <1>6, <1>7, <2>1 DEF Returning, OthersValues
  <2> QED BY <1>7, <2>2 DEF Log
<1> QED BY <1>4, <1>6, <1>8, <1>9 DEF Reads

\* When r takes a value from a channel, what it has read with what is on its
\* way stays the same.
LEMMA TakenReads ==
    ASSUME TypeInv, CallInv, NEW r \in Rank, NEW s \in Rank,
           NEW h, h = Head(chan[s][r]), chan[s][r] # <<>>, h.op \in ValueOp, Consume(r, s),
           res' = [res EXCEPT ![r] = Append(@, h.val)], UNCHANGED control
    PROVE  PendingSame /\ LogSame
<1>1. h.op \in ResponseOp /\ Caller(h.op) \in {{"get"}, RmwOp} /\ h.op \notin WriteOp
  BY DEF ValueOp, ResponseOp, Caller, RmwRequest, RmwResponse, WriteOp
<1>2. phase[r] # "idle" /\ Cur(r).to = s
  <2>1. Present(r, h.call, Caller(h.op)) /\ Open(r, s) # 0
    BY <1>1, HeadPresent
  <2> QED BY <1>1, <2>1, AnsweredByTarget DEF Present
<1>3. /\ PendingSame /\ OthersValues(s, r) /\ h \in Message
      /\ Values(chan[s][r]) # <<>> /\ Head(Values(chan[s][r])) = h.val
      /\ Values(chan'[s][r]) = Tail(Values(chan[s][r]))
  BY <1>1, ConsumeUnder
<1>4. \A q \in Rank : phase'[q] = phase[q] /\ Cur(q)' = Cur(q)
  BY DEF control, Cur
<1>5. /\ res \in [Rank -> Seq(Int)]
      /\ \A q \in Rank \ {r} : res'[q] = res[q]
      /\ res'[r] = Append(res[r], h.val)
  BY DEF TypeInv, TypeOK
<1>6. Log(r)' = Log(r)
  <2> DEFINE V == Values(chan[s][r])
  <2>1. Returning(r) = V /\ Returning(r)' = Values(chan'[s][r])
    BY <1>2, <1>4 DEF Returning
  <2>2. res[r] \in Seq(Int) /\ V \in Seq(Int) /\ V # <<>> /\ h.val = Head(V)
    BY <1>3, <1>5, ChanType, UnderWayAppend
  <2> HIDE DEF V
  <2>3. Append(res[r], Head(V)) \o Tail(V) = res[r] \o V
    BY <2>2
  <2>4. Log(r)' = res'[r] \o Returning(r)'
    BY DEF Log
  <2> QED BY <1>3, <1>5, <2>1, <2>2, <2>3, <2>4 DEF Log, V
<1>7. ASSUME NEW q \in Rank \ {r} PROVE Log(q)' = Log(q)
  <2>1. phase[q] # "idle" => Cur(q).to \in Rank
    BY ToRank
  <2>2. Returning(q)' = Returning(q)
    BY <1>3, <1>4, <2>1 DEF Returning, OthersValues
  <2> QED BY <1>5, <2>2 DEF Log
<1> QED BY <1>3, <1>6, <1>7 DEF LogSame

LEMMA ControlLog ==
    ASSUME TypeInv, ValuesSame, UNCHANGED <<control, res>>
    PROVE  LogSame
<1> SUFFICES ASSUME NEW q \in Rank PROVE Log(q)' = Log(q)
  BY DEF LogSame
<1>1. phase'[q] = phase[q] /\ Cur(q)' = Cur(q) /\ res'[q] = res[q]
  BY DEF control, Cur
<1>2. phase[q] # "idle" => Cur(q).to \in Rank
  BY ToRank
<1>3. Returning(q)' = Returning(q)
  BY <1>1, <1>2 DEF Returning, ValuesSame
<1> QED BY <1>1, <1>3 DEF Log

-----------------------------------------------------------------------------
(* The steps of a rank *)

LEMMA LocalLog ==
    ASSUME TypeInv, TypeInv', CallInv, CallInv', NEW r \in Rank, Moves(r), ValuesSame,
           res' = res
    PROVE  LogSame
<1>1. \A q \in Rank : Returning(q)' = Returning(q)
  BY ReturningKept DEF Moves
<1> QED BY <1>1 DEF LogSame, Log

LEMMA DoesStep == ASSUME NEW r \in Rank, DataStep(r) PROVE LocalStep(r)
  BY DEF LocalStep

\* A put or accumulate to another rank
LEMMA WriteStep ==
    ASSUME TypeInv, TypeInv', CallInv, CallInv', NEW r \in Rank, PutRemote(r) \/ AccRemote(r)
    PROVE  \E d \in Rank : Promised!Write(r, d)
<1>1. PICK op \in WriteOp, v \in Int :
         /\ Push(r, Cur(r).to, Msg(op, step[r], v, pc[r]))
         /\ fence' = [fence EXCEPT ![r][Cur(r).to] = TRUE]
         /\ UNCHANGED <<locks, memory>>
  <2>1. CASE PutRemote(r)
    <3>1. Push(r, Cur(r).to, Msg("OP_PUT", step[r], PutValue(r), pc[r]))
      BY <2>1 DEF PutRemote
    <3>2. PutValue(r) \in Int
      BY <2>1, BlockType, PutValueType DEF PutRemote, DataOp
    <3> QED BY <2>1, <3>1, <3>2 DEF PutRemote, WriteOp
  <2>2. CASE AccRemote(r)
    <3>1. Cur(r).val \in Int
      BY <2>2, BlockType DEF AccRemote, DataOp, Call
    <3> QED BY <2>2, <3>1 DEF AccRemote, WriteOp
  <2> QED BY <2>1, <2>2
<1>2. PICK d \in Rank : d = Cur(r).to
  BY BlockType DEF PutRemote, AccRemote, DataOp, Call
<1>3. PICK m : /\ m = Msg(op, step[r], v, pc[r]) /\ m.op = op /\ m.loc = step[r] /\ m.val = v
               /\ op \in WriteOp /\ op \notin ValueOp
  <2> DEFINE x == Msg(op, step[r], v, pc[r])
  <2>1. x.op = op /\ x.loc = step[r] /\ x.val = v
    BY DEF Msg
  <2>2. op \in WriteOp /\ op \notin ValueOp
    BY DEF WriteOp, ValueOp
  <2> HIDE DEF x
  <2> QED BY <2>1, <2>2 DEF x
<1>4. Push(r, d, m)
  BY <1>1, <1>2, <1>3
<1>5. PICK w \in Item : w = [op |-> m.op, loc |-> m.loc, val |-> m.val]
  <2>1. step[r] \in Int /\ op \in OpCode
    BY DEF TypeInv, TypeOK, WriteOp, OpCode
  <2> DEFINE x == [op |-> m.op, loc |-> m.loc, val |-> m.val]
  <2>2. x \in Item
    BY <1>3, <2>1 DEF Item
  <2> HIDE DEF x
  <2> QED BY <2>2 DEF x
<1>6. ValuesSame /\ OthersPending(r, d) /\ Pending(r, d)' = Append(Pending(r, d), w)
  BY <1>3, <1>4, <1>5, PushUnder
<1>7. Pending(r, d) \in Seq(Item)
  <2>1. chan[r][d] \in Seq(Message) /\ m \in Message
    BY <1>4, ChanType, PushUnder
  <2>2. Writes(chan[r][d]) \in Seq(Item)
    BY <2>1, UnderWayAppend DEF Item
  <2> QED BY <2>2 DEF Pending
<1>8. LogSame
  <2>1. Moves(r) /\ res' = res
    BY <1>1, DataMoves DEF DataStep, memory
  <2> QED BY <1>6, <2>1, LocalLog
<1>9. UNCHANGED <<mem, held>> /\ fence' = [fence EXCEPT ![r][d] = TRUE]
  BY <1>1, <1>2 DEF memory, locks
<1>10. Promised!Write(r, d)
  <2>1. w.op # "OP_GET"
    BY <1>3, <1>5 DEF WriteOp
  <2> QED BY <1>6, <1>7, <1>8, <1>9, <2>1, MapWrite
<1> QED BY <1>10

\* Of a rank to itself nothing is pending.
LEMMA OwnPending ==
    ASSUME TypeInv, FenceInv, NEW r \in Rank
    PROVE  Pending(r, r) = <<>>
<1>1. ~Holds(chan[r][r], WriteOp)
  BY DEF FenceInv
<1> QED BY <1>1, ChanType, UnderWayNone DEF Pending

LEMMA ChanSame ==
    ASSUME chan' = chan
    PROVE  PendingSame /\ ValuesSame
  BY DEF PendingSame, ValuesSame, Pending

LEMMA MemoryExcept ==
    ASSUME TypeInv, NEW d \in Rank, NEW c \in Cell, NEW v, mem' = [mem EXCEPT ![d][c] = v]
    PROVE  MemoryAt(d, c)
<1>1. mem'[d][c] = v
  BY DEF TypeInv, TypeOK
<1> QED BY <1>1 DEF MemoryAt

\* A put or accumulate of a rank to itself
LEMMA OwnWriteStep ==
    ASSUME TypeInv, TypeInv', CallInv, CallInv', FenceInv, NEW r \in Rank,
           PutSelf(r) \/ AccSelf(r)
    PROVE  Promised!WriteNow(r, r)
<1>1. step[r] \in Cell
  BY BlockType DEF PutSelf, AccSelf, DataOp
<1>2. PICK v : mem' = [mem EXCEPT ![r][step[r]] = v]
  BY DEF PutSelf, AccSelf
<1>3. MemoryAt(r, step[r])
  BY <1>1, <1>2, MemoryExcept
<1>4. chan' = chan /\ res' = res /\ fence' = fence /\ held' = held
  BY DEF PutSelf, AccSelf, locks
<1>5. Moves(r)
  BY DataMoves DEF DataStep
<1>6. PendingSame /\ LogSame
  BY <1>4, <1>5, ChanSame, LocalLog
<1> QED BY <1>1, <1>3, <1>4, <1>6, OwnPending, MapWriteNow

\* A get of a rank from itself
LEMMA OwnReadStep ==
    ASSUME TypeInv, TypeInv', CallInv, CallInv', FenceInv, NEW r \in Rank, GetSelf(r)
    PROVE  Promised!Read(r, r)
<1>1. /\ step[r] \in Cell /\ Cur(r) \in Call /\ Cur(r).op = "get" /\ Cur(r).to = r
      /\ pc[r] \in DOMAIN prog[r]
  BY BlockType DEF GetSelf, DataOp
<1> DEFINE v == mem[r][step[r]]
<1>2. /\ chan' = chan /\ mem' = mem /\ fence' = fence /\ held' = held
      /\ res' = [res EXCEPT ![r] = Append(@, v)]
  BY DEF GetSelf, locks
<1>3. Moves(r) /\ PendingSame /\ ValuesSame
  BY <1>2, DataMoves, ChanSame DEF DataStep
<1>4. \A q \in Rank : Returning(q)' = Returning(q)
  BY <1>3, ReturningKept DEF Moves
<1>5. Returning(r) = <<>>
  <2>1. CASE phase[r] = "idle"
    BY <2>1 DEF Returning
  <2>2. CASE phase[r] # "idle"
    <3>1. In(r, {"get"})
      BY <1>1, <2>2 DEF In
    <3>2. Open(r, r) = 0
      BY <1>1, <3>1 DEF CallInv, Counted, GetCounted
    <3> QED BY <1>1, <2>2, <3>2, NoValues DEF Returning
  <2> QED BY <2>1, <2>2
<1>6. res \in [Rank -> Seq(Int)] /\ v \in Int
  BY <1>1 DEF TypeInv, TypeOK
<1> HIDE DEF v
<1>7. Reads(r, v)
  <2>1. /\ res'[r] = Append(res[r], v) /\ res[r] \in Seq(Int)
        /\ \A q \in Rank \ {r} : res'[q] = res[q]
    BY <1>2, <1>6
  <2>2. Log(r)' = Append(Log(r), v)
    <3>1. Log(r)' = Append(res[r], v) \o <<>> /\ Log(r) = res[r] \o <<>>
      BY <1>4, <1>5, <2>1 DEF Log
    <3>2. Append(res[r], v) \in Seq(Int)
      BY <1>6, <2>1
    <3> QED BY <2>1, <3>1, <3>2, ConcatEmptySeq
  <2>3. \A q \in Rank \ {r} : Log(q)' = Log(q)
    BY <1>4, <2>1 DEF Log
  <2> QED BY <2>2, <2>3 DEF Reads
<1>8. Reads(r, mem[r][step[r]])
  BY <1>7 DEF v
<1> QED BY <1>1, <1>2, <1>3, <1>8, OwnPending, MapRead

\* comex_lock returns: nobody else holds the mutex, or exclusion would fail.
LEMMA AcquireStep ==
    ASSUME TypeInv, TypeInv', CallInv, CallInv', LockInv', NEW r \in Rank, LockReturn(r)
    PROVE  Promised!Acquire(r)
<1>1. /\ held' = [held EXCEPT ![r] = @ \cup {<<Cur(r).to, Cur(r).loc>>}]
      /\ chan' = chan /\ UNCHANGED <<mem, fence, res>>
  BY DEF LockReturn, memory
<1>2. Moves(r) /\ PendingSame /\ ValuesSame
  BY <1>1, MovedBack, ChanSame DEF LockReturn, Moves
<1>3. LogSame
  BY <1>1, <1>2, LocalLog
<1>4. held \in [Rank -> SUBSET (Rank \X Nat)]
  BY DEF TypeInv, TypeOK
<1>5. /\ held' = [held EXCEPT ![r] = held'[r]] /\ held[r] \subseteq held'[r]
      /\ \A d \in Rank : d # r => held'[d] = held[d]
  BY <1>1, <1>4
<1>6. MutualExclusion'
  BY HeldExclusion, PTL
<1>7. \A d \in Rank : d # r => held[d] \cap held'[r] = {}
  BY <1>5, <1>6 DEF MutualExclusion
<1> QED BY <1>1, <1>2, <1>3, <1>5, <1>7, MapHeld

LEMMA ReleaseStep ==
    ASSUME TypeInv, TypeInv', CallInv, CallInv', NEW r \in Rank, Unlock(r)
    PROVE  Promised!Release(r)
<1>1. /\ held' = [held EXCEPT ![r] = @ \ {<<Cur(r).to, Cur(r).loc>>}]
      /\ UNCHANGED <<mem, fence, res>>
  BY DEF Unlock, memory
<1>2. Moves(r)
  <2>1. Pushed(r, "wait") /\ "wait" \in Phase \ {"idle"}
    BY DEF Unlock, Phase
  <2> QED BY <2>1, MovedOn DEF Moves
<1>3. PostsPlain(r)
  BY MutexPosts DEF MutexStep
<1>4. PendingSame /\ ValuesSame
  BY <1>3, PostsUnder
<1>5. LogSame
  BY <1>1, <1>2, <1>4, LocalLog
<1>6. held \in [Rank -> SUBSET (Rank \X Nat)]
  BY DEF TypeInv, TypeOK
<1>7. held' = [held EXCEPT ![r] = held'[r]] /\ held'[r] \subseteq held[r]
  BY <1>1, <1>6
<1> QED BY <1>1, <1>4, <1>5, <1>7, MapHeld

\* A fence returns when the writes to the ranks it covers have arrived.
LEMMA FenceStep ==
    ASSUME TypeInv, TypeInv', CallInv, CallInv', FenceInv, NEW r \in Rank, FenceReturn(r)
    PROVE  Promised!FenceOver(r)
<1>1. /\ fence' = [fence EXCEPT ![r] = [p \in Rank |-> fence[r][p] /\ p \notin Cur(r).grp]]
      /\ chan' = chan /\ UNCHANGED <<mem, held, res>>
  BY DEF FenceReturn, memory, locks
<1>2. Moves(r) /\ PendingSame /\ ValuesSame
  BY <1>1, MovedBack, ChanSame DEF FenceReturn, Moves
<1>3. LogSame
  BY <1>1, <1>2, LocalLog
<1>4. fence \in [Rank -> [Rank -> BOOLEAN]]
  BY DEF TypeInv, TypeOK
<1>5. fence'[r] = [p \in Rank |-> fence[r][p] /\ p \notin Cur(r).grp]
  BY <1>1, <1>4
<1>6. fence' = [fence EXCEPT ![r] = fence'[r]]
  BY <1>1, <1>5
<1>7. ASSUME NEW d \in Rank
      PROVE  IF fence[r][d] THEN fence'[r][d] \/ Pending(r, d) = <<>> ELSE ~fence'[r][d]
  <2>1. fence'[r][d] <=> fence[r][d] /\ d \notin Cur(r).grp
    BY <1>5
  <2>2. d \in Cur(r).grp => Pending(r, d) = <<>>
    BY FenceReturned, ChanType, UnderWayNone DEF Pending
  <2> QED BY <2>1, <2>2
<1> QED BY <1>1, <1>2, <1>3, <1>6, <1>7, MapFence

\* All other steps of a rank are its own business.
LEMMA LocalOwn ==
    ASSUME TypeInv, NEW r \in Rank, LocalStep(r)
    PROVE  \/ PutRemote(r) \/ AccRemote(r) \/ PutSelf(r) \/ AccSelf(r) \/ GetSelf(r)
           \/ LockReturn(r) \/ Unlock(r) \/ FenceReturn(r)
           \/ UNCHANGED <<mem, res, fence, held>>
<1>1. CASE DataStep(r)
  BY <1>1 DEF DataStep, GetRemote, WaitStart, RmwStart, FenceNothing, FenceStart, FenceNext,
     CallReturn, memory, locks
<1>2. CASE BarrierStep(r)
  BY <1>2 DEF BarrierStep, BarrierStart, BarrierSend, BarrierGathered, BarrierAnswer,
     BarrierKeep, BarrierScanned, BarrierReturn, memory, locks
<1>3. CASE MutexStep(r)
  BY <1>3 DEF MutexStep, CreateMutexes, Lock, DestroyReturn, Abort, memory, locks
<1>4. CASE MemoryStep(r)
  BY <1>4 DEF MemoryStep, LocalSegment, GatherStart, GatherReturn, memory, locks
<1> QED BY <1>1, <1>2, <1>3, <1>4 DEF LocalStep

LEMMA LocalPromise ==
    ASSUME TypeInv, TypeInv', LockInv', CallInv, CallInv', FenceInv, NEW r \in Rank, LocalStep(r)
    PROVE  [Promised!ONext]_(Promised!ovars)
<1>1. CASE PutRemote(r) \/ AccRemote(r)
  BY <1>1, WriteStep DEF Promised!ONext
<1>2. CASE PutSelf(r) \/ AccSelf(r)
  BY <1>2, OwnWriteStep DEF Promised!ONext
<1>3. CASE GetSelf(r)
  BY <1>3, OwnReadStep DEF Promised!ONext
<1>4. CASE LockReturn(r)
  BY <1>4, AcquireStep DEF Promised!ONext
<1>5. CASE Unlock(r)
  BY <1>5, ReleaseStep DEF Promised!ONext
<1>6. CASE FenceReturn(r)
  BY <1>6, FenceStep DEF Promised!ONext
<1>7. CASE UNCHANGED <<mem, res, fence, held>> /\ ~(PutRemote(r) \/ AccRemote(r))
  <2>1. PostsPlain(r)
    BY <1>7, LocalPosts
  <2>2. PendingSame /\ ValuesSame
    BY <2>1, PostsUnder
  <2>3. LogSame
    BY <1>7, <2>2, LocalMoves, LocalLog
  <2> QED BY <1>7, <2>2, <2>3, MapStutter
<1> QED BY <1>1, <1>2, <1>3, <1>4, <1>5, <1>6, <1>7, LocalOwn

-----------------------------------------------------------------------------
(* The handlers *)

LEMMA ArriveStep ==
    ASSUME TypeInv, NEW r \in Rank, NEW s \in Rank, PutHandler(r, s) \/ AccHandler(r, s)
    PROVE  Promised!Arrive(s, r)
<1>1. PICK h : h = Head(chan[s][r])
  OBVIOUS
<1>2. /\ chan[s][r] # <<>> /\ h.op \in WriteOp /\ h.op \notin ValueOp /\ Consume(r, s)
      /\ UNCHANGED <<control, res, fence, held>>
      /\ mem' = [mem EXCEPT ![r][h.loc] = IF h.op = "OP_ACC" THEN @ + h.val ELSE h.val]
  <2>1. CASE PutHandler(r, s)
    BY <1>1, <2>1 DEF PutHandler, Receives, WriteOp, ValueOp, locks
  <2>2. CASE AccHandler(r, s)
    BY <1>1, <2>2 DEF AccHandler, Receives, WriteOp, ValueOp, locks
  <2> QED BY <2>1, <2>2
<1>3. /\ h \in Message /\ ValuesSame /\ OthersPending(s, r) /\ Pending(s, r) # <<>>
      /\ Head(Pending(s, r)) = [op |-> h.op, loc |-> h.loc, val |-> h.val]
      /\ Pending(s, r)' = Tail(Pending(s, r))
  BY <1>1, <1>2, ConsumeUnder
<1>4. LogSame
  BY <1>2, <1>3, ControlLog
<1>5. PICK w : w = [op |-> h.op, loc |-> h.loc, val |-> h.val]
  OBVIOUS
<1>6. w \in Item /\ w.op = h.op /\ w.loc = h.loc /\ w.val = h.val
  <2>1. h.op \in OpCode /\ h.loc \in Int /\ h.val \in Int
    BY <1>3 DEF Message
  <2> QED BY <1>5, <2>1 DEF Item
<1>7. /\ mem' = [mem EXCEPT ![r][w.loc] = IF w.op = "OP_ACC" THEN @ + w.val ELSE w.val]
      /\ w.op # "OP_GET"
  BY <1>2, <1>6 DEF WriteOp
<1>8. UNCHANGED <<fence, held>>
  BY <1>2
<1> QED BY <1>3, <1>4, <1>5, <1>6, <1>7, <1>8, MapArrive

\* The cell that a request names
LEMMA RequestCell ==
    ASSUME TypeInv, NEW r \in Rank, NEW s \in Rank, chan[s][r] # <<>>,
           NEW h, h = Head(chan[s][r]), h.op \in {"OP_GET_REQUEST"} \cup RmwRequest
    PROVE  h \in Message /\ h.loc \in Cell
<1>1. h \in Message
  BY HeadType
<1> QED BY <1>1 DEF Message, CellOp, RmwRequest

LEMMA ReadStep ==
    ASSUME TypeInv, TypeInv', CallInv, CallInv', FenceInv, NEW r \in Rank, NEW s \in Rank,
           GetRequestHandler(r, s)
    PROVE  Promised!Read(s, r)
<1>1. PICK h : h = Head(chan[s][r])
  OBVIOUS
<1>2. PICK m : m = [h EXCEPT !.op = "OP_GET_RESPONSE", !.val = mem[r][h.loc]]
  OBVIOUS
<1>3. /\ chan[s][r] # <<>> /\ h.op = "OP_GET_REQUEST" /\ Answer(r, s, s, m)
      /\ UNCHANGED <<control, res>> /\ UNCHANGED <<mem, fence, held>>
  BY <1>1, <1>2 DEF GetRequestHandler, Receives, locks, memory
<1>4. h \in Message /\ h.loc \in Cell
  BY <1>1, <1>3, RequestCell
<1>5. m.op = "OP_GET_RESPONSE" /\ m.val = mem[r][h.loc]
  BY <1>2, <1>4 DEF Message
<1>6. m.op \in ValueOp
  BY <1>5 DEF ValueOp
<1>7. Pending(s, r) = <<>> /\ PendingSame /\ Reads(s, m.val)
  BY <1>1, <1>3, <1>6, ServedReads
<1> QED BY <1>3, <1>4, <1>5, <1>7, MapRead

LEMMA RmwStep ==
    ASSUME TypeInv, TypeInv', CallInv, CallInv', FenceInv, NEW r \in Rank, NEW s \in Rank,
           FetchAndAddRequestHandler(r, s) \/ SwapRequestHandler(r, s)
    PROVE  Promised!ReadModifyWrite(s, r)
<1>1. PICK h : h = Head(chan[s][r])
  OBVIOUS
<1>2. PICK op \in ValueOp :
         /\ chan[s][r] # <<>> /\ h.op \in RmwRequest
         /\ Answer(r, s, s, [h EXCEPT !.op = op, !.val = mem[r][h.loc]])
         /\ \E v : mem' = [mem EXCEPT ![r][h.loc] = v]
         /\ UNCHANGED <<control, res>> /\ UNCHANGED <<fence, held>>
  <2>1. CASE FetchAndAddRequestHandler(r, s)
    <3>1. /\ Answer(r, s, s, [h EXCEPT !.op = "OP_FETCH_AND_ADD_RESPONSE", !.val = mem[r][h.loc]])
          /\ chan[s][r] # <<>> /\ h.op \in RmwRequest
          /\ UNCHANGED <<control, res>> /\ UNCHANGED <<fence, held>>
      BY <1>1, <2>1 DEF FetchAndAddRequestHandler, Receives, RmwRequest, locks
    <3>2. \E v : mem' = [mem EXCEPT ![r][h.loc] = v]
      BY <1>1, <2>1 DEF FetchAndAddRequestHandler
    <3>3. "OP_FETCH_AND_ADD_RESPONSE" \in ValueOp
      BY DEF ValueOp
    <3> QED BY <3>1, <3>2, <3>3
  <2>2. CASE SwapRequestHandler(r, s)
    <3>1. /\ Answer(r, s, s, [h EXCEPT !.op = "OP_SWAP_RESPONSE", !.val = mem[r][h.loc]])
          /\ chan[s][r] # <<>> /\ h.op \in RmwRequest
          /\ \E v : mem' = [mem EXCEPT ![r][h.loc] = v]
          /\ UNCHANGED <<control, res>> /\ UNCHANGED <<fence, held>>
      BY <1>1, <2>2 DEF SwapRequestHandler, Receives, RmwRequest, locks
    <3>2. "OP_SWAP_RESPONSE" \in ValueOp
      BY DEF ValueOp
    <3> QED BY <3>1, <3>2
  <2> QED BY <2>1, <2>2
<1>3. PICK m : m = [h EXCEPT !.op = op, !.val = mem[r][h.loc]]
  OBVIOUS
<1>4. h \in Message /\ h.loc \in Cell
  BY <1>1, <1>2, RequestCell
<1>5. m.op \in ValueOp /\ m.val = mem[r][h.loc] /\ Answer(r, s, s, m)
  BY <1>2, <1>3, <1>4 DEF Message
<1>6. Pending(s, r) = <<>> /\ PendingSame /\ Reads(s, m.val)
  BY <1>1, <1>2, <1>5, ServedReads
<1>7. MemoryAt(r, h.loc)
  BY <1>2, <1>4, MemoryExcept
<1> QED BY <1>2, <1>4, <1>5, <1>6, <1>7, MapReadModifyWrite

\* A value arrives where its rank waits for it.
LEMMA ValueStep ==
    ASSUME TypeInv, CallInv, NEW r \in Rank, NEW s \in Rank,
           GetResponseHandler(r, s) \/ RmwResponseHandler(r, s)
    PROVE  UNCHANGED Promised!ovars
<1>1. PICK h : h = Head(chan[s][r])
  OBVIOUS
<1>2. /\ chan[s][r] # <<>> /\ h.op \in ValueOp /\ Consume(r, s)
      /\ res' = [res EXCEPT ![r] = Append(@, h.val)] /\ UNCHANGED control
      /\ UNCHANGED <<mem, fence, held>>
  BY <1>1 DEF GetResponseHandler, RmwResponseHandler, Receives, ValueOp, locks
<1>3. PendingSame /\ LogSame
  BY <1>1, <1>2, TakenReads
<1> QED BY <1>2, <1>3, MapStutter

\* The other handlers neither write nor read.
LEMMA MuteStep ==
    ASSUME TypeInv, TypeInv', NEW r \in Rank, NEW s \in Rank,
           \/ FenceRequestHandler(r, s) \/ FenceResponseHandler(r, s)
           \/ BarrierReceive(r, s) \/ MutexReceive(r, s)
    PROVE  UNCHANGED Promised!ovars
<1>1. UNCHANGED <<control, res>> /\ UNCHANGED <<mem, fence, held>>
  BY DEF FenceRequestHandler, FenceResponseHandler, BarrierReceive, BarrierRequestHandler,
     BarrierResponseHandler, MutexReceive, LockRequestHandler, UnlockRequestHandler,
     LockResponseHandler, Abort, memory, locks
<1>2. Abort \/ AnswersMute(r, s)
  <2>1. CASE BarrierReceive(r, s) \/ MutexReceive(r, s)
    BY <2>1, BarrierAnswers, MutexAnswers
  <2>2. CASE FenceResponseHandler(r, s)
    BY <2>2 DEF FenceResponseHandler, Receives, AnswersMute, WriteOp, ValueOp
  <2>3. CASE FenceRequestHandler(r, s)
    <3>1. PICK m : m = [Head(chan[s][r]) EXCEPT !.op = "OP_FENCE_RESPONSE"]
      OBVIOUS
    <3>2. /\ chan[s][r] # <<>> /\ Head(chan[s][r]).op = "OP_FENCE_REQUEST" /\ Answer(r, s, s, m)
      BY <2>3, <3>1 DEF FenceRequestHandler, Receives
    <3>3. m.op = "OP_FENCE_RESPONSE"
      BY <3>1, <3>2, HeadType DEF Message
    <3> QED BY <3>2, <3>3 DEF AnswersMute, WriteOp, ValueOp
  <2> QED BY <2>1, <2>2, <2>3
<1>3. PendingSame /\ ValuesSame
  BY <1>2, MuteUnder, ChanSame DEF Abort
<1>4. LogSame
  BY <1>1, <1>3, ControlLog
<1> QED BY <1>1, <1>3, <1>4, MapStutter

LEMMA ReceivePromise ==
    ASSUME TypeInv, TypeInv', CallInv, CallInv', FenceInv, NEW r \in Rank, NEW s \in Rank,
           Receive(r, s)
    PROVE  [Promised!ONext]_(Promised!ovars)
<1>1. CASE PutHandler(r, s) \/ AccHandler(r, s)
  BY <1>1, ArriveStep DEF Promised!ONext
<1>2. CASE GetRequestHandler(r, s)
  BY <1>2, ReadStep DEF Promised!ONext
<1>3. CASE FetchAndAddRequestHandler(r, s) \/ SwapRequestHandler(r, s)
  BY <1>3, RmwStep DEF Promised!ONext
<1>4. CASE GetResponseHandler(r, s) \/ RmwResponseHandler(r, s)
  BY <1>4, ValueStep
<1>5. CASE \/ FenceRequestHandler(r, s) \/ FenceResponseHandler(r, s)
           \/ BarrierReceive(r, s) \/ MutexReceive(r, s)
  BY <1>5, MuteStep
<1> QED BY <1>1, <1>2, <1>3, <1>4, <1>5 DEF Receive, DataReceive

-----------------------------------------------------------------------------

LEMMA InitPromise == Init => Promised!OInit
<1> SUFFICES ASSUME Init PROVE Promised!OInit
  OBVIOUS
<1>1. \A s, d \in Rank : chan[s][d] = <<>>
  BY DEF Init
<1>2. \A s, d \in Rank : Pending(s, d) = <<>>
  <2>1. <<>> \in Seq(Message) /\ ~Holds(<<>>, WriteOp)
    BY DEF Holds
  <2>2. Writes(<<>>) = <<>>
    BY <2>1, UnderWayNone
  <2> QED BY <1>1, <2>2 DEF Pending
<1>3. \A r \in Rank : res[r] \o Returning(r) = <<>>
  <2>1. \A r \in Rank : Returning(r) = <<>> /\ res[r] = <<>>
    BY DEF Init, Returning
  <2> QED BY <2>1
<1> QED BY <1>2, <1>3 DEF Init, Promised!OInit

LEMMA StepPromise ==
    ASSUME TypeInv, TypeInv', LockInv', CallInv, CallInv', FenceInv, [Next]_vars
    PROVE  [Promised!ONext]_(Promised!ovars)
<1>1. ASSUME NEW r \in Rank, LocalStep(r) PROVE [Promised!ONext]_(Promised!ovars)
  BY <1>1, LocalPromise
<1>2. ASSUME NEW r \in Rank, NEW s \in Rank, Receive(r, s)
      PROVE  [Promised!ONext]_(Promised!ovars)
  BY <1>2, ReceivePromise
<1>3. CASE UNCHANGED vars
  <2>1. UNCHANGED <<control, res>> /\ UNCHANGED <<mem, fence, held>> /\ chan' = chan
    BY <1>3 DEF vars, memory, locks
  <2>2. PendingSame /\ LogSame
    BY <2>1, ChanSame, ControlLog
  <2> QED BY <2>1, <2>2, MapStutter
<1> QED BY <1>1, <1>2, <1>3 DEF Next, ReceiveStep, Over

\* The message-passing runtime implements the memory and mutexes of
\* OneSided: puts and accumulates arrive in the order they were made, a get
\* or rmw returns what the target's memory holds once all earlier writes of
\* the reader have arrived, a rmw is one step, a fence waits for the writes
\* it covers and a mutex has one holder - for every set of ranks, every MPI
\* and every program.
THEOREM Implements == Spec => ImplementsOneSided
<1>1. Spec => [](TypeInv /\ LockInv /\ CallInv /\ FenceInv)
  BY InitType, NextType, InitLock, NextLock, InitCall, NextCall, InitFence, NextFence,
     PTL DEF Spec
<1>2. TypeInv /\ TypeInv' /\ LockInv' /\ CallInv /\ CallInv' /\ FenceInv /\ [Next]_vars
         => [Promised!ONext]_(Promised!ovars)
  BY StepPromise
<1> QED BY <1>1, <1>2, InitPromise, PTL DEF Spec, ImplementsOneSided, Promised!OSpec

=============================================================================
