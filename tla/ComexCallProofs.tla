---------------------------- MODULE ComexCallProofs ----------------------------
(***************************************************************************)
(* Type correctness of Comex, mutual exclusion of its mutexes, and what a  *)
(* call waits for, for every set of ranks, every bound and every program,  *)
(* erroneous ones included.                                                *)
(*                                                                         *)
(* The invariant LockInv follows a lock call from its request to its       *)
(* return.  Its parts are preserved for the same few reasons by all        *)
(* actions, which the frame conditions below name: no rank moves back      *)
(* (AllFrame), none is told of a grant it was not given (AllCalm), the     *)
(* channels lose their first message or gain a proper last one (AllMoved), *)
(* queues gain proper entries only (QueueMoved), and a mutex that somebody *)
(* owns stays his until he has released it (OwnedKept, HeldMoved).         *)
(*                                                                         *)
(* A request, its entry in a queue and its response are one and the same   *)
(* trace, which every step leaves as it is, adds for the call that makes   *)
(* it, or takes away when the call is told.  The number of traces is what  *)
(* the call waits for, so that when it returns none is left, and no        *)
(* response finds a call that is over.                                     *)
(***************************************************************************)
EXTENDS ComexInv, FiniteSetTheorems, SequenceTheorems, TLAPS

-----------------------------------------------------------------------------
(* Types *)

TypeInv == TypeOK /\ ControlOK

\* The call a rank is in, or makes next, is a call of its program.
LEMMA CurType ==
    ASSUME TypeInv, NEW r \in Rank, pc[r] \in DOMAIN prog[r]
    PROVE  Cur(r) \in Call
  BY ProgramAssumption DEF TypeInv, TypeOK, Cur

\* A rank that makes its next call has one.
LEMMA CallsType ==
    ASSUME TypeInv, NEW r \in Rank, NEW op, Calls(r, op)
    PROVE  /\ phase[r] = "idle" /\ step[r] = 0
           /\ pc[r] \in DOMAIN prog[r]
           /\ Cur(r) \in Call
           /\ Cur(r).op = op
<1>1. prog[r] \in Seq(Call) /\ pc[r] \in Nat \ {0}
  BY ProgramAssumption DEF TypeInv, TypeOK
<1>2. phase[r] = "idle" /\ pc[r] <= Len(prog[r]) /\ Cur(r).op = op
  BY DEF Calls
<1>3. pc[r] \in DOMAIN prog[r]
  BY <1>1, <1>2
<1>4. step[r] = 0
  BY <1>2 DEF TypeInv, ControlOK
<1> QED BY <1>2, <1>3, <1>4, CurType

\* The parts of a header record
LEMMA MessageType ==
    ASSUME NEW op \in OpCode, NEW loc \in Int, NEW val \in Int, NEW call \in Nat,
           op \in CellOp => loc \in Cell,
           op \in {"OP_LOCK_REQUEST", "OP_UNLOCK"} => loc \in Nat
    PROVE  Msg(op, loc, val, call) \in Message
  BY DEF Msg, Message

\* A message that names a cell
LEMMA CellMessageType ==
    ASSUME NEW op \in CellOp, NEW loc \in Cell, NEW val \in Int, NEW call \in Nat
    PROVE  Msg(op, loc, val, call) \in Message
<1>1. op \in OpCode /\ op \notin {"OP_LOCK_REQUEST", "OP_UNLOCK"}
  BY DEF CellOp, OpCode
<1>2. loc \in Int
  BY BoundAssumption DEF Cell
<1> QED BY <1>1, <1>2, MessageType

\* Every message on its way is well formed, the first of a channel included.
LEMMA HeadType ==
    ASSUME TypeInv, NEW r \in Rank, NEW s \in Rank, chan[s][r] # <<>>
    PROVE  /\ chan[s][r] \in Seq(Message)
           /\ Head(chan[s][r]) \in Message
           /\ Tail(chan[s][r]) \in Seq(Message)
<1>1. chan[s][r] \in Seq(Message)
  BY DEF TypeInv, TypeOK
<1> QED BY <1>1, HeadTailProperties

\* Sending, answering and receiving keep the channels well formed.
LEMMA PushType ==
    ASSUME TypeInv, NEW r \in Rank, NEW d \in Rank, NEW m \in Message, Push(r, d, m)
    PROVE  chan' \in [Rank -> [Rank -> Seq(Message)]]
<1>1. chan \in [Rank -> [Rank -> Seq(Message)]]
  BY DEF TypeInv, TypeOK
<1>2. Append(chan[r][d], m) \in Seq(Message)
  BY <1>1
<1> QED BY <1>1, <1>2 DEF Push

LEMMA TakenType ==
    ASSUME TypeInv, NEW r \in Rank, NEW s \in Rank, chan[s][r] # <<>>
    PROVE  Taken(r, s) \in [Rank -> [Rank -> Seq(Message)]]
<1>1. Tail(chan[s][r]) \in Seq(Message)
  BY HeadType
<1>2. chan \in [Rank -> [Rank -> Seq(Message)]]
  BY DEF TypeInv, TypeOK
<1> QED BY <1>1, <1>2 DEF Taken

LEMMA AnswerType ==
    ASSUME TypeInv, NEW r \in Rank, NEW s \in Rank, chan[s][r] # <<>>,
           NEW d \in Rank, NEW m \in Message, Answer(r, s, d, m)
    PROVE  chan' \in [Rank -> [Rank -> Seq(Message)]]
<1>1. Taken(r, s) \in [Rank -> [Rank -> Seq(Message)]]
  BY TakenType
<1> QED BY <1>1 DEF Answer


\* The control state
LEMMA ControlVars ==
    ASSUME TypeInv
    PROVE  /\ prog \in Programs
           /\ pc \in [Rank -> Nat \ {0}]
           /\ phase \in [Rank -> Phase]
           /\ busy \in [Rank -> BOOLEAN]
           /\ posted \in [Rank -> Nat]
           /\ step \in [Rank -> Nat]
           /\ ControlOK
  BY DEF TypeInv, TypeOK

\* Entering a phase, with progress or without, and returning
LEMMA ProgressType ==
    ASSUME TypeInv, NEW r \in Rank, NEW ph \in Phase, Progress(r, ph)
    PROVE  /\ prog' = prog /\ pc' = pc
           /\ phase' = [phase EXCEPT ![r] = ph]
           /\ phase' \in [Rank -> Phase]
           /\ busy' \in [Rank -> BOOLEAN]
           /\ posted' \in [Rank -> Nat]
  BY ControlVars DEF Progress

LEMMA ControlType ==
    ASSUME TypeInv, NEW r \in Rank, NEW ph \in Phase,
           Progress(r, ph) \/ Proceed(r, ph) \/ Pushed(r, ph)
    PROVE  /\ prog' = prog /\ pc' = pc
           /\ phase' = [phase EXCEPT ![r] = ph]
           /\ phase' \in [Rank -> Phase]
           /\ busy' \in [Rank -> BOOLEAN]
           /\ posted' \in [Rank -> Nat]
<1>1. CASE Progress(r, ph)
  BY <1>1, ProgressType
<1>2. CASE Proceed(r, ph)
  BY <1>2, ControlVars DEF Proceed
<1>3. CASE Pushed(r, ph) /\ Flooded(r)
  <2>1. Progress(r, ph)
    BY <1>3 DEF Pushed
  <2> QED BY <2>1, ProgressType
<1>4. CASE Pushed(r, ph) /\ ~Flooded(r)
  <2>1. /\ phase' = [phase EXCEPT ![r] = ph]
        /\ busy' = [busy EXCEPT ![r] = FALSE]
        /\ posted' = [posted EXCEPT ![r] = @ + 1]
        /\ UNCHANGED <<prog, pc>>
    BY <1>4 DEF Pushed
  <2> QED BY <2>1, ControlVars
<1> QED BY <1>1, <1>2, <1>3, <1>4

LEMMA ReturnType ==
    ASSUME TypeInv, NEW r \in Rank, Return(r), step[r] = 0
    PROVE  /\ prog' \in Programs
           /\ pc' \in [Rank -> Nat \ {0}]
           /\ phase' \in [Rank -> Phase]
           /\ busy' \in [Rank -> BOOLEAN]
           /\ posted' \in [Rank -> Nat]
           /\ UNCHANGED step => ControlOK'
<1> USE ControlVars
<1>1. /\ prog' \in Programs
      /\ pc' \in [Rank -> Nat \ {0}]
      /\ phase' \in [Rank -> Phase]
      /\ busy' \in [Rank -> BOOLEAN]
      /\ posted' \in [Rank -> Nat]
  BY DEF Return, Phase
<1>2. ASSUME UNCHANGED step, NEW q \in Rank
      PROVE  /\ phase'[q] # "idle" => pc'[q] \in DOMAIN prog'[q]
             /\ phase'[q] = "issue" => Cur(q)'.op \in DataOp /\ step'[q] < Cur(q)'.loc
             /\ phase'[q] # "issue" => step'[q] = 0
             /\ phase'[q] = "fence" => Cur(q)'.op = "fence"
  BY <1>2 DEF Return, ControlOK, Cur
<1> QED BY <1>1, <1>2 DEF ControlOK

\* A rank that goes on in a phase other than "issue"
LEMMA PhaseControl ==
    ASSUME TypeInv, NEW r \in Rank, NEW ph \in Phase \ {"issue", "idle"},
           Progress(r, ph) \/ Proceed(r, ph) \/ Pushed(r, ph),
           pc[r] \in DOMAIN prog[r], step' = [step EXCEPT ![r] = 0],
           ph = "fence" => Cur(r).op = "fence"
    PROVE  ControlOK'
<1> USE ControlVars
<1>1. prog' = prog /\ pc' = pc /\ phase' = [phase EXCEPT ![r] = ph]
  BY ControlType
<1>2. ASSUME NEW q \in Rank
      PROVE  /\ phase'[q] # "idle" => pc'[q] \in DOMAIN prog'[q]
             /\ phase'[q] = "issue" => Cur(q)'.op \in DataOp /\ step'[q] < Cur(q)'.loc
             /\ phase'[q] # "issue" => step'[q] = 0
             /\ phase'[q] = "fence" => Cur(q)'.op = "fence"
  BY <1>1 DEF ControlOK, Cur
<1> QED BY <1>2 DEF ControlOK

\* The whole control state, typed
ControlTyped ==
    /\ prog \in Programs
    /\ pc \in [Rank -> Nat \ {0}]
    /\ phase \in [Rank -> Phase]
    /\ busy \in [Rank -> BOOLEAN]
    /\ posted \in [Rank -> Nat]
    /\ step \in [Rank -> Nat]
    /\ ControlOK

\* A rank in a call that is not issuing blocks goes on to another such phase.
LEMMA PhaseType ==
    ASSUME TypeInv, NEW r \in Rank, NEW ph \in Phase \ {"issue", "idle"},
           Progress(r, ph) \/ Proceed(r, ph) \/ Pushed(r, ph),
           pc[r] \in DOMAIN prog[r], step[r] = 0, UNCHANGED step,
           ph = "fence" => Cur(r).op = "fence"
    PROVE  ControlTyped'
<1>1. step' = [step EXCEPT ![r] = 0]
  BY ControlVars
<1>2. ControlOK'
  BY <1>1, PhaseControl
<1> QED BY <1>2, ControlType, ControlVars DEF ControlTyped

\* A step that leaves the control state alone
LEMMA SameControl ==
    ASSUME TypeInv, UNCHANGED <<control, step>>
    PROVE  ControlTyped'
<1>1. /\ prog' = prog /\ pc' = pc /\ phase' = phase /\ busy' = busy
      /\ posted' = posted /\ step' = step
  BY DEF control
<1>2. ControlOK'
  BY <1>1, ControlVars DEF ControlOK, Cur
<1> QED BY <1>1, <1>2, ControlVars DEF ControlTyped

-----------------------------------------------------------------------------
(* put, acc and get *)

\* A rank that issues a block is in a put, acc or get, at one of its blocks.
LEMMA BlockType ==
    ASSUME TypeInv, NEW r \in Rank, NEW ops \in SUBSET DataOp, NextBlock(r, ops)
    PROVE  /\ pc[r] \in DOMAIN prog[r]
           /\ Cur(r) \in Call
           /\ Cur(r).op \in ops
           /\ step[r] \in Cell
           /\ step[r] < Cur(r).loc
<1>1. CASE \E op \in ops : Calls(r, op)
  <2>1. /\ step[r] = 0 /\ pc[r] \in DOMAIN prog[r]
        /\ Cur(r) \in Call /\ Cur(r).op \in ops
    BY <1>1, CallsType
  <2> QED BY <2>1, BoundAssumption DEF Call, Cell
<1>2. CASE phase[r] = "issue" /\ Cur(r).op \in ops
  <2>1. pc[r] \in DOMAIN prog[r] /\ step[r] < Cur(r).loc /\ step[r] \in Nat
    BY <1>2, ControlVars DEF ControlOK
  <2>2. Cur(r) \in Call
    BY <2>1, CurType
  <2> QED BY <1>2, <2>1, <2>2, BoundAssumption DEF Call, Cell
<1> QED BY <1>1, <1>2 DEF NextBlock

\* The control state after a block
LEMMA BlockIssuedType ==
    ASSUME TypeInv, NEW r \in Rank, NEW pushed \in BOOLEAN,
           pc[r] \in DOMAIN prog[r], Cur(r).op \in DataOp, Cur(r) \in Call,
           step[r] < Cur(r).loc, BlockIssued(r, pushed)
    PROVE  ControlTyped'
<1> USE DEF ControlTyped
<1>1. step' = [step EXCEPT ![r] = IF LastBlock(r) THEN 0 ELSE @ + 1]
  BY DEF BlockIssued
<1>2. CASE LastBlock(r)
  <2>1. Progress(r, "wait") /\ step' = [step EXCEPT ![r] = 0]
    BY <1>2, <1>1 DEF BlockIssued
  <2>2. ControlOK'
    BY <2>1, PhaseControl DEF Phase
  <2> QED BY <2>1, <2>2, ControlType, ControlVars DEF Phase
<1>3. CASE ~LastBlock(r)
  <2>1. Proceed(r, "issue") \/ Pushed(r, "issue")
    BY <1>3 DEF BlockIssued
  <2>2. step' = [step EXCEPT ![r] = @ + 1]
    BY <1>3, <1>1
  <2>3. /\ prog' = prog /\ pc' = pc /\ phase' = [phase EXCEPT ![r] = "issue"]
        /\ phase' \in [Rank -> Phase]
        /\ busy' \in [Rank -> BOOLEAN]
        /\ posted' \in [Rank -> Nat]
    BY <2>1, ControlType DEF Phase
  <2>4. Cur(r).loc \in Nat /\ step[r] + 1 # Cur(r).loc
    BY <1>3 DEF Call, LastBlock
  <2>5. /\ phase'[r] = "issue" /\ pc'[r] \in DOMAIN prog'[r]
        /\ Cur(r)'.op \in DataOp /\ step'[r] < Cur(r)'.loc
    <3>1. step'[r] = step[r] + 1 /\ phase'[r] = "issue" /\ step[r] \in Nat
      BY <2>2, <2>3, ControlVars
    <3>2. step[r] + 1 < Cur(r).loc
      BY <2>4, <3>1
    <3>3. Cur(r)' = Cur(r)
      BY <2>3 DEF Cur
    <3> QED BY <2>3, <3>1, <3>2, <3>3
  <2>6. ASSUME NEW q \in Rank, q # r
        PROVE  /\ phase'[q] # "idle" => pc'[q] \in DOMAIN prog'[q]
               /\ phase'[q] = "issue" => Cur(q)'.op \in DataOp /\ step'[q] < Cur(q)'.loc
               /\ phase'[q] # "issue" => step'[q] = 0
               /\ phase'[q] = "fence" => Cur(q)'.op = "fence"
    BY <2>2, <2>3, <2>6, ControlVars DEF ControlOK, Cur
  <2> QED BY <2>2, <2>3, <2>5, <2>6, ControlVars DEF ControlOK
<1> QED BY <1>2, <1>3

\* What a put sends is a value.
LEMMA PutValueType ==
    ASSUME TypeInv, NEW r \in Rank, Cur(r) \in Call
    PROVE  PutValue(r) \in Int
<1>1. res[r] \in Seq(Int)
  BY DEF TypeInv, TypeOK
<1>2. LastRead(r) \in Int
  BY <1>1 DEF LastRead
<1>3. Cur(r).val \in Int
  BY DEF Call
<1> QED BY <1>2, <1>3 DEF PutValue

LEMMA PutSelfType ==
    ASSUME TypeInv, NEW r \in Rank, PutSelf(r)
    PROVE  TypeInv'
<1>1. /\ pc[r] \in DOMAIN prog[r] /\ Cur(r) \in Call /\ Cur(r).op \in {"put", "putnext"}
      /\ step[r] \in Cell /\ step[r] < Cur(r).loc
  BY BlockType DEF PutSelf, DataOp
<1>2. ControlTyped'
  BY <1>1, BlockIssuedType DEF PutSelf, DataOp
<1>3. PutValue(r) \in Int
  BY <1>1, PutValueType
<1>4. mem' \in [Rank -> [Cell -> Int]]
  BY <1>1, <1>3 DEF PutSelf, TypeInv, TypeOK
<1> QED BY <1>2, <1>4 DEF ControlTyped, TypeInv, TypeOK, PutSelf, NextBlock,
            waiting, barriers, locks

LEMMA PutRemoteType ==
    ASSUME TypeInv, NEW r \in Rank, PutRemote(r)
    PROVE  TypeInv'
<1>1. /\ pc[r] \in DOMAIN prog[r] /\ Cur(r) \in Call /\ Cur(r).op \in {"put", "putnext"}
      /\ step[r] \in Cell /\ step[r] < Cur(r).loc
  BY BlockType DEF PutRemote, DataOp
<1>2. ControlTyped'
  BY <1>1, BlockIssuedType DEF PutRemote, DataOp
<1>3. PutValue(r) \in Int
  BY <1>1, PutValueType
<1>4. Msg("OP_PUT", step[r], PutValue(r), pc[r]) \in Message
  BY <1>1, <1>3, CellMessageType, ControlVars DEF CellOp
<1>5. chan' \in [Rank -> [Rank -> Seq(Message)]]
  BY <1>1, <1>4, PushType DEF PutRemote, Call
<1>6. fence' \in [Rank -> [Rank -> BOOLEAN]]
  BY <1>1 DEF PutRemote, TypeInv, TypeOK, Call
<1> QED BY <1>2, <1>5, <1>6 DEF ControlTyped, TypeInv, TypeOK, PutRemote, NextBlock,
            waiting, barriers, locks, memory

LEMMA AccSelfType ==
    ASSUME TypeInv, NEW r \in Rank, AccSelf(r)
    PROVE  TypeInv'
<1>1. /\ pc[r] \in DOMAIN prog[r] /\ Cur(r) \in Call /\ Cur(r).op = "acc"
      /\ step[r] \in Cell /\ step[r] < Cur(r).loc
  BY BlockType DEF AccSelf, DataOp
<1>2. ControlTyped'
  BY <1>1, BlockIssuedType DEF AccSelf, DataOp
<1>3. Cur(r).val \in Int
  BY <1>1 DEF Call
<1>4. mem \in [Rank -> [Cell -> Int]]
  BY DEF TypeInv, TypeOK
<1>5. mem' \in [Rank -> [Cell -> Int]]
  BY <1>1, <1>3, <1>4 DEF AccSelf
<1> QED BY <1>2, <1>5 DEF ControlTyped, TypeInv, TypeOK, AccSelf, NextBlock,
            waiting, barriers, locks

LEMMA AccRemoteType ==
    ASSUME TypeInv, NEW r \in Rank, AccRemote(r)
    PROVE  TypeInv'
<1>1. /\ pc[r] \in DOMAIN prog[r] /\ Cur(r) \in Call /\ Cur(r).op = "acc"
      /\ step[r] \in Cell /\ step[r] < Cur(r).loc
  BY BlockType DEF AccRemote, DataOp
<1>2. ControlTyped'
  BY <1>1, BlockIssuedType DEF AccRemote, DataOp
<1>3. Cur(r).val \in Int
  BY <1>1 DEF Call
<1>4. Msg("OP_ACC", step[r], Cur(r).val, pc[r]) \in Message
  BY <1>1, <1>3, CellMessageType, ControlVars DEF CellOp
<1>5. chan' \in [Rank -> [Rank -> Seq(Message)]]
  BY <1>1, <1>4, PushType DEF AccRemote, Call
<1>6. fence' \in [Rank -> [Rank -> BOOLEAN]]
  BY <1>1 DEF AccRemote, TypeInv, TypeOK, Call
<1> QED BY <1>2, <1>5, <1>6 DEF ControlTyped, TypeInv, TypeOK, AccRemote, NextBlock,
            waiting, barriers, locks, memory

LEMMA GetSelfType ==
    ASSUME TypeInv, NEW r \in Rank, GetSelf(r)
    PROVE  TypeInv'
<1>1. /\ pc[r] \in DOMAIN prog[r] /\ Cur(r) \in Call /\ Cur(r).op = "get"
      /\ step[r] \in Cell /\ step[r] < Cur(r).loc
  BY BlockType DEF GetSelf, DataOp
<1>2. ControlTyped'
  BY <1>1, BlockIssuedType DEF GetSelf, DataOp
<1>3. mem \in [Rank -> [Cell -> Int]] /\ res \in [Rank -> Seq(Int)]
  BY DEF TypeInv, TypeOK
<1>4. mem[r][step[r]] \in Int
  BY <1>1, <1>3
<1>5. Append(res[r], mem[r][step[r]]) \in Seq(Int)
  BY <1>3, <1>4
<1>6. res' \in [Rank -> Seq(Int)]
  BY <1>3, <1>5 DEF GetSelf
<1> QED BY <1>2, <1>6 DEF ControlTyped, TypeInv, TypeOK, GetSelf, NextBlock,
            waiting, barriers, locks

LEMMA GetRemoteType ==
    ASSUME TypeInv, NEW r \in Rank, GetRemote(r)
    PROVE  TypeInv'
<1>1. /\ pc[r] \in DOMAIN prog[r] /\ Cur(r) \in Call /\ Cur(r).op = "get"
      /\ step[r] \in Cell /\ step[r] < Cur(r).loc
  BY BlockType DEF GetRemote, DataOp
<1>2. ControlTyped'
  BY <1>1, BlockIssuedType DEF GetRemote, DataOp
<1>3. Msg("OP_GET_REQUEST", step[r], 0, pc[r]) \in Message
  BY <1>1, CellMessageType, ControlVars DEF CellOp
<1>4. chan' \in [Rank -> [Rank -> Seq(Message)]]
  BY <1>1, <1>3, PushType DEF GetRemote, Call
<1>5. gets' \in [Rank -> Int]
  BY DEF GetRemote, TypeInv, TypeOK
<1> QED BY <1>2, <1>4, <1>5 DEF ControlTyped, TypeInv, TypeOK, GetRemote, NextBlock,
            barriers, locks, memory

-----------------------------------------------------------------------------
(* wait, rmw and fence *)

LEMMA WaitStartType ==
    ASSUME TypeInv, NEW r \in Rank, WaitStart(r)
    PROVE  TypeInv'
<1>1. pc[r] \in DOMAIN prog[r] /\ step[r] = 0
  BY CallsType DEF WaitStart
<1>2. ControlTyped'
  BY <1>1, PhaseType DEF WaitStart, issuing, Phase
<1> QED BY <1>2 DEF ControlTyped, TypeInv, TypeOK, WaitStart, waiting, issuing,
            barriers, locks, memory

LEMMA RmwStartType ==
    ASSUME TypeInv, NEW r \in Rank, RmwStart(r)
    PROVE  TypeInv'
<1>1. /\ pc[r] \in DOMAIN prog[r] /\ step[r] = 0
      /\ Cur(r) \in Call /\ Cur(r).op \in RmwOp
  BY CallsType DEF RmwStart
<1>2. ControlTyped'
  BY <1>1, PhaseType DEF RmwStart, issuing, Phase
<1>3. Cur(r).to \in Rank /\ Cur(r).loc \in Cell /\ Cur(r).val \in Int /\ pc[r] \in Nat
  BY <1>1, ControlVars DEF Call
<1>4. Msg(IF Cur(r).op = "fadd" THEN "OP_FETCH_AND_ADD_REQUEST"
                                ELSE "OP_SWAP_REQUEST",
          Cur(r).loc, Cur(r).val, pc[r]) \in Message
  BY <1>3, CellMessageType DEF CellOp
<1>5. chan' \in [Rank -> [Rank -> Seq(Message)]]
  BY <1>3, <1>4, PushType DEF RmwStart
<1>6. notify' \in [Rank -> Int]
  BY DEF RmwStart, TypeInv, TypeOK
<1> QED BY <1>2, <1>5, <1>6 DEF ControlTyped, TypeInv, TypeOK, RmwStart, issuing,
            barriers, locks, memory

\* Returning to the program
LEMMA Returns ==
    ASSUME TypeInv, NEW r \in Rank, Return(r), step[r] = 0, UNCHANGED step
    PROVE  ControlTyped'
  BY ReturnType, ControlVars DEF ControlTyped

LEMMA FenceNothingType ==
    ASSUME TypeInv, NEW r \in Rank, FenceNothing(r)
    PROVE  TypeInv'
<1>1. step[r] = 0
  BY CallsType DEF FenceNothing
<1>2. ControlTyped'
  BY <1>1, Returns DEF FenceNothing, issuing
<1> QED BY <1>2 DEF ControlTyped, TypeInv, TypeOK, FenceNothing, waiting, issuing,
            barriers, locks, memory

\* A fence request to one of the ranks that are left
LEMMA SendFenceType ==
    ASSUME TypeInv, NEW r \in Rank, NEW ps \in SUBSET Rank, NEW p \in ps,
           SendFence(r, p, ps), pc[r] \in DOMAIN prog[r], Cur(r).op = "fence",
           step[r] = 0, UNCHANGED step
    PROVE  /\ ControlTyped'
           /\ chan' \in [Rank -> [Rank -> Seq(Message)]]
           /\ todo' \in [Rank -> SUBSET Rank]
<1>1. Progress(r, "wait") \/ Pushed(r, "fence")
  BY DEF SendFence
<1>2. ControlTyped'
  BY <1>1, PhaseType DEF Phase
<1>3. Msg("OP_FENCE_REQUEST", 0, 0, pc[r]) \in Message
  BY MessageType, ControlVars DEF OpCode, CellOp
<1>4. chan' \in [Rank -> [Rank -> Seq(Message)]]
  BY <1>3, PushType DEF SendFence
<1>5. todo' \in [Rank -> SUBSET Rank]
  BY DEF SendFence, TypeInv, TypeOK
<1> QED BY <1>2, <1>4, <1>5

LEMMA FenceStartType ==
    ASSUME TypeInv, NEW r \in Rank, FenceStart(r)
    PROVE  TypeInv'
<1>1. /\ pc[r] \in DOMAIN prog[r] /\ step[r] = 0 /\ Cur(r) \in Call
      /\ Cur(r).op = "fence"
  BY CallsType DEF FenceStart
<1>2. FenceTargets(r) \in SUBSET Rank
  BY <1>1 DEF FenceTargets, Call
<1>3. PICK p \in FenceTargets(r) : SendFence(r, p, FenceTargets(r))
  BY DEF FenceStart
<1>4. /\ ControlTyped'
      /\ chan' \in [Rank -> [Rank -> Seq(Message)]]
      /\ todo' \in [Rank -> SUBSET Rank]
  BY <1>1, <1>2, <1>3, SendFenceType DEF FenceStart
<1>5. Cardinality(FenceTargets(r)) \in Int
  BY <1>2, RankAssumption, FS_Subset, FS_CardinalityType
<1>6. notify' \in [Rank -> Int]
  BY <1>5 DEF FenceStart, TypeInv, TypeOK
<1> QED BY <1>4, <1>6 DEF ControlTyped, TypeInv, TypeOK, FenceStart,
            barriers, locks, memory

LEMMA FenceNextType ==
    ASSUME TypeInv, NEW r \in Rank, FenceNext(r)
    PROVE  TypeInv'
<1>1. pc[r] \in DOMAIN prog[r] /\ step[r] = 0 /\ Cur(r).op = "fence"
  BY ControlVars DEF FenceNext, ControlOK
<1>2. todo[r] \in SUBSET Rank
  BY DEF TypeInv, TypeOK
<1>3. PICK p \in todo[r] : SendFence(r, p, todo[r])
  BY DEF FenceNext
<1>4. /\ ControlTyped'
      /\ chan' \in [Rank -> [Rank -> Seq(Message)]]
      /\ todo' \in [Rank -> SUBSET Rank]
  BY <1>1, <1>2, <1>3, SendFenceType DEF FenceNext
<1> QED BY <1>4 DEF ControlTyped, TypeInv, TypeOK, FenceNext, waiting,
            barriers, locks, memory

LEMMA FenceReturnType ==
    ASSUME TypeInv, NEW r \in Rank, FenceReturn(r)
    PROVE  TypeInv'
<1>1. step[r] = 0
  BY ControlVars DEF FenceReturn, ControlOK
<1>2. ControlTyped'
  BY <1>1, Returns DEF FenceReturn, issuing
<1>3. fence' \in [Rank -> [Rank -> BOOLEAN]]
  BY DEF FenceReturn, TypeInv, TypeOK
<1> QED BY <1>2, <1>3 DEF ControlTyped, TypeInv, TypeOK, FenceReturn, waiting, issuing,
            barriers, locks, memory

LEMMA CallReturnType ==
    ASSUME TypeInv, NEW r \in Rank, CallReturn(r)
    PROVE  TypeInv'
<1>1. step[r] = 0
  BY ControlVars DEF CallReturn, ControlOK
<1>2. ControlTyped'
  BY <1>1, Returns DEF CallReturn, issuing
<1> QED BY <1>2 DEF ControlTyped, TypeInv, TypeOK, CallReturn, waiting, issuing,
            barriers, locks, memory

-----------------------------------------------------------------------------
(* The handlers of the data calls *)

\* A request of another rank turned into its response
LEMMA ReplyType ==
    ASSUME NEW m \in Message, NEW v \in Int,
           NEW op \in OpCode \ (CellOp \cup {"OP_LOCK_REQUEST", "OP_UNLOCK"})
    PROVE  [m EXCEPT !.op = op, !.val = v] \in Message
  BY DEF Message

\* A handled message that names a cell names a cell of its receiver.
LEMMA CellType ==
    ASSUME TypeInv, NEW r \in Rank, NEW s \in Rank, NEW op \in CellOp,
           Receives(r, s, op)
    PROVE  /\ chan[s][r] # <<>>
           /\ Head(chan[s][r]) \in Message
           /\ Head(chan[s][r]).loc \in Cell
           /\ Head(chan[s][r]).val \in Int
           /\ mem[r][Head(chan[s][r]).loc] \in Int
<1>1. chan[s][r] # <<>> /\ Head(chan[s][r]) \in Message /\ Head(chan[s][r]).op = op
  BY HeadType DEF Receives
<1>2. Head(chan[s][r]).loc \in Cell /\ Head(chan[s][r]).val \in Int
  BY <1>1 DEF Message
<1>3. mem \in [Rank -> [Cell -> Int]]
  BY DEF TypeInv, TypeOK
<1> QED BY <1>1, <1>2, <1>3

LEMMA PutHandlerType ==
    ASSUME TypeInv, NEW r \in Rank, NEW s \in Rank, PutHandler(r, s)
    PROVE  TypeInv'
<1>1. ControlTyped'
  BY SameControl DEF PutHandler, control, issuing
<1>2. /\ chan[s][r] # <<>> /\ Head(chan[s][r]) \in Message
      /\ Head(chan[s][r]).loc \in Cell /\ Head(chan[s][r]).val \in Int
      /\ mem[r][Head(chan[s][r]).loc] \in Int
  BY CellType DEF PutHandler, CellOp
<1>3. mem' \in [Rank -> [Cell -> Int]]
  <2>1. mem \in [Rank -> [Cell -> Int]]
    BY DEF TypeInv, TypeOK
  <2> QED BY <1>2, <2>1 DEF PutHandler
<1>4. chan' \in [Rank -> [Rank -> Seq(Message)]]
  BY <1>2, TakenType DEF PutHandler, Consume
<1> QED BY <1>1, <1>3, <1>4 DEF ControlTyped, TypeInv, TypeOK, PutHandler, waiting, issuing,
            barriers, locks

LEMMA AccHandlerType ==
    ASSUME TypeInv, NEW r \in Rank, NEW s \in Rank, AccHandler(r, s)
    PROVE  TypeInv'
<1>1. ControlTyped'
  BY SameControl DEF AccHandler, control, issuing
<1>2. /\ chan[s][r] # <<>> /\ Head(chan[s][r]) \in Message
      /\ Head(chan[s][r]).loc \in Cell /\ Head(chan[s][r]).val \in Int
      /\ mem[r][Head(chan[s][r]).loc] \in Int
  BY CellType DEF AccHandler, CellOp
<1>3. mem' \in [Rank -> [Cell -> Int]]
  <2>1. mem \in [Rank -> [Cell -> Int]]
    BY DEF TypeInv, TypeOK
  <2> QED BY <1>2, <2>1 DEF AccHandler
<1>4. chan' \in [Rank -> [Rank -> Seq(Message)]]
  BY <1>2, TakenType DEF AccHandler, Consume
<1> QED BY <1>1, <1>3, <1>4 DEF ControlTyped, TypeInv, TypeOK, AccHandler, waiting, issuing,
            barriers, locks

LEMMA GetRequestHandlerType ==
    ASSUME TypeInv, NEW r \in Rank, NEW s \in Rank, GetRequestHandler(r, s)
    PROVE  TypeInv'
<1>1. ControlTyped'
  BY SameControl DEF GetRequestHandler, control, issuing
<1>2. /\ chan[s][r] # <<>> /\ Head(chan[s][r]) \in Message
      /\ Head(chan[s][r]).loc \in Cell /\ Head(chan[s][r]).val \in Int
      /\ mem[r][Head(chan[s][r]).loc] \in Int
  BY CellType DEF GetRequestHandler, CellOp
<1>3. chan' \in [Rank -> [Rank -> Seq(Message)]]
  <2>1. "OP_GET_RESPONSE" \in OpCode \ (CellOp \cup {"OP_LOCK_REQUEST", "OP_UNLOCK"})
    BY DEF OpCode, CellOp
  <2>2. [Head(chan[s][r]) EXCEPT !.op = "OP_GET_RESPONSE",
                                 !.val = mem[r][Head(chan[s][r]).loc]] \in Message
    BY <1>2, <2>1, ReplyType
  <2> QED BY <1>2, <2>2, AnswerType DEF GetRequestHandler
<1> QED BY <1>1, <1>3 DEF ControlTyped, TypeInv, TypeOK, GetRequestHandler, waiting, issuing,
            barriers, locks, memory

LEMMA GetResponseHandlerType ==
    ASSUME TypeInv, NEW r \in Rank, NEW s \in Rank, GetResponseHandler(r, s)
    PROVE  TypeInv'
<1>1. ControlTyped'
  BY SameControl DEF GetResponseHandler, control, issuing
<1>2. chan[s][r] # <<>> /\ Head(chan[s][r]) \in Message
  BY HeadType DEF GetResponseHandler, Receives
<1>3. chan' \in [Rank -> [Rank -> Seq(Message)]]
  BY <1>2, TakenType DEF GetResponseHandler, Consume
<1>4. res' \in [Rank -> Seq(Int)]
  <2>1. res \in [Rank -> Seq(Int)] /\ Head(chan[s][r]).val \in Int
    BY <1>2 DEF TypeInv, TypeOK, Message
  <2>2. Append(res[r], Head(chan[s][r]).val) \in Seq(Int)
    BY <2>1
  <2> QED BY <2>1, <2>2 DEF GetResponseHandler
<1>5. gets' \in [Rank -> Int]
  <2>1. gets \in [Rank -> Int]
    BY DEF TypeInv, TypeOK
  <2> QED BY <2>1 DEF GetResponseHandler
<1> QED BY <1>1, <1>3, <1>4, <1>5 DEF ControlTyped, TypeInv, TypeOK, GetResponseHandler, issuing,
            barriers, locks

LEMMA FetchAndAddRequestHandlerType ==
    ASSUME TypeInv, NEW r \in Rank, NEW s \in Rank, FetchAndAddRequestHandler(r, s)
    PROVE  TypeInv'
<1>1. ControlTyped'
  BY SameControl DEF FetchAndAddRequestHandler, control, issuing
<1>2. /\ chan[s][r] # <<>> /\ Head(chan[s][r]) \in Message
      /\ Head(chan[s][r]).loc \in Cell /\ Head(chan[s][r]).val \in Int
      /\ mem[r][Head(chan[s][r]).loc] \in Int
  BY CellType DEF FetchAndAddRequestHandler, CellOp
<1>3. chan' \in [Rank -> [Rank -> Seq(Message)]]
  <2>1. "OP_FETCH_AND_ADD_RESPONSE" \in OpCode \ (CellOp \cup {"OP_LOCK_REQUEST", "OP_UNLOCK"})
    BY DEF OpCode, CellOp
  <2>2. [Head(chan[s][r]) EXCEPT !.op = "OP_FETCH_AND_ADD_RESPONSE",
                                 !.val = mem[r][Head(chan[s][r]).loc]] \in Message
    BY <1>2, <2>1, ReplyType
  <2> QED BY <1>2, <2>2, AnswerType DEF FetchAndAddRequestHandler
<1>4. mem' \in [Rank -> [Cell -> Int]]
  <2>1. mem \in [Rank -> [Cell -> Int]]
    BY DEF TypeInv, TypeOK
  <2> QED BY <1>2, <2>1 DEF FetchAndAddRequestHandler
<1> QED BY <1>1, <1>3, <1>4 DEF ControlTyped, TypeInv, TypeOK, FetchAndAddRequestHandler, waiting, issuing,
            barriers, locks

LEMMA SwapRequestHandlerType ==
    ASSUME TypeInv, NEW r \in Rank, NEW s \in Rank, SwapRequestHandler(r, s)
    PROVE  TypeInv'
<1>1. ControlTyped'
  BY SameControl DEF SwapRequestHandler, control, issuing
<1>2. /\ chan[s][r] # <<>> /\ Head(chan[s][r]) \in Message
      /\ Head(chan[s][r]).loc \in Cell /\ Head(chan[s][r]).val \in Int
      /\ mem[r][Head(chan[s][r]).loc] \in Int
  BY CellType DEF SwapRequestHandler, CellOp
<1>3. chan' \in [Rank -> [Rank -> Seq(Message)]]
  <2>1. "OP_SWAP_RESPONSE" \in OpCode \ (CellOp \cup {"OP_LOCK_REQUEST", "OP_UNLOCK"})
    BY DEF OpCode, CellOp
  <2>2. [Head(chan[s][r]) EXCEPT !.op = "OP_SWAP_RESPONSE",
                                 !.val = mem[r][Head(chan[s][r]).loc]] \in Message
    BY <1>2, <2>1, ReplyType
  <2> QED BY <1>2, <2>2, AnswerType DEF SwapRequestHandler
<1>4. mem' \in [Rank -> [Cell -> Int]]
  <2>1. mem \in [Rank -> [Cell -> Int]]
    BY DEF TypeInv, TypeOK
  <2> QED BY <1>2, <2>1 DEF SwapRequestHandler
<1> QED BY <1>1, <1>3, <1>4 DEF ControlTyped, TypeInv, TypeOK, SwapRequestHandler, waiting, issuing,
            barriers, locks

LEMMA RmwResponseHandlerType ==
    ASSUME TypeInv, NEW r \in Rank, NEW s \in Rank, RmwResponseHandler(r, s)
    PROVE  TypeInv'
<1>1. ControlTyped'
  BY SameControl DEF RmwResponseHandler, control, issuing
<1>2. chan[s][r] # <<>> /\ Head(chan[s][r]) \in Message
  BY HeadType DEF RmwResponseHandler, Receives
<1>3. chan' \in [Rank -> [Rank -> Seq(Message)]]
  BY <1>2, TakenType DEF RmwResponseHandler, Consume
<1>4. res' \in [Rank -> Seq(Int)]
  <2>1. res \in [Rank -> Seq(Int)] /\ Head(chan[s][r]).val \in Int
    BY <1>2 DEF TypeInv, TypeOK, Message
  <2>2. Append(res[r], Head(chan[s][r]).val) \in Seq(Int)
    BY <2>1
  <2> QED BY <2>1, <2>2 DEF RmwResponseHandler
<1>5. notify' \in [Rank -> Int]
  BY DEF RmwResponseHandler, TypeInv, TypeOK
<1> QED BY <1>1, <1>3, <1>4, <1>5 DEF ControlTyped, TypeInv, TypeOK, RmwResponseHandler, issuing,
            barriers, locks

LEMMA FenceRequestHandlerType ==
    ASSUME TypeInv, NEW r \in Rank, NEW s \in Rank, FenceRequestHandler(r, s)
    PROVE  TypeInv'
<1>1. ControlTyped'
  BY SameControl DEF FenceRequestHandler, control, issuing
<1>2. chan[s][r] # <<>> /\ Head(chan[s][r]) \in Message
  BY HeadType DEF FenceRequestHandler, Receives
<1>3. chan' \in [Rank -> [Rank -> Seq(Message)]]
  <2>1. [Head(chan[s][r]) EXCEPT !.op = "OP_FENCE_RESPONSE"] \in Message
    BY <1>2 DEF Message, OpCode, CellOp
  <2> QED BY <1>2, <2>1, AnswerType DEF FenceRequestHandler
<1> QED BY <1>1, <1>3 DEF ControlTyped, TypeInv, TypeOK, FenceRequestHandler, waiting, issuing,
            barriers, locks, memory

LEMMA FenceResponseHandlerType ==
    ASSUME TypeInv, NEW r \in Rank, NEW s \in Rank, FenceResponseHandler(r, s)
    PROVE  TypeInv'
<1>1. ControlTyped'
  BY SameControl DEF FenceResponseHandler, control, issuing
<1>2. chan[s][r] # <<>> /\ Head(chan[s][r]) \in Message
  BY HeadType DEF FenceResponseHandler, Receives
<1>3. chan' \in [Rank -> [Rank -> Seq(Message)]]
  BY <1>2, TakenType DEF FenceResponseHandler, Consume
<1>4. notify' \in [Rank -> Int]
  <2>1. notify \in [Rank -> Int]
    BY DEF TypeInv, TypeOK
  <2> QED BY <2>1 DEF FenceResponseHandler
<1> QED BY <1>1, <1>3, <1>4 DEF ControlTyped, TypeInv, TypeOK, FenceResponseHandler, issuing,
            barriers, locks, memory

-----------------------------------------------------------------------------
(* comex_barrier *)

\* The state of barriers
LEMMA BarrierVars ==
    ASSUME TypeInv
    PROVE  /\ todo \in [Rank -> SUBSET Rank]
           /\ bq \in [Rank -> Seq(Waiter)]
           /\ kept \in [Rank -> Seq(Waiter)]
           /\ reqs \in [Rank -> SUBSET Rank]
           /\ resps \in [Rank -> [Rank -> Nat]]
  BY DEF TypeInv, TypeOK

\* A barrier request to one of the members that are left
LEMMA SendRequestType ==
    ASSUME TypeInv, NEW r \in Rank, NEW ps \in SUBSET Rank, NEW p \in ps,
           SendRequest(r, p, ps), pc[r] \in DOMAIN prog[r], step[r] = 0, UNCHANGED step
    PROVE  /\ ControlTyped'
           /\ chan' \in [Rank -> [Rank -> Seq(Message)]]
           /\ todo' \in [Rank -> SUBSET Rank]
<1>1. Progress(r, "breq") \/ Pushed(r, "bsend")
  BY DEF SendRequest
<1>2. ControlTyped'
  BY <1>1, PhaseType DEF Phase
<1>3. Msg("OP_BARRIER_REQUEST", 0, 0, pc[r]) \in Message
  BY MessageType, ControlVars DEF OpCode, CellOp
<1>4. chan' \in [Rank -> [Rank -> Seq(Message)]]
  BY <1>3, PushType DEF SendRequest
<1>5. todo' \in [Rank -> SUBSET Rank]
  BY BarrierVars DEF SendRequest
<1> QED BY <1>2, <1>4, <1>5

LEMMA BarrierStartType ==
    ASSUME TypeInv, NEW r \in Rank, BarrierStart(r)
    PROVE  TypeInv'
<1>1. pc[r] \in DOMAIN prog[r] /\ step[r] = 0 /\ Cur(r) \in Call
  BY CallsType DEF BarrierStart
<1>2. /\ ControlTyped'
      /\ chan' \in [Rank -> [Rank -> Seq(Message)]]
      /\ todo' \in [Rank -> SUBSET Rank]
  <2>1. CASE Cur(r).grp \ {r} = {}
    <3>1. Progress(r, "breq") /\ UNCHANGED <<chan, todo, step>>
      BY <2>1 DEF BarrierStart
    <3>2. ControlTyped'
      BY <1>1, <3>1, PhaseType DEF Phase
    <3> QED BY <3>1, <3>2 DEF TypeInv, TypeOK
  <2>2. CASE Cur(r).grp \ {r} # {}
    <3>1. Cur(r).grp \ {r} \in SUBSET Rank
      BY <1>1 DEF Call
    <3>2. PICK p \in Cur(r).grp \ {r} : SendRequest(r, p, Cur(r).grp \ {r})
      BY <2>2 DEF BarrierStart
    <3> QED BY <1>1, <3>1, <3>2, SendRequestType DEF BarrierStart
  <2> QED BY <2>1, <2>2
<1>3. reqs' \in [Rank -> SUBSET Rank] /\ resps' \in [Rank -> [Rank -> Nat]]
  BY BarrierVars DEF BarrierStart
<1> QED BY <1>2, <1>3 DEF ControlTyped, TypeInv, TypeOK, BarrierStart, waiting,
            locks, memory

LEMMA BarrierSendType ==
    ASSUME TypeInv, NEW r \in Rank, BarrierSend(r)
    PROVE  TypeInv'
<1>1. pc[r] \in DOMAIN prog[r] /\ step[r] = 0
  BY ControlVars DEF BarrierSend, ControlOK
<1>2. PICK p \in todo[r] : SendRequest(r, p, todo[r])
  BY DEF BarrierSend
<1>3. /\ ControlTyped'
      /\ chan' \in [Rank -> [Rank -> Seq(Message)]]
      /\ todo' \in [Rank -> SUBSET Rank]
  BY <1>1, <1>2, BarrierVars, SendRequestType DEF BarrierSend
<1> QED BY <1>3 DEF ControlTyped, TypeInv, TypeOK, BarrierSend, waiting,
            barriers, locks, memory

\* A rank in a barrier, and the call it makes
LEMMA InBarrier ==
    ASSUME TypeInv, NEW r \in Rank, phase[r] \notin {"idle", "issue"}
    PROVE  pc[r] \in DOMAIN prog[r] /\ step[r] = 0 /\ Cur(r) \in Call
  BY ControlVars, CurType DEF ControlOK

LEMMA BarrierGatheredType ==
    ASSUME TypeInv, NEW r \in Rank, BarrierGathered(r)
    PROVE  TypeInv'
<1>1. pc[r] \in DOMAIN prog[r] /\ step[r] = 0 /\ Cur(r) \in Call
  BY InBarrier DEF BarrierGathered
<1>2. ControlTyped'
  BY <1>1, PhaseType DEF BarrierGathered, issuing, Phase
<1>3. reqs' \in [Rank -> SUBSET Rank] /\ resps' \in [Rank -> [Rank -> Nat]]
  BY <1>1, BarrierVars DEF BarrierGathered, Call
<1> QED BY <1>2, <1>3 DEF ControlTyped, TypeInv, TypeOK, BarrierGathered, waiting,
            issuing, locks, memory

\* The head and the tail of the barrier queue
LEMMA QueueType ==
    ASSUME TypeInv, NEW r \in Rank, bq[r] # <<>>
    PROVE  Head(bq[r]) \in Waiter /\ Tail(bq[r]) \in Seq(Waiter)
  BY BarrierVars, HeadTailProperties

LEMMA BarrierAnswerType ==
    ASSUME TypeInv, NEW r \in Rank, BarrierAnswer(r)
    PROVE  TypeInv'
<1>1. pc[r] \in DOMAIN prog[r] /\ step[r] = 0
  BY InBarrier DEF BarrierAnswer
<1>2. ControlTyped'
  BY <1>1, PhaseType DEF BarrierAnswer, issuing, Phase
<1>3. Head(bq[r]) \in Waiter /\ Tail(bq[r]) \in Seq(Waiter)
  BY QueueType DEF BarrierAnswer, Answerable
<1>4. Msg("OP_BARRIER_RESPONSE", 0, 0, Head(bq[r]).call) \in Message
  BY <1>3, MessageType DEF OpCode, CellOp, Waiter
<1>5. chan' \in [Rank -> [Rank -> Seq(Message)]]
  BY <1>3, <1>4, PushType DEF BarrierAnswer, Waiter
<1>6. reqs' \in [Rank -> SUBSET Rank] /\ bq' \in [Rank -> Seq(Waiter)]
  BY <1>3, BarrierVars DEF BarrierAnswer
<1> QED BY <1>2, <1>5, <1>6 DEF ControlTyped, TypeInv, TypeOK, BarrierAnswer, waiting,
            issuing, locks, memory

LEMMA BarrierKeepType ==
    ASSUME TypeInv, NEW r \in Rank, BarrierKeep(r)
    PROVE  TypeInv'
<1>1. pc[r] \in DOMAIN prog[r] /\ step[r] = 0
  BY InBarrier DEF BarrierKeep
<1>2. ControlTyped'
  BY <1>1, PhaseType DEF BarrierKeep, issuing, Phase
<1>3. Head(bq[r]) \in Waiter /\ Tail(bq[r]) \in Seq(Waiter)
  BY QueueType DEF BarrierKeep
<1>4. Append(kept[r], Head(bq[r])) \in Seq(Waiter)
  BY <1>3, BarrierVars
<1>5. kept' \in [Rank -> Seq(Waiter)] /\ bq' \in [Rank -> Seq(Waiter)]
  BY <1>3, <1>4, BarrierVars DEF BarrierKeep
<1> QED BY <1>2, <1>5 DEF ControlTyped, TypeInv, TypeOK, BarrierKeep, waiting,
            issuing, locks, memory

LEMMA BarrierScannedType ==
    ASSUME TypeInv, NEW r \in Rank, BarrierScanned(r)
    PROVE  TypeInv'
<1>1. pc[r] \in DOMAIN prog[r] /\ step[r] = 0
  BY InBarrier DEF BarrierScanned
<1>2. Progress(r, "bwait") \/ Progress(r, "bscan")
  BY DEF BarrierScanned
<1>3. ControlTyped'
  BY <1>1, <1>2, PhaseType DEF BarrierScanned, issuing, Phase
<1>4. <<>> \in Seq(Waiter)
  OBVIOUS
<1>5. kept' \in [Rank -> Seq(Waiter)] /\ bq' \in [Rank -> Seq(Waiter)]
  BY <1>4, BarrierVars DEF BarrierScanned
<1> QED BY <1>3, <1>5 DEF ControlTyped, TypeInv, TypeOK, BarrierScanned, waiting,
            issuing, locks, memory

LEMMA BarrierReturnType ==
    ASSUME TypeInv, NEW r \in Rank, BarrierReturn(r)
    PROVE  TypeInv'
<1>1. step[r] = 0
  BY InBarrier DEF BarrierReturn
<1>2. ControlTyped'
  BY <1>1, Returns DEF BarrierReturn, issuing
<1> QED BY <1>2 DEF ControlTyped, TypeInv, TypeOK, BarrierReturn, waiting, issuing,
            barriers, locks, memory

-----------------------------------------------------------------------------
(* Collective memory *)

LEMMA LocalSegmentType ==
    ASSUME TypeInv, NEW r \in Rank, LocalSegment(r)
    PROVE  TypeInv'
<1>1. step[r] = 0
  BY CallsType DEF LocalSegment
<1>2. ControlTyped'
  BY <1>1, Returns DEF LocalSegment, issuing
<1> QED BY <1>2 DEF ControlTyped, TypeInv, TypeOK, LocalSegment, waiting, issuing,
            barriers, locks, memory

LEMMA GatherStartType ==
    ASSUME TypeInv, NEW r \in Rank, GatherStart(r)
    PROVE  TypeInv'
<1>1. pc[r] \in DOMAIN prog[r] /\ step[r] = 0
  BY CallsType DEF GatherStart
<1>2. ControlTyped'
  BY <1>1, PhaseType DEF GatherStart, issuing, Phase
<1> QED BY <1>2 DEF ControlTyped, TypeInv, TypeOK, GatherStart, waiting, issuing,
            barriers, locks, memory

LEMMA GatherReturnType ==
    ASSUME TypeInv, NEW r \in Rank, GatherReturn(r)
    PROVE  TypeInv'
<1>1. step[r] = 0
  BY InBarrier DEF GatherReturn
<1>2. ControlTyped'
  BY <1>1, Returns DEF GatherReturn, issuing
<1> QED BY <1>2 DEF ControlTyped, TypeInv, TypeOK, GatherReturn, waiting, issuing,
            barriers, locks, memory

-----------------------------------------------------------------------------
(* Barrier messages *)

LEMMA BarrierRequestHandlerType ==
    ASSUME TypeInv, NEW r \in Rank, NEW s \in Rank, BarrierRequestHandler(r, s)
    PROVE  TypeInv'
<1>1. ControlTyped'
  BY SameControl DEF BarrierRequestHandler, control, issuing
<1>2. chan[s][r] # <<>> /\ Head(chan[s][r]) \in Message
  BY HeadType DEF BarrierRequestHandler, Receives
<1>3. chan' \in [Rank -> [Rank -> Seq(Message)]]
  BY <1>2, TakenType DEF BarrierRequestHandler, Consume
<1>4. [rank |-> s, call |-> Head(chan[s][r]).call] \in Waiter
  BY <1>2 DEF Waiter, Message
<1>5. Append(bq[r], [rank |-> s, call |-> Head(chan[s][r]).call]) \in Seq(Waiter)
  BY <1>4, BarrierVars
<1>6. bq' \in [Rank -> Seq(Waiter)]
  BY <1>5, BarrierVars DEF BarrierRequestHandler
<1> QED BY <1>1, <1>3, <1>6 DEF ControlTyped, TypeInv, TypeOK, BarrierRequestHandler,
            waiting, issuing, locks, memory

LEMMA BarrierResponseHandlerType ==
    ASSUME TypeInv, NEW r \in Rank, NEW s \in Rank, BarrierResponseHandler(r, s)
    PROVE  TypeInv'
<1>1. ControlTyped'
  BY SameControl DEF BarrierResponseHandler, control, issuing
<1>2. chan[s][r] # <<>> /\ Head(chan[s][r]) \in Message
  BY HeadType DEF BarrierResponseHandler, Receives
<1>3. chan' \in [Rank -> [Rank -> Seq(Message)]]
  BY <1>2, TakenType DEF BarrierResponseHandler, Consume
<1>4. resps' \in [Rank -> [Rank -> Nat]]
  BY BarrierVars DEF BarrierResponseHandler
<1> QED BY <1>1, <1>3, <1>4 DEF ControlTyped, TypeInv, TypeOK, BarrierResponseHandler,
            waiting, issuing, locks, memory

-----------------------------------------------------------------------------
(* Mutexes *)

\* The state of the mutexes
LEMMA LockVars ==
    ASSUME TypeInv
    PROVE  /\ notify \in [Rank -> Int]
           /\ nmutex \in [Rank -> 0 .. NumMutexes]
           /\ mutexes \in [Rank -> [Mutex -> Rank \cup {Nobody}]]
           /\ lq \in [Rank -> [Mutex -> Seq(Waiter)]]
           /\ held \in [Rank -> SUBSET (Rank \X Nat)]
  BY DEF TypeInv, TypeOK

\* A step that only sets aborted
LEMMA AbortType ==
    ASSUME TypeInv, Abort
    PROVE  TypeInv'
<1>1. ControlTyped'
  BY SameControl DEF Abort, control, issuing
<1> QED BY <1>1 DEF ControlTyped, TypeInv, TypeOK, Abort, waiting, issuing,
            barriers, locks, memory

LEMMA CreateMutexesType ==
    ASSUME TypeInv, NEW r \in Rank, CreateMutexes(r)
    PROVE  TypeInv'
<1>1. CASE Abort
  BY <1>1, AbortType
<1>2. CASE ~Abort
  <2>1. /\ Calls(r, "create")
        /\ nmutex' = [nmutex EXCEPT ![r] = Cur(r).loc]
        /\ mutexes' = [mutexes EXCEPT ![r] = [m \in Mutex |-> Nobody]]
        /\ Return(r)
        /\ UNCHANGED <<chan, waiting, fence, issuing, barriers, lq, held,
                       memory, aborted>>
    BY <1>2 DEF CreateMutexes
  <2>2. step[r] = 0 /\ Cur(r) \in Call /\ Cur(r).op = "create"
    BY <2>1, CallsType
  <2>3. ControlTyped'
    BY <2>1, <2>2, Returns DEF issuing
  <2>4. Cur(r).loc \in 0 .. NumMutexes
    BY <2>2, BoundAssumption DEF Call
  <2>5. nmutex' \in [Rank -> 0 .. NumMutexes]
    BY <2>1, <2>4, LockVars
  <2>6. mutexes' \in [Rank -> [Mutex -> Rank \cup {Nobody}]]
    BY <2>1, LockVars
  <2> QED BY <2>1, <2>3, <2>5, <2>6 DEF ControlTyped, TypeInv, TypeOK, waiting,
              issuing, barriers, memory
<1> QED BY <1>1, <1>2

LEMMA LockType ==
    ASSUME TypeInv, NEW r \in Rank, Lock(r)
    PROVE  TypeInv'
<1>1. /\ pc[r] \in DOMAIN prog[r] /\ step[r] = 0
      /\ Cur(r) \in Call
  BY CallsType DEF Lock
<1>2. ControlTyped'
  BY <1>1, PhaseType DEF Lock, issuing, Phase
<1>3. Cur(r).loc \in Nat /\ Cur(r).to \in Rank /\ pc[r] \in Nat
  BY <1>1, ControlVars DEF Call
<1>4. Msg("OP_LOCK_REQUEST", Cur(r).loc, 0, pc[r]) \in Message
  BY <1>3, MessageType DEF OpCode, CellOp
<1>5. chan' \in [Rank -> [Rank -> Seq(Message)]]
  BY <1>3, <1>4, PushType DEF Lock
<1>6. notify' \in [Rank -> Int]
  BY LockVars DEF Lock
<1> QED BY <1>2, <1>5, <1>6 DEF ControlTyped, TypeInv, TypeOK, Lock, issuing,
            barriers, locks, memory

LEMMA LockReturnType ==
    ASSUME TypeInv, NEW r \in Rank, LockReturn(r)
    PROVE  TypeInv'
<1>1. /\ step[r] = 0 /\ Cur(r) \in Call
  BY InBarrier DEF LockReturn
<1>2. ControlTyped'
  BY <1>1, Returns DEF LockReturn, issuing
<1>3. <<Cur(r).to, Cur(r).loc>> \in Rank \X Nat
  BY <1>1 DEF Call
<1>4. held' \in [Rank -> SUBSET (Rank \X Nat)]
  BY <1>3, LockVars DEF LockReturn
<1> QED BY <1>2, <1>4 DEF ControlTyped, TypeInv, TypeOK, LockReturn, waiting, issuing,
            barriers, memory

LEMMA UnlockType ==
    ASSUME TypeInv, NEW r \in Rank, Unlock(r)
    PROVE  TypeInv'
<1>1. /\ pc[r] \in DOMAIN prog[r] /\ step[r] = 0
      /\ Cur(r) \in Call
  BY CallsType DEF Unlock
<1>2. ControlTyped'
  BY <1>1, PhaseType DEF Unlock, issuing, Phase
<1>3. Cur(r).loc \in Nat /\ Cur(r).to \in Rank /\ pc[r] \in Nat
  BY <1>1, ControlVars DEF Call
<1>4. Msg("OP_UNLOCK", Cur(r).loc, 0, pc[r]) \in Message
  BY <1>3, MessageType DEF OpCode, CellOp
<1>5. chan' \in [Rank -> [Rank -> Seq(Message)]]
  BY <1>3, <1>4, PushType DEF Unlock
<1>6. held' \in [Rank -> SUBSET (Rank \X Nat)]
  BY LockVars DEF Unlock
<1> QED BY <1>2, <1>5, <1>6 DEF ControlTyped, TypeInv, TypeOK, Unlock, waiting, issuing,
            barriers, memory

LEMMA DestroyReturnType ==
    ASSUME TypeInv, NEW r \in Rank, DestroyReturn(r)
    PROVE  TypeInv'
<1>1. step[r] = 0
  BY InBarrier DEF DestroyReturn
<1>2. ControlTyped'
  BY <1>1, Returns DEF DestroyReturn, issuing
<1>3. nmutex' \in [Rank -> 0 .. NumMutexes]
  BY LockVars, BoundAssumption DEF DestroyReturn
<1> QED BY <1>2, <1>3 DEF ControlTyped, TypeInv, TypeOK, DestroyReturn, waiting, issuing,
            barriers, memory

\* What _lq_progress leaves behind
LEMMA LqProgressType ==
    ASSUME TypeInv, NEW r \in Rank, NEW s \in Rank, chan[s][r] # <<>>,
           NEW id \in Mutex, NEW holder \in Rank \cup {Nobody},
           NEW queue \in Seq(Waiter), LqProgress(r, s, id, holder, queue)
    PROVE  /\ chan' \in [Rank -> [Rank -> Seq(Message)]]
           /\ mutexes' \in [Rank -> [Mutex -> Rank \cup {Nobody}]]
           /\ lq' \in [Rank -> [Mutex -> Seq(Waiter)]]
<1>1. CASE holder = Nobody /\ queue # <<>>
  <2>1. Head(queue) \in Waiter /\ Tail(queue) \in Seq(Waiter)
    BY <1>1, HeadTailProperties
  <2>2. /\ mutexes' = [mutexes EXCEPT ![r][id] = Head(queue).rank]
        /\ lq' = [lq EXCEPT ![r][id] = Tail(queue)]
        /\ Answer(r, s, Head(queue).rank,
                  Msg("OP_LOCK_RESPONSE", -1, 0, Head(queue).call))
    BY <1>1 DEF LqProgress
  <2>3. Head(queue).rank \in Rank /\ Head(queue).call \in Nat
    BY <2>1 DEF Waiter
  <2>4. Msg("OP_LOCK_RESPONSE", -1, 0, Head(queue).call) \in Message
    BY <2>3, MessageType DEF OpCode, CellOp
  <2>5. chan' \in [Rank -> [Rank -> Seq(Message)]]
    BY <2>2, <2>3, <2>4, AnswerType
  <2> QED BY <2>1, <2>2, <2>3, <2>5, LockVars
<1>2. CASE ~(holder = Nobody /\ queue # <<>>)
  <2>1. /\ mutexes' = [mutexes EXCEPT ![r][id] = holder]
        /\ lq' = [lq EXCEPT ![r][id] = queue]
        /\ chan' = Taken(r, s)
    BY <1>2 DEF LqProgress, Consume
  <2> QED BY <2>1, TakenType, LockVars
<1> QED BY <1>1, <1>2

\* A mutex id the table covers
LEMMA MutexId ==
    ASSUME TypeInv, NEW r \in Rank, NEW id \in Nat, ~NoSuchMutex(r, id)
    PROVE  id \in Mutex /\ id < nmutex[r]
<1>1. nmutex[r] \in 0 .. NumMutexes
  BY LockVars
<1> QED BY <1>1, BoundAssumption DEF NoSuchMutex, Mutex

LEMMA LockRequestHandlerType ==
    ASSUME TypeInv, NEW r \in Rank, NEW s \in Rank, LockRequestHandler(r, s)
    PROVE  TypeInv'
<1> DEFINE m == Head(chan[s][r])
<1> DEFINE w == [rank |-> s, call |-> m.call]
<1>1. chan[s][r] # <<>> /\ m \in Message /\ m.op = "OP_LOCK_REQUEST"
  BY HeadType DEF LockRequestHandler, Receives
<1>2. m.loc \in Nat /\ m.call \in Nat
  BY <1>1 DEF Message
<1>3. CASE NoSuchMutex(r, m.loc)
  BY <1>3, AbortType DEF LockRequestHandler
<1>4. CASE ~NoSuchMutex(r, m.loc)
  <2>1. /\ LqProgress(r, s, m.loc, mutexes[r][m.loc], Append(lq[r][m.loc], w))
        /\ UNCHANGED <<control, waiting, fence, issuing, barriers, nmutex, held,
                       memory, aborted>>
    BY <1>4 DEF LockRequestHandler
  <2>2. m.loc \in Mutex
    BY <1>2, <1>4, MutexId
  <2>3. w \in Waiter
    BY <1>2 DEF Waiter
  <2>4. Append(lq[r][m.loc], w) \in Seq(Waiter) /\ mutexes[r][m.loc] \in Rank \cup {Nobody}
    BY <2>2, <2>3, LockVars
  <2>5. /\ chan' \in [Rank -> [Rank -> Seq(Message)]]
        /\ mutexes' \in [Rank -> [Mutex -> Rank \cup {Nobody}]]
        /\ lq' \in [Rank -> [Mutex -> Seq(Waiter)]]
    BY <1>1, <2>1, <2>2, <2>4, LqProgressType
  <2>6. ControlTyped'
    BY <2>1, SameControl DEF control, issuing
  <2> QED BY <2>1, <2>5, <2>6 DEF ControlTyped, TypeInv, TypeOK, waiting, issuing,
              barriers, memory
<1> QED BY <1>3, <1>4

LEMMA UnlockRequestHandlerType ==
    ASSUME TypeInv, NEW r \in Rank, NEW s \in Rank, UnlockRequestHandler(r, s)
    PROVE  TypeInv'
<1> DEFINE m == Head(chan[s][r])
<1>1. chan[s][r] # <<>> /\ m \in Message /\ m.op = "OP_UNLOCK"
  BY HeadType DEF UnlockRequestHandler, Receives
<1>2. m.loc \in Nat
  BY <1>1 DEF Message
<1>3. CASE NoSuchMutex(r, m.loc) \/ mutexes[r][m.loc] # s
  BY <1>3, AbortType DEF UnlockRequestHandler
<1>4. CASE ~(NoSuchMutex(r, m.loc) \/ mutexes[r][m.loc] # s)
  <2>1. /\ LqProgress(r, s, m.loc, Nobody, lq[r][m.loc])
        /\ UNCHANGED <<control, waiting, fence, issuing, barriers, nmutex, held,
                       memory, aborted>>
    BY <1>4 DEF UnlockRequestHandler
  <2>2. m.loc \in Mutex
    BY <1>2, <1>4, MutexId
  <2>3. lq[r][m.loc] \in Seq(Waiter)
    BY <2>2, LockVars
  <2>4. /\ chan' \in [Rank -> [Rank -> Seq(Message)]]
        /\ mutexes' \in [Rank -> [Mutex -> Rank \cup {Nobody}]]
        /\ lq' \in [Rank -> [Mutex -> Seq(Waiter)]]
    BY <1>1, <2>1, <2>2, <2>3, LqProgressType
  <2>5. ControlTyped'
    BY <2>1, SameControl DEF control, issuing
  <2> QED BY <2>1, <2>4, <2>5 DEF ControlTyped, TypeInv, TypeOK, waiting, issuing,
              barriers, memory
<1> QED BY <1>3, <1>4

LEMMA LockResponseHandlerType ==
    ASSUME TypeInv, NEW r \in Rank, NEW s \in Rank, LockResponseHandler(r, s)
    PROVE  TypeInv'
<1>1. ControlTyped'
  BY SameControl DEF LockResponseHandler, control, issuing
<1>2. chan[s][r] # <<>>
  BY DEF LockResponseHandler, Receives
<1>3. chan' \in [Rank -> [Rank -> Seq(Message)]]
  BY <1>2, TakenType DEF LockResponseHandler, Consume
<1>4. notify' \in [Rank -> Int]
  BY LockVars DEF LockResponseHandler
<1> QED BY <1>1, <1>3, <1>4 DEF ControlTyped, TypeInv, TypeOK, LockResponseHandler,
            issuing, barriers, locks, memory

-----------------------------------------------------------------------------
(* The whole runtime *)

LEMMA InitType == Init => TypeInv
<1> SUFFICES ASSUME Init PROVE TypeInv
  OBVIOUS
<1>1. ControlOK
  BY DEF Init, ControlOK
<1>2. /\ prog \in Programs
      /\ pc \in [Rank -> Nat \ {0}]
      /\ phase \in [Rank -> Phase]
      /\ busy \in [Rank -> BOOLEAN]
      /\ chan \in [Rank -> [Rank -> Seq(Message)]]
      /\ posted \in [Rank -> Nat]
  BY DEF Init, Phase
<1>3. /\ gets \in [Rank -> Int]
      /\ notify \in [Rank -> Int]
      /\ fence \in [Rank -> [Rank -> BOOLEAN]]
      /\ todo \in [Rank -> SUBSET Rank]
      /\ step \in [Rank -> Nat]
  BY DEF Init
<1>4. /\ bq \in [Rank -> Seq(Waiter)]
      /\ kept \in [Rank -> Seq(Waiter)]
      /\ reqs \in [Rank -> SUBSET Rank]
      /\ resps \in [Rank -> [Rank -> Nat]]
  BY DEF Init
<1>5. /\ nmutex \in [Rank -> 0 .. NumMutexes]
      /\ mutexes \in [Rank -> [Mutex -> Rank \cup {Nobody}]]
      /\ lq \in [Rank -> [Mutex -> Seq(Waiter)]]
      /\ held \in [Rank -> SUBSET (Rank \X Nat)]
  BY BoundAssumption DEF Init
<1>6. mem \in [Rank -> [Cell -> Int]] /\ aborted \in BOOLEAN
  <2>1. [c \in Cell |-> 0] \in [Cell -> Int]
    OBVIOUS
  <2>2. mem = [r \in Rank |-> [c \in Cell |-> 0]] /\ aborted = FALSE
    BY DEF Init
  <2> QED BY <2>1, <2>2
<1>7. res \in [Rank -> Seq(Int)]
  <2>1. <<>> \in Seq(Int)
    OBVIOUS
  <2> QED BY <2>1 DEF Init
<1> QED BY <1>1, <1>2, <1>3, <1>4, <1>5, <1>6, <1>7 DEF TypeInv, TypeOK

\* Every step of every rank keeps the types.
LEMMA NextType == TypeInv /\ [Next]_vars => TypeInv'
<1> SUFFICES ASSUME TypeInv, [Next]_vars PROVE TypeInv'
  OBVIOUS
<1>1. ASSUME NEW r \in Rank, DataStep(r) PROVE TypeInv'
  BY <1>1, PutSelfType, PutRemoteType, AccSelfType, AccRemoteType, GetSelfType,
     GetRemoteType, WaitStartType, RmwStartType, FenceNothingType,
     FenceStartType, FenceNextType, FenceReturnType, CallReturnType DEF DataStep
<1>2. ASSUME NEW r \in Rank, BarrierStep(r) PROVE TypeInv'
  BY <1>2, BarrierStartType, BarrierSendType, BarrierGatheredType,
     BarrierAnswerType, BarrierKeepType, BarrierScannedType, BarrierReturnType
     DEF BarrierStep
<1>3. ASSUME NEW r \in Rank, MutexStep(r) PROVE TypeInv'
  BY <1>3, CreateMutexesType, LockType, LockReturnType, UnlockType,
     DestroyReturnType DEF MutexStep
<1>4. ASSUME NEW r \in Rank, NEW s \in Rank, Receive(r, s) PROVE TypeInv'
  <2>1. CASE DataReceive(r, s)
    BY <2>1, PutHandlerType, AccHandlerType, GetRequestHandlerType,
       GetResponseHandlerType, FetchAndAddRequestHandlerType,
       SwapRequestHandlerType, RmwResponseHandlerType,
       FenceRequestHandlerType, FenceResponseHandlerType DEF DataReceive
  <2>2. CASE BarrierReceive(r, s)
    BY <2>2, BarrierRequestHandlerType, BarrierResponseHandlerType
       DEF BarrierReceive
  <2>3. CASE MutexReceive(r, s)
    BY <2>3, LockRequestHandlerType, UnlockRequestHandlerType,
       LockResponseHandlerType DEF MutexReceive
  <2> QED BY <1>4, <2>1, <2>2, <2>3 DEF Receive
<1>6. ASSUME NEW r \in Rank, MemoryStep(r) PROVE TypeInv'
  BY <1>6, LocalSegmentType, GatherStartType, GatherReturnType DEF MemoryStep
<1>5. CASE UNCHANGED vars
  <2>1. ControlTyped'
    BY <1>5, SameControl DEF vars, issuing
  <2> QED BY <1>5, <2>1 DEF vars, ControlTyped, TypeInv, TypeOK, waiting, issuing,
              barriers, locks, memory
<1> QED BY <1>1, <1>2, <1>3, <1>4, <1>5, <1>6 DEF Next, LocalStep, ReceiveStep, Over

\* In every state of every job the variables of the runtime have their types;
\* in particular no handler accesses a cell or a mutex out of range.
THEOREM TypeCorrect == Spec => []TypeOK
<1>1. TypeInv => TypeOK
  BY DEF TypeInv
<1> QED BY <1>1, InitType, NextType, PTL DEF Spec

-----------------------------------------------------------------------------
(* What a step leaves as it is *)

\* Call number c of r after a step: as Asked and AskedLock, with the state
\* after the step
AskedNext(r, c, ops) ==
    c <= pc'[r] /\ (c = pc'[r] => phase'[r] # "idle" /\ Cur(r)'.op \in ops)
AskedLockNext(r, c, s) ==
    c <= pc'[r] /\ (c = pc'[r] => Locking(r)' /\ Cur(r)'.to = s)

\* A message of s to d that a step may add
Fresh(s, d, m) ==
    /\ m.op = "OP_FENCE_REQUEST" => AskedNext(s, m.call, {"fence"})
    /\ m.op = "OP_FENCE_RESPONSE" => AskedNext(d, m.call, {"fence"})
    /\ m.op \in RmwRequest => AskedNext(s, m.call, RmwOp)
    /\ m.op \in RmwResponse => AskedNext(d, m.call, RmwOp)
    /\ m.op = "OP_LOCK_REQUEST" =>
          AskedLockNext(s, m.call, d) /\ (m.call = pc'[s] => Cur(s)'.loc = m.loc)
    /\ m.op = "OP_LOCK_RESPONSE" =>
          /\ AskedLockNext(d, m.call, s)
          /\ m.call = pc'[d] => Owned(d, s, Cur(d).loc)' /\ NoUnlock(d, s)'
    /\ m.op = "OP_UNLOCK" => ~Locking(s)' /\ <<d, m.loc>> \notin held'[s]

\* A channel from s to d that has lost at most its first message and gained
\* at most a fresh one
Moved(old, new, s, d) ==
    \E k \in {0, 1} : \A i \in DOMAIN new :
        \/ i + k \in DOMAIN old /\ new[i] = old[i + k]
        \/ i = Len(new) /\ Fresh(s, d, new[i])

AllMoved == \A s, d \in Rank : Moved(chan[s][d], chan'[s][d], s, d)

\* A rank that stays where it is, returns, or enters a phase from outside
\* comex_lock
Frame(q) ==
    \/ pc'[q] = pc[q] + 1
    \/ pc'[q] = pc[q] /\ phase'[q] = phase[q]
    \/ pc'[q] = pc[q] /\ ~Locking(q) /\ phase'[q] # "idle"

AllFrame == prog' = prog /\ \A q \in Rank : Frame(q)

\* A rank that is not told that its lock is granted
Quiet(q) ==
    Locking(q)' /\ notify'[q] = 0 =>
        Locking(q) /\ notify[q] = 0 /\ pc'[q] = pc[q]

AllCalm == AllFrame /\ \A q \in Rank : Quiet(q)

\* Mutex id of s is the one r owns, and r has not released it.
Claims(r, s, id) ==
    /\ Owned(r, s, id)
    /\ \A i \in DOMAIN chan[r][s] :
          chan[r][s][i].op = "OP_UNLOCK" => chan[r][s][i].loc # id

\* A mutex changes hands only if its owner has released it.
OwnedKept ==
    \A r, s \in Rank : \A id \in Mutex :
        Claims(r, s, id) => id < nmutex'[s] /\ mutexes'[s][id] = r

\* An entry of a queue was in it before, or may be added.
FreshEntry(s, id, w) ==
    \A q \in Rank : q = w.rank =>
        /\ AskedLockNext(q, w.call, s)
        /\ w.call = pc'[q] => Cur(q)'.loc = id /\ NoUnlock(q, s)'

QueueMoved ==
    \A s \in Rank : \A id \in Mutex : \A i \in DOMAIN lq'[s][id] :
        \/ \E j \in DOMAIN lq[s][id] : lq'[s][id][i] = lq[s][id][j]
        \/ FreshEntry(s, id, lq'[s][id][i])

\* A mutex that is held was held before, or its holder has just been told.
HeldMoved ==
    \A r \in Rank : \A h \in held'[r] :
        h \in held[r] \/ Claims(r, h[1], h[2])

-----------------------------------------------------------------------------
(* Channels *)

LEMMA MovedSame ==
    ASSUME NEW q \in Seq(Message), NEW s, NEW d
    PROVE  Moved(q, q, s, d)
  BY DEF Moved

LEMMA MovedAppend ==
    ASSUME NEW q \in Seq(Message), NEW s, NEW d, NEW m, Fresh(s, d, m)
    PROVE  Moved(q, Append(q, m), s, d)
<1>1. \A i \in DOMAIN Append(q, m) :
         \/ i + 0 \in DOMAIN q /\ Append(q, m)[i] = q[i + 0]
         \/ i = Len(Append(q, m)) /\ Append(q, m)[i] = m
  OBVIOUS
<1> QED BY <1>1 DEF Moved

LEMMA MovedTail ==
    ASSUME NEW q \in Seq(Message), q # <<>>, NEW s, NEW d
    PROVE  Moved(q, Tail(q), s, d)
<1>1. \A i \in DOMAIN Tail(q) : i + 1 \in DOMAIN q /\ Tail(q)[i] = q[i + 1]
  BY HeadTailProperties
<1> QED BY <1>1 DEF Moved

LEMMA MovedBoth ==
    ASSUME NEW q \in Seq(Message), q # <<>>, NEW s, NEW d, NEW m,
           Fresh(s, d, m)
    PROVE  Moved(q, Append(Tail(q), m), s, d)
<1>1. \A i \in DOMAIN Tail(q) : i + 1 \in DOMAIN q /\ Tail(q)[i] = q[i + 1]
  BY HeadTailProperties
<1>2. Tail(q) \in Seq(Message)
  BY HeadTailProperties
<1>3. \A i \in DOMAIN Append(Tail(q), m) :
         \/ i \in DOMAIN Tail(q) /\ Append(Tail(q), m)[i] = Tail(q)[i]
         \/ i = Len(Append(Tail(q), m)) /\ Append(Tail(q), m)[i] = m
  BY <1>2
<1>4. \A i \in DOMAIN Append(Tail(q), m) :
         \/ i + 1 \in DOMAIN q /\ Append(Tail(q), m)[i] = q[i + 1]
         \/ i = Len(Append(Tail(q), m)) /\ Append(Tail(q), m)[i] = m
  BY <1>1, <1>3
<1> QED BY <1>4 DEF Moved

LEMMA SameMoved ==
    ASSUME TypeInv, UNCHANGED chan
    PROVE  AllMoved
<1>1. \A s, d \in Rank : chan[s][d] \in Seq(Message)
  BY DEF TypeInv, TypeOK
<1> QED BY <1>1, MovedSame DEF AllMoved

LEMMA PushMoved ==
    ASSUME TypeInv, NEW r \in Rank, NEW d \in Rank, NEW m,
           Push(r, d, m), Fresh(r, d, m)
    PROVE  AllMoved
<1>1. chan \in [Rank -> [Rank -> Seq(Message)]]
  BY DEF TypeInv, TypeOK
<1>2. ASSUME NEW a \in Rank, NEW b \in Rank
      PROVE  Moved(chan[a][b], chan'[a][b], a, b)
  <2>1. CASE a = r /\ b = d
    <3>1. chan'[a][b] = Append(chan[a][b], m)
      BY <1>1, <2>1 DEF Push
    <3> QED BY <1>1, <2>1, <3>1, MovedAppend
  <2>2. CASE ~(a = r /\ b = d)
    <3>1. chan'[a][b] = chan[a][b]
      BY <1>1, <2>2 DEF Push
    <3> QED BY <1>1, <3>1, MovedSame
  <2> QED BY <2>1, <2>2
<1> QED BY <1>2 DEF AllMoved

LEMMA ConsumeMoved ==
    ASSUME TypeInv, NEW r \in Rank, NEW s \in Rank, chan[s][r] # <<>>, Consume(r, s)
    PROVE  AllMoved
<1>1. chan \in [Rank -> [Rank -> Seq(Message)]]
  BY DEF TypeInv, TypeOK
<1>2. ASSUME NEW a \in Rank, NEW b \in Rank
      PROVE  Moved(chan[a][b], chan'[a][b], a, b)
  <2>1. CASE a = s /\ b = r
    <3>1. chan'[a][b] = Tail(chan[a][b])
      BY <1>1, <2>1 DEF Consume, Taken
    <3> QED BY <1>1, <2>1, <3>1, MovedTail
  <2>2. CASE ~(a = s /\ b = r)
    <3>1. chan'[a][b] = chan[a][b]
      BY <1>1, <2>2 DEF Consume, Taken
    <3> QED BY <1>1, <3>1, MovedSame
  <2> QED BY <2>1, <2>2
<1> QED BY <1>2 DEF AllMoved

LEMMA AnswerMoved ==
    ASSUME TypeInv, NEW r \in Rank, NEW s \in Rank, chan[s][r] # <<>>,
           NEW d \in Rank, NEW m, Answer(r, s, d, m), Fresh(r, d, m)
    PROVE  AllMoved
<1>1. chan \in [Rank -> [Rank -> Seq(Message)]]
  BY DEF TypeInv, TypeOK
<1>2. /\ Taken(r, s) \in [Rank -> [Rank -> Seq(Message)]]
      /\ chan' = [Taken(r, s) EXCEPT ![r][d] = Append(@, m)]
  BY TakenType DEF Answer
<1>3. ASSUME NEW a \in Rank, NEW b \in Rank
      PROVE  /\ a = s /\ b = r => Taken(r, s)[a][b] = Tail(chan[a][b])
             /\ ~(a = s /\ b = r) => Taken(r, s)[a][b] = chan[a][b]
             /\ a = r /\ b = d => chan'[a][b] = Append(Taken(r, s)[a][b], m)
             /\ ~(a = r /\ b = d) => chan'[a][b] = Taken(r, s)[a][b]
  <2>1. /\ a = s /\ b = r => Taken(r, s)[a][b] = Tail(chan[a][b])
        /\ ~(a = s /\ b = r) => Taken(r, s)[a][b] = chan[a][b]
    BY <1>1 DEF Taken
  <2>2. /\ a = r /\ b = d => chan'[a][b] = Append(Taken(r, s)[a][b], m)
        /\ ~(a = r /\ b = d) => chan'[a][b] = Taken(r, s)[a][b]
    BY <1>2
  <2> QED BY <2>1, <2>2
<1>4. ASSUME NEW a \in Rank, NEW b \in Rank
      PROVE  Moved(chan[a][b], chan'[a][b], a, b)
  <2> chan[a][b] \in Seq(Message)
    BY <1>1
  <2>1. CASE a = s /\ b = r /\ a = r /\ b = d
    <3>1. chan'[a][b] = Append(Tail(chan[a][b]), m)
      <4>1. Taken(r, s)[a][b] = Tail(chan[a][b])
        BY <1>3, <2>1
      <4>2. chan'[a][b] = Append(Taken(r, s)[a][b], m)
        BY <1>3, <2>1
      <4> QED BY <4>1, <4>2
    <3>2. Fresh(a, b, m) /\ chan[a][b] # <<>>
      BY <2>1
    <3> QED BY <3>1, <3>2, MovedBoth
  <2>2. CASE a = s /\ b = r /\ ~(a = r /\ b = d)
    <3>1. chan'[a][b] = Tail(chan[a][b]) /\ chan[a][b] # <<>>
      BY <1>3, <2>2
    <3> QED BY <3>1, MovedTail
  <2>3. CASE ~(a = s /\ b = r) /\ a = r /\ b = d
    <3>1. chan'[a][b] = Append(chan[a][b], m)
      <4>1. Taken(r, s)[a][b] = chan[a][b]
        BY <1>3, <2>3
      <4>2. chan'[a][b] = Append(Taken(r, s)[a][b], m)
        BY <1>3, <2>3
      <4> QED BY <4>1, <4>2
    <3>2. Fresh(a, b, m)
      BY <2>3
    <3> QED BY <3>1, <3>2, MovedAppend
  <2>4. CASE ~(a = s /\ b = r) /\ ~(a = r /\ b = d)
    BY <1>3, <2>4, MovedSame
  <2> QED BY <2>1, <2>2, <2>3, <2>4
<1> QED BY <1>4 DEF AllMoved

-----------------------------------------------------------------------------
(* What the frame conditions preserve *)

LEMMA FrameFacts ==
    ASSUME TypeInv, AllFrame, NEW q \in Rank
    PROVE  /\ pc[q] \in Nat /\ pc'[q] \in Nat /\ pc[q] <= pc'[q]
           /\ pc'[q] = pc[q] =>
                 /\ Cur(q)' = Cur(q)
                 /\ phase[q] # "idle" => phase'[q] # "idle"
                 /\ Locking(q) => Locking(q)'
<1>1. pc[q] \in Nat
  BY ControlVars
<1>2. prog' = prog /\ Frame(q)
  BY DEF AllFrame
<1>3. pc'[q] \in Nat /\ pc[q] <= pc'[q]
  BY <1>1, <1>2 DEF Frame
<1>4. ASSUME pc'[q] = pc[q]
      PROVE  /\ Cur(q)' = Cur(q)
             /\ phase[q] # "idle" => phase'[q] # "idle"
             /\ Locking(q) => Locking(q)'
  BY <1>1, <1>2, <1>4 DEF Frame, Locking, Cur
<1> QED BY <1>1, <1>3, <1>4

LEMMA AskedFrame ==
    ASSUME TypeInv, AllFrame, NEW q \in Rank, NEW c \in Nat, NEW ops, Asked(q, c, ops)
    PROVE  AskedNext(q, c, ops)
<1>1. c <= pc[q] /\ (c = pc[q] => phase[q] # "idle" /\ Cur(q).op \in ops)
  BY DEF Asked, In
<1>2. c <= pc'[q] /\ (c = pc'[q] => c = pc[q])
  BY <1>1, FrameFacts
<1> QED BY <1>1, <1>2, FrameFacts DEF AskedNext

\* A trace of a lock call: it is one afterwards, and if it is of the call in
\* progress it was so before.
LEMMA AskedLockFrame ==
    ASSUME TypeInv, AllFrame, NEW q \in Rank, NEW c \in Nat, NEW s, AskedLock(q, c, s)
    PROVE  /\ AskedLockNext(q, c, s)
           /\ c = pc'[q] => /\ c = pc[q] /\ Locking(q)' /\ Cur(q)' = Cur(q)
                            /\ Cur(q).to = s
<1>1. c <= pc[q] /\ (c = pc[q] => Locking(q) /\ Cur(q).to = s)
  BY DEF AskedLock
<1>2. c <= pc'[q] /\ (c = pc'[q] => c = pc[q])
  BY <1>1, FrameFacts
<1> QED BY <1>1, <1>2, FrameFacts DEF AskedLockNext

LEMMA ChanNext ==
    ASSUME TypeInv', NEW s \in Rank, NEW d \in Rank
    PROVE  /\ chan'[s][d] \in Seq(Message)
           /\ \A i \in DOMAIN chan'[s][d] :
                 chan'[s][d][i] \in Message /\ chan'[s][d][i].call \in Nat
<1>1. chan' \in [Rank -> [Rank -> Seq(Message)]]
  BY DEF TypeInv, TypeOK
<1>2. chan'[s][d] \in Seq(Message)
  BY <1>1
<1>3. \A i \in DOMAIN chan'[s][d] : chan'[s][d][i] \in Message
  BY <1>2
<1> QED BY <1>2, <1>3 DEF Message

LEMMA TagFrame ==
    ASSUME TypeInv, TypeInv', TagInv, AllFrame, AllMoved
    PROVE  TagInv'
<1> SUFFICES ASSUME NEW s \in Rank, NEW d \in Rank, NEW i \in DOMAIN chan'[s][d]
             PROVE  Tagged(s, d, chan[s][d][i])'
  BY DEF TagInv
<1> DEFINE m == chan'[s][d][i]
<1>1. m.call \in Nat
  BY ChanNext
<1>2. PICK k \in {0, 1} : \/ i + k \in DOMAIN chan[s][d] /\ m = chan[s][d][i + k]
                          \/ i = Len(chan'[s][d]) /\ Fresh(s, d, m)
  BY DEF AllMoved, Moved
<1>3. CASE Fresh(s, d, m)
  BY <1>3 DEF Fresh, Tagged, Asked, In, AskedNext, AskedLock, AskedLockNext
<1>4. CASE i + k \in DOMAIN chan[s][d] /\ m = chan[s][d][i + k]
  <2>1. Tagged(s, d, m)
    BY <1>4 DEF TagInv
  <2>2. /\ m.op = "OP_FENCE_REQUEST" => AskedNext(s, m.call, {"fence"})
        /\ m.op = "OP_FENCE_RESPONSE" => AskedNext(d, m.call, {"fence"})
        /\ m.op \in RmwRequest => AskedNext(s, m.call, RmwOp)
        /\ m.op \in RmwResponse => AskedNext(d, m.call, RmwOp)
    BY <1>1, <2>1, AskedFrame DEF Tagged
  <2>3. m.op = "OP_LOCK_REQUEST" =>
          AskedLockNext(s, m.call, d) /\ (m.call = pc'[s] => Cur(s)'.loc = m.loc)
    BY <1>1, <2>1, AskedLockFrame DEF Tagged
  <2>4. m.op = "OP_LOCK_RESPONSE" => AskedLockNext(d, m.call, s)
    BY <1>1, <2>1, AskedLockFrame DEF Tagged
  <2> QED BY <2>2, <2>3, <2>4 DEF Tagged, Asked, In, AskedNext, AskedLock, AskedLockNext
<1> QED BY <1>2, <1>3, <1>4

\* While a rank waits in comex_lock it sends no unlock message.
LEMMA NoUnlockFrame ==
    ASSUME AllMoved, NEW r \in Rank, NEW s \in Rank, NoUnlock(r, s), Locking(r)'
    PROVE  NoUnlock(r, s)'
<1> SUFFICES ASSUME NEW i \in DOMAIN chan'[r][s], chan'[r][s][i].op = "OP_UNLOCK"
             PROVE  FALSE
  BY DEF NoUnlock
<1>1. PICK k \in {0, 1} :
         \/ i + k \in DOMAIN chan[r][s] /\ chan'[r][s][i] = chan[r][s][i + k]
         \/ Fresh(r, s, chan'[r][s][i])
  BY DEF AllMoved, Moved
<1> QED BY <1>1 DEF NoUnlock, Fresh

LEMMA OrderFrame ==
    ASSUME TypeInv, TypeInv', TagInv, OrderInv, AllFrame, AllMoved
    PROVE  OrderInv'
<1> SUFFICES ASSUME NEW r \in Rank, NEW s \in Rank,
                    NEW i \in DOMAIN chan'[r][s], NEW j \in DOMAIN chan'[r][s],
                    chan'[r][s][i].op = "OP_LOCK_REQUEST",
                    chan'[r][s][i].call = pc'[r], i < j,
                    chan'[r][s][j].op = "OP_UNLOCK"
             PROVE  FALSE
  BY DEF OrderInv
<1>1. PICK k \in {0, 1} : \A n \in DOMAIN chan'[r][s] :
         \/ n + k \in DOMAIN chan[r][s] /\ chan'[r][s][n] = chan[r][s][n + k]
         \/ n = Len(chan'[r][s]) /\ Fresh(r, s, chan'[r][s][n])
  BY DEF AllMoved, Moved
<1>2. i \in Nat /\ j \in Nat /\ j <= Len(chan'[r][s]) /\ i # Len(chan'[r][s])
  BY ChanNext
<1>3. i + k \in DOMAIN chan[r][s] /\ chan'[r][s][i] = chan[r][s][i + k]
  BY <1>1, <1>2
<1>4. AskedLock(r, chan'[r][s][i].call, s)
  BY <1>3 DEF TagInv, Tagged
<1>5. chan'[r][s][i].call = pc[r] /\ Locking(r)'
  BY <1>4, ChanNext, AskedLockFrame
<1>6. ~Fresh(r, s, chan'[r][s][j])
  BY <1>5 DEF Fresh
<1>7. j + k \in DOMAIN chan[r][s] /\ chan'[r][s][j] = chan[r][s][j + k]
  BY <1>1, <1>6
<1>8. i + k < j + k
  BY <1>2
<1> QED BY <1>3, <1>5, <1>7, <1>8 DEF OrderInv

LEMMA QueueFrame ==
    ASSUME TypeInv, TypeInv', QueueInv, AllFrame, AllMoved, QueueMoved
    PROVE  QueueInv'
<1> SUFFICES ASSUME NEW s \in Rank, NEW id \in Mutex, NEW i \in DOMAIN lq'[s][id]
             PROVE  Queued(s, id, lq[s][id][i])'
  BY DEF QueueInv
<1>1. PICK w : w = lq'[s][id][i]
  OBVIOUS
<1>2. w.rank \in Rank /\ w.call \in Nat
  <2>1. lq' \in [Rank -> [Mutex -> Seq(Waiter)]]
    BY DEF TypeInv, TypeOK
  <2>2. lq'[s][id] \in Seq(Waiter)
    BY <2>1
  <2>3. w \in Waiter
    BY <1>1, <2>2
  <2> QED BY <2>3 DEF Waiter
<1>3. /\ AskedLockNext(w.rank, w.call, s)
      /\ w.call = pc'[w.rank] =>
            prog'[w.rank][pc'[w.rank]].loc = id /\ NoUnlock(w.rank, s)'
  <2>1. CASE FreshEntry(s, id, w)
    BY <1>2, <2>1 DEF FreshEntry, Cur
  <2>2. CASE \E j \in DOMAIN lq[s][id] : w = lq[s][id][j]
    <3>1. /\ AskedLock(w.rank, w.call, s)
          /\ w.call = pc[w.rank] => Cur(w.rank).loc = id /\ NoUnlock(w.rank, s)
      BY <2>2 DEF QueueInv, Queued
    <3>2. /\ AskedLockNext(w.rank, w.call, s)
          /\ w.call = pc'[w.rank] => /\ w.call = pc[w.rank] /\ Locking(w.rank)'
                                     /\ Cur(w.rank)' = Cur(w.rank)
      BY <1>2, <3>1, AskedLockFrame
    <3>3. ASSUME w.call = pc'[w.rank]
          PROVE  prog'[w.rank][pc'[w.rank]].loc = id /\ NoUnlock(w.rank, s)'
      BY <1>2, <3>1, <3>2, <3>3, NoUnlockFrame DEF Cur
    <3> QED BY <3>2, <3>3
  <2> QED BY <1>1, <2>1, <2>2 DEF QueueMoved
<1> QED BY <1>1, <1>3 DEF Queued, AskedLock, AskedLockNext, Locking, Cur, NoUnlock

LEMMA OwnedFrame ==
    ASSUME OwnedKept, NEW r \in Rank, NEW s \in Rank, NEW id, Claims(r, s, id)
    PROVE  id \in Mutex /\ id < nmutex'[s] /\ mutexes'[s][id] = r
  BY DEF OwnedKept, Claims, Owned

LEMMA GrantFrame ==
    ASSUME TypeInv, TypeInv', TagInv, GrantInv, AllFrame, AllMoved, OwnedKept
    PROVE  GrantInv'
<1> SUFFICES ASSUME NEW s \in Rank, NEW r \in Rank, NEW i \in DOMAIN chan'[s][r],
                    chan'[s][r][i].op = "OP_LOCK_RESPONSE",
                    chan'[s][r][i].call = pc'[r]
             PROVE  Owned(r, s, Cur(r).loc)' /\ NoUnlock(r, s)'
  BY DEF GrantInv
<1>1. PICK k \in {0, 1} :
         \/ i + k \in DOMAIN chan[s][r] /\ chan'[s][r][i] = chan[s][r][i + k]
         \/ Fresh(s, r, chan'[s][r][i])
  BY DEF AllMoved, Moved
<1>2. CASE Fresh(s, r, chan'[s][r][i])
  BY <1>2 DEF Fresh
<1>3. CASE i + k \in DOMAIN chan[s][r] /\ chan'[s][r][i] = chan[s][r][i + k]
  <2>1. AskedLock(r, chan'[s][r][i].call, s)
    BY <1>3 DEF TagInv, Tagged
  <2>2. chan'[s][r][i].call = pc[r] /\ Cur(r)' = Cur(r) /\ Locking(r)'
    BY <2>1, ChanNext, AskedLockFrame
  <2>3. Owned(r, s, Cur(r).loc) /\ NoUnlock(r, s)
    BY <1>3, <2>2 DEF GrantInv
  <2>4. Claims(r, s, Cur(r).loc)
    BY <2>3 DEF Claims, NoUnlock
  <2> QED BY <2>2, <2>3, <2>4, OwnedFrame, NoUnlockFrame DEF Owned
<1> QED BY <1>1, <1>2, <1>3

LEMMA GrantedFrame ==
    ASSUME TypeInv, GrantedInv, AllCalm, AllMoved, OwnedKept
    PROVE  GrantedInv'
<1> SUFFICES ASSUME NEW r \in Rank, Locking(r)', notify'[r] = 0
             PROVE  Owned(r, Cur(r).to, Cur(r).loc)' /\ NoUnlock(r, Cur(r).to)'
  BY DEF GrantedInv
<1>1. Locking(r) /\ notify[r] = 0 /\ Cur(r)' = Cur(r)
  BY FrameFacts DEF AllCalm, Quiet
<1>2. Owned(r, Cur(r).to, Cur(r).loc) /\ NoUnlock(r, Cur(r).to)
  BY <1>1 DEF GrantedInv
<1>3. Cur(r).to \in Rank
  <2>1. pc[r] \in DOMAIN prog[r]
    BY <1>1, ControlVars DEF Locking, ControlOK
  <2> QED BY <2>1, CurType DEF Call
<1>4. Claims(r, Cur(r).to, Cur(r).loc)
  BY <1>2 DEF Claims, NoUnlock
<1> QED BY <1>1, <1>2, <1>3, <1>4, OwnedFrame, NoUnlockFrame DEF Owned, NoUnlock

LEMMA HeldFrame ==
    ASSUME TypeInv, TypeInv', HeldInv, AllMoved, OwnedKept, HeldMoved
    PROVE  HeldInv'
<1> SUFFICES ASSUME NEW r \in Rank, NEW h \in held'[r]
             PROVE  /\ Owned(r, h[1], h[2])'
                    /\ \A i \in DOMAIN chan'[r][h[1]] :
                          chan'[r][h[1]][i].op = "OP_UNLOCK" =>
                              chan'[r][h[1]][i].loc # h[2]
  BY DEF HeldInv
<1>1. Claims(r, h[1], h[2])
  BY DEF HeldMoved, HeldInv, Claims
<1>2. h \in Rank \X Nat
  BY DEF TypeInv, TypeOK
<1>3. Owned(r, h[1], h[2])'
  BY <1>1, <1>2, OwnedFrame DEF Owned
<1>4. ASSUME NEW i \in DOMAIN chan'[r][h[1]], chan'[r][h[1]][i].op = "OP_UNLOCK"
      PROVE  chan'[r][h[1]][i].loc # h[2]
  <2>1. PICK k \in {0, 1} :
           \/ i + k \in DOMAIN chan[r][h[1]] /\ chan'[r][h[1]][i] = chan[r][h[1]][i + k]
           \/ Fresh(r, h[1], chan'[r][h[1]][i])
    BY <1>2 DEF AllMoved, Moved
  <2>2. CASE Fresh(r, h[1], chan'[r][h[1]][i])
    <3>1. <<h[1], chan'[r][h[1]][i].loc>> \notin held'[r]
      BY <1>4, <2>2 DEF Fresh
    <3>2. h = <<h[1], h[2]>>
      BY <1>2
    <3> QED BY <3>1, <3>2
  <2>3. CASE i + k \in DOMAIN chan[r][h[1]] /\ chan'[r][h[1]][i] = chan[r][h[1]][i + k]
    BY <1>1, <1>4, <2>3 DEF Claims
  <2> QED BY <2>1, <2>2, <2>3
<1> QED BY <1>3, <1>4

\* The frame of a step that may touch mutexes, and of one that does not
LEMMA MutexFrame ==
    ASSUME TypeInv, TypeInv', LockInv, AllFrame, AllMoved, OwnedKept, QueueMoved,
           HeldMoved, GrantedInv'
    PROVE  LockInv'
  BY TagFrame, OrderFrame, QueueFrame, GrantFrame, HeldFrame DEF LockInv

LEMMA LockFrame ==
    ASSUME TypeInv, TypeInv', LockInv, AllCalm, AllMoved, UNCHANGED locks
    PROVE  LockInv'
<1>1. OwnedKept
  BY DEF OwnedKept, Claims, Owned, locks
<1>2. QueueMoved
  BY DEF QueueMoved, locks
<1>3. HeldMoved
  BY DEF HeldMoved, locks
<1>4. GrantedInv'
  BY <1>1, GrantedFrame DEF LockInv
<1> QED BY <1>1, <1>2, <1>3, <1>4, MutexFrame DEF AllCalm

-----------------------------------------------------------------------------
\* Steps within a call, moves of a call other than lock, and returns
LEMMA SameFrame ==
    ASSUME UNCHANGED <<control, notify>>
    PROVE  AllCalm
  BY DEF control, AllCalm, AllFrame, Frame, Quiet, Locking, Cur

LEMMA MoveFrame ==
    ASSUME TypeInv, NEW r \in Rank, NEW ph \in Phase \ {"idle"},
           Progress(r, ph) \/ Proceed(r, ph) \/ Pushed(r, ph),
           ~Locking(r), ph = "wait" => Cur(r).op # "lock",
           \A q \in Rank \ {r} : notify'[q] = notify[q]
    PROVE  AllCalm
<1>1. prog' = prog /\ pc' = pc /\ phase' = [phase EXCEPT ![r] = ph]
  BY ControlType
<1>2. Frame(r) /\ Quiet(r)
  BY <1>1, ControlVars DEF Frame, Quiet, Locking, Cur
<1>3. ASSUME NEW q \in Rank \ {r} PROVE Frame(q) /\ Quiet(q)
  BY <1>1, <1>3, ControlVars DEF Frame, Quiet, Locking, Cur
<1> QED BY <1>1, <1>2, <1>3 DEF AllFrame, AllCalm

LEMMA ReturnFrame ==
    ASSUME TypeInv, NEW r \in Rank, Return(r), UNCHANGED notify
    PROVE  AllCalm
<1>1. /\ prog' = prog /\ pc' = [pc EXCEPT ![r] = @ + 1]
      /\ phase' = [phase EXCEPT ![r] = "idle"]
  BY DEF Return
<1>2. Frame(r) /\ Quiet(r)
  BY <1>1, ControlVars DEF Frame, Quiet, Locking
<1>3. ASSUME NEW q \in Rank \ {r} PROVE Frame(q) /\ Quiet(q)
  BY <1>1, <1>3, ControlVars DEF Frame, Quiet, Locking, Cur
<1> QED BY <1>1, <1>2, <1>3 DEF AllFrame, AllCalm

LEMMA BlockFrame ==
    ASSUME TypeInv, NEW r \in Rank, NEW ops \in SUBSET DataOp, NextBlock(r, ops),
           NEW pushed \in BOOLEAN, BlockIssued(r, pushed), UNCHANGED notify
    PROVE  AllCalm
<1>1. Cur(r).op \in DataOp
  BY BlockType
<1>2. ~Locking(r) /\ Cur(r).op # "lock"
  BY <1>1 DEF Locking, DataOp
<1>3. \E ph \in {"wait", "issue"} : Progress(r, ph) \/ Proceed(r, ph) \/ Pushed(r, ph)
  BY DEF BlockIssued
<1> QED BY <1>2, <1>3, MoveFrame DEF Phase

-----------------------------------------------------------------------------
(* The calls and handlers of ComexData and ComexBarrier *)

LEMMA PutSelfLock ==
    ASSUME TypeInv, TypeInv', LockInv, NEW r \in Rank, PutSelf(r)
    PROVE  LockInv'
<1>1. AllCalm
  BY BlockFrame DEF PutSelf, DataOp, waiting
<1>2. AllMoved
  BY SameMoved DEF PutSelf
<1> QED BY <1>1, <1>2, LockFrame DEF PutSelf

LEMMA AccSelfLock ==
    ASSUME TypeInv, TypeInv', LockInv, NEW r \in Rank, AccSelf(r)
    PROVE  LockInv'
<1>1. AllCalm
  BY BlockFrame DEF AccSelf, DataOp, waiting
<1>2. AllMoved
  BY SameMoved DEF AccSelf
<1> QED BY <1>1, <1>2, LockFrame DEF AccSelf

LEMMA GetSelfLock ==
    ASSUME TypeInv, TypeInv', LockInv, NEW r \in Rank, GetSelf(r)
    PROVE  LockInv'
<1>1. AllCalm
  BY BlockFrame DEF GetSelf, DataOp, waiting
<1>2. AllMoved
  BY SameMoved DEF GetSelf
<1> QED BY <1>1, <1>2, LockFrame DEF GetSelf

LEMMA PutRemoteLock ==
    ASSUME TypeInv, TypeInv', LockInv, NEW r \in Rank, PutRemote(r)
    PROVE  LockInv'
<1>1. AllCalm
  BY BlockFrame DEF PutRemote, DataOp, waiting
<1>2. AllMoved
  <2>1. Cur(r).to \in Rank
    BY BlockType DEF PutRemote, DataOp, Call
  <2>2. Fresh(r, Cur(r).to, Msg("OP_PUT", step[r], PutValue(r), pc[r]))
    BY DEF Fresh, RmwRequest, RmwResponse, Msg
  <2> QED BY <2>1, <2>2, PushMoved DEF PutRemote
<1> QED BY <1>1, <1>2, LockFrame DEF PutRemote

LEMMA AccRemoteLock ==
    ASSUME TypeInv, TypeInv', LockInv, NEW r \in Rank, AccRemote(r)
    PROVE  LockInv'
<1>1. AllCalm
  BY BlockFrame DEF AccRemote, DataOp, waiting
<1>2. AllMoved
  <2>1. Cur(r).to \in Rank
    BY BlockType DEF AccRemote, DataOp, Call
  <2>2. Fresh(r, Cur(r).to, Msg("OP_ACC", step[r], Cur(r).val, pc[r]))
    BY DEF Fresh, RmwRequest, RmwResponse, Msg
  <2> QED BY <2>1, <2>2, PushMoved DEF AccRemote
<1> QED BY <1>1, <1>2, LockFrame DEF AccRemote

LEMMA GetRemoteLock ==
    ASSUME TypeInv, TypeInv', LockInv, NEW r \in Rank, GetRemote(r)
    PROVE  LockInv'
<1>1. AllCalm
  BY BlockFrame DEF GetRemote, DataOp
<1>2. AllMoved
  <2>1. Cur(r).to \in Rank
    BY BlockType DEF GetRemote, DataOp, Call
  <2>2. Fresh(r, Cur(r).to, Msg("OP_GET_REQUEST", step[r], 0, pc[r]))
    BY DEF Fresh, RmwRequest, RmwResponse, Msg
  <2> QED BY <2>1, <2>2, PushMoved DEF GetRemote
<1> QED BY <1>1, <1>2, LockFrame DEF GetRemote

LEMMA WaitStartLock ==
    ASSUME TypeInv, TypeInv', LockInv, NEW r \in Rank, WaitStart(r)
    PROVE  LockInv'
<1>1. AllCalm
  <2>1. ~Locking(r) /\ Cur(r).op # "lock"
    BY DEF WaitStart, Calls, Locking
  <2> QED BY <2>1, MoveFrame DEF WaitStart, waiting, Phase
<1>2. AllMoved
  BY SameMoved DEF WaitStart
<1> QED BY <1>1, <1>2, LockFrame DEF WaitStart

LEMMA RmwStartLock ==
    ASSUME TypeInv, TypeInv', LockInv, NEW r \in Rank, RmwStart(r)
    PROVE  LockInv'
<1>1. AllCalm
  <2>1. ~Locking(r) /\ Cur(r).op # "lock"
    BY DEF RmwStart, Calls, Locking, RmwOp
  <2>2. \A q \in Rank \ {r} : notify'[q] = notify[q]
    BY LockVars DEF RmwStart
  <2> QED BY <2>1, <2>2, MoveFrame DEF RmwStart, Phase
<1>2. AllMoved
  <2> DEFINE op == IF Cur(r).op = "fadd" THEN "OP_FETCH_AND_ADD_REQUEST"
                                         ELSE "OP_SWAP_REQUEST"
  <2>1. Cur(r) \in Call /\ Cur(r).op \in RmwOp /\ pc[r] \in Nat
    BY CallsType, ControlVars DEF RmwStart
  <2>2. Cur(r).to \in Rank
    BY <2>1 DEF Call
  <2>3. prog' = prog /\ pc' = pc /\ phase'[r] = "wait"
    BY ControlVars DEF RmwStart, Progress
  <2>4. AskedNext(r, pc[r], RmwOp)
    BY <2>1, <2>3 DEF AskedNext, Cur
  <2>5. Fresh(r, Cur(r).to, Msg(op, Cur(r).loc, Cur(r).val, pc[r]))
    BY <2>4 DEF Fresh, RmwRequest, RmwResponse, Msg
  <2> QED BY <2>2, <2>5, PushMoved DEF RmwStart
<1> QED BY <1>1, <1>2, LockFrame DEF RmwStart

LEMMA FenceNothingLock ==
    ASSUME TypeInv, TypeInv', LockInv, NEW r \in Rank, FenceNothing(r)
    PROVE  LockInv'
<1>1. AllCalm
  BY ReturnFrame DEF FenceNothing, Calls, Locking, waiting
<1>2. AllMoved
  BY SameMoved DEF FenceNothing
<1> QED BY <1>1, <1>2, LockFrame DEF FenceNothing

LEMMA SendFenceLock ==
    ASSUME TypeInv, NEW r \in Rank, NEW ps \in SUBSET Rank, NEW p \in ps,
           SendFence(r, p, ps), ~Locking(r), Cur(r).op = "fence",
           \A q \in Rank \ {r} : notify'[q] = notify[q]
    PROVE  AllCalm /\ AllMoved
<1>1. \E ph \in {"wait", "fence"} : Progress(r, ph) \/ Proceed(r, ph) \/ Pushed(r, ph)
  BY DEF SendFence
<1>2. AllCalm
  BY <1>1, MoveFrame DEF Phase
<1>3. prog' = prog /\ pc' = pc /\ phase'[r] # "idle" /\ pc[r] \in Nat
  BY <1>1, ControlType, ControlVars DEF Phase
<1>4. AskedNext(r, pc[r], {"fence"})
  BY <1>3 DEF AskedNext, Cur
<1>5. Fresh(r, p, Msg("OP_FENCE_REQUEST", 0, 0, pc[r]))
  BY <1>4 DEF Fresh, RmwRequest, RmwResponse, Msg
<1>6. AllMoved
  BY <1>5, PushMoved DEF SendFence
<1> QED BY <1>2, <1>6

LEMMA FenceStartLock ==
    ASSUME TypeInv, TypeInv', LockInv, NEW r \in Rank, FenceStart(r)
    PROVE  LockInv'
<1>1. ~Locking(r) /\ Cur(r).op = "fence" /\ Cur(r) \in Call
  BY CallsType DEF FenceStart, Locking
<1>2. FenceTargets(r) \in SUBSET Rank
  BY <1>1 DEF FenceTargets, Call
<1>3. PICK p \in FenceTargets(r) : SendFence(r, p, FenceTargets(r))
  BY DEF FenceStart
<1>4. \A q \in Rank \ {r} : notify'[q] = notify[q]
  BY LockVars DEF FenceStart
<1>5. AllCalm /\ AllMoved
  BY <1>1, <1>2, <1>3, <1>4, SendFenceLock
<1> QED BY <1>5, LockFrame DEF FenceStart

LEMMA FenceNextLock ==
    ASSUME TypeInv, TypeInv', LockInv, NEW r \in Rank, FenceNext(r)
    PROVE  LockInv'
<1>1. ~Locking(r) /\ Cur(r).op = "fence"
  BY ControlVars DEF FenceNext, Locking, ControlOK
<1>2. todo[r] \in SUBSET Rank
  BY DEF TypeInv, TypeOK
<1>3. PICK p \in todo[r] : SendFence(r, p, todo[r])
  BY DEF FenceNext
<1>4. AllCalm /\ AllMoved
  BY <1>1, <1>2, <1>3, SendFenceLock DEF FenceNext, waiting
<1> QED BY <1>4, LockFrame DEF FenceNext

LEMMA FenceReturnLock ==
    ASSUME TypeInv, TypeInv', LockInv, NEW r \in Rank, FenceReturn(r)
    PROVE  LockInv'
<1>1. AllCalm
  BY ReturnFrame DEF FenceReturn, Locking, waiting
<1>2. AllMoved
  BY SameMoved DEF FenceReturn
<1> QED BY <1>1, <1>2, LockFrame DEF FenceReturn

LEMMA CallReturnLock ==
    ASSUME TypeInv, TypeInv', LockInv, NEW r \in Rank, CallReturn(r)
    PROVE  LockInv'
<1>1. AllCalm
  BY ReturnFrame DEF CallReturn, Locking, waiting
<1>2. AllMoved
  BY SameMoved DEF CallReturn
<1> QED BY <1>1, <1>2, LockFrame DEF CallReturn

LEMMA PutHandlerLock ==
    ASSUME TypeInv, TypeInv', LockInv, NEW r \in Rank, NEW s \in Rank, PutHandler(r, s)
    PROVE  LockInv'
<1>1. AllCalm
  BY SameFrame DEF PutHandler, waiting
<1>2. AllMoved
  BY ConsumeMoved DEF PutHandler, Receives
<1> QED BY <1>1, <1>2, LockFrame DEF PutHandler

LEMMA AccHandlerLock ==
    ASSUME TypeInv, TypeInv', LockInv, NEW r \in Rank, NEW s \in Rank, AccHandler(r, s)
    PROVE  LockInv'
<1>1. AllCalm
  BY SameFrame DEF AccHandler, waiting
<1>2. AllMoved
  BY ConsumeMoved DEF AccHandler, Receives
<1> QED BY <1>1, <1>2, LockFrame DEF AccHandler

LEMMA GetResponseHandlerLock ==
    ASSUME TypeInv, TypeInv', LockInv, NEW r \in Rank, NEW s \in Rank, GetResponseHandler(r, s)
    PROVE  LockInv'
<1>1. AllCalm
  BY SameFrame DEF GetResponseHandler
<1>2. AllMoved
  BY ConsumeMoved DEF GetResponseHandler, Receives
<1> QED BY <1>1, <1>2, LockFrame DEF GetResponseHandler

\* The call that a message at the head of a channel stems from, after a step
\* that moves no rank
LEMMA HeadTagged ==
    ASSUME TypeInv, LockInv, NEW r \in Rank, NEW s \in Rank, chan[s][r] # <<>>
    PROVE  Tagged(s, r, Head(chan[s][r])) /\ Head(chan[s][r]).call \in Nat
<1>1. chan[s][r] \in Seq(Message) /\ Head(chan[s][r]) \in Message
  BY HeadType
<1>2. Head(chan[s][r]) = chan[s][r][1] /\ 1 \in DOMAIN chan[s][r]
  BY <1>1, HeadTailProperties
<1>3. Tagged(s, r, chan[s][r][1])
  BY <1>2 DEF LockInv, TagInv
<1>4. Head(chan[s][r]).call \in Nat
  BY <1>1 DEF Message
<1> QED BY <1>2, <1>3, <1>4

LEMMA GetRequestHandlerLock ==
    ASSUME TypeInv, TypeInv', LockInv, NEW r \in Rank, NEW s \in Rank, GetRequestHandler(r, s)
    PROVE  LockInv'
<1>1. AllCalm
  BY SameFrame DEF GetRequestHandler, waiting
<1>2. AllMoved
  <2> DEFINE m == Head(chan[s][r])
  <2>1. chan[s][r] # <<>> /\ m \in Message
    BY HeadType DEF GetRequestHandler, Receives
  <2>3. Fresh(r, s, [m EXCEPT !.op = "OP_GET_RESPONSE",
                       !.val = mem[r][m.loc]])
    BY <2>1 DEF Fresh, RmwRequest, RmwResponse, Message
  <2> QED BY <2>1, <2>3, AnswerMoved DEF GetRequestHandler
<1> QED BY <1>1, <1>2, LockFrame DEF GetRequestHandler

LEMMA FetchAndAddRequestHandlerLock ==
    ASSUME TypeInv, TypeInv', LockInv, NEW r \in Rank, NEW s \in Rank, FetchAndAddRequestHandler(r, s)
    PROVE  LockInv'
<1>1. AllCalm
  BY SameFrame DEF FetchAndAddRequestHandler, waiting
<1>2. AllMoved
  <2> DEFINE m == Head(chan[s][r])
  <2>1. chan[s][r] # <<>> /\ m \in Message
    BY HeadType DEF FetchAndAddRequestHandler, Receives
  <2>2. AskedNext(s, m.call, RmwOp)
    <3>1. m.op = "OP_FETCH_AND_ADD_REQUEST" /\ Asked(s, m.call, RmwOp) /\ m.call \in Nat
      BY <2>1, HeadTagged DEF FetchAndAddRequestHandler, Receives, Tagged, RmwRequest
    <3> QED BY <1>1, <3>1, AskedFrame DEF AllCalm
  <2>3. Fresh(r, s, [m EXCEPT !.op = "OP_FETCH_AND_ADD_RESPONSE",
                       !.val = mem[r][m.loc]])
    BY <2>1, <2>2 DEF Fresh, RmwRequest, RmwResponse, Message
  <2> QED BY <2>1, <2>3, AnswerMoved DEF FetchAndAddRequestHandler
<1> QED BY <1>1, <1>2, LockFrame DEF FetchAndAddRequestHandler

LEMMA SwapRequestHandlerLock ==
    ASSUME TypeInv, TypeInv', LockInv, NEW r \in Rank, NEW s \in Rank, SwapRequestHandler(r, s)
    PROVE  LockInv'
<1>1. AllCalm
  BY SameFrame DEF SwapRequestHandler, waiting
<1>2. AllMoved
  <2> DEFINE m == Head(chan[s][r])
  <2>1. chan[s][r] # <<>> /\ m \in Message
    BY HeadType DEF SwapRequestHandler, Receives
  <2>2. AskedNext(s, m.call, RmwOp)
    <3>1. m.op = "OP_SWAP_REQUEST" /\ Asked(s, m.call, RmwOp) /\ m.call \in Nat
      BY <2>1, HeadTagged DEF SwapRequestHandler, Receives, Tagged, RmwRequest
    <3> QED BY <1>1, <3>1, AskedFrame DEF AllCalm
  <2>3. Fresh(r, s, [m EXCEPT !.op = "OP_SWAP_RESPONSE",
                       !.val = mem[r][m.loc]])
    BY <2>1, <2>2 DEF Fresh, RmwRequest, RmwResponse, Message
  <2> QED BY <2>1, <2>3, AnswerMoved DEF SwapRequestHandler
<1> QED BY <1>1, <1>2, LockFrame DEF SwapRequestHandler

LEMMA FenceRequestHandlerLock ==
    ASSUME TypeInv, TypeInv', LockInv, NEW r \in Rank, NEW s \in Rank, FenceRequestHandler(r, s)
    PROVE  LockInv'
<1>1. AllCalm
  BY SameFrame DEF FenceRequestHandler, waiting
<1>2. AllMoved
  <2> DEFINE m == Head(chan[s][r])
  <2>1. chan[s][r] # <<>> /\ m \in Message
    BY HeadType DEF FenceRequestHandler, Receives
  <2>2. AskedNext(s, m.call, {"fence"})
    <3>1. m.op = "OP_FENCE_REQUEST" /\ Asked(s, m.call, {"fence"}) /\ m.call \in Nat
      BY <2>1, HeadTagged DEF FenceRequestHandler, Receives, Tagged, RmwRequest
    <3> QED BY <1>1, <3>1, AskedFrame DEF AllCalm
  <2>3. Fresh(r, s, [m EXCEPT !.op = "OP_FENCE_RESPONSE"])
    BY <2>1, <2>2 DEF Fresh, RmwRequest, RmwResponse, Message
  <2> QED BY <2>1, <2>3, AnswerMoved DEF FenceRequestHandler
<1> QED BY <1>1, <1>2, LockFrame DEF FenceRequestHandler

LEMMA RmwResponseHandlerLock ==
    ASSUME TypeInv, TypeInv', LockInv, NEW r \in Rank, NEW s \in Rank, RmwResponseHandler(r, s)
    PROVE  LockInv'
<1>1. AllCalm
  <2> DEFINE m == Head(chan[s][r])
  <2>1. chan[s][r] # <<>> /\ m.op \in RmwResponse
    BY DEF RmwResponseHandler, Receives, RmwResponse
  <2>2. Asked(r, m.call, RmwOp)
    BY <2>1, HeadTagged DEF Tagged
  <2>3. Notified(r, m) => ~Locking(r)
    BY <2>2 DEF Notified, Asked, In, Locking, RmwOp
  <2>4. Locking(r) => notify'[r] = notify[r]
    BY <2>3, LockVars DEF RmwResponseHandler
  <2>5. ASSUME NEW q \in Rank PROVE Locking(q) => notify'[q] = notify[q]
    BY <2>4, LockVars DEF RmwResponseHandler
  <2>6. UNCHANGED control
    BY DEF RmwResponseHandler
  <2> QED BY <2>5, <2>6 DEF control, AllCalm, AllFrame, Frame, Quiet, Locking, Cur
<1>2. AllMoved
  BY ConsumeMoved DEF RmwResponseHandler, Receives
<1> QED BY <1>1, <1>2, LockFrame DEF RmwResponseHandler

LEMMA FenceResponseHandlerLock ==
    ASSUME TypeInv, TypeInv', LockInv, NEW r \in Rank, NEW s \in Rank, FenceResponseHandler(r, s)
    PROVE  LockInv'
<1>1. AllCalm
  <2> DEFINE m == Head(chan[s][r])
  <2>1. chan[s][r] # <<>> /\ m.op = "OP_FENCE_RESPONSE"
    BY DEF FenceResponseHandler, Receives, RmwResponse
  <2>2. Asked(r, m.call, {"fence"})
    BY <2>1, HeadTagged DEF Tagged
  <2>3. Notified(r, m) => ~Locking(r)
    BY <2>2 DEF Notified, Asked, In, Locking, RmwOp
  <2>4. Locking(r) => notify'[r] = notify[r]
    BY <2>3, LockVars DEF FenceResponseHandler
  <2>5. ASSUME NEW q \in Rank PROVE Locking(q) => notify'[q] = notify[q]
    BY <2>4, LockVars DEF FenceResponseHandler
  <2>6. UNCHANGED control
    BY DEF FenceResponseHandler
  <2> QED BY <2>5, <2>6 DEF control, AllCalm, AllFrame, Frame, Quiet, Locking, Cur
<1>2. AllMoved
  BY ConsumeMoved DEF FenceResponseHandler, Receives
<1> QED BY <1>1, <1>2, LockFrame DEF FenceResponseHandler

\* The moves of a barrier
LEMMA BarrierFrame ==
    ASSUME TypeInv, NEW r \in Rank,
           \E ph \in Phase \ {"idle", "wait"} :
               Progress(r, ph) \/ Proceed(r, ph) \/ Pushed(r, ph),
           phase[r] # "wait", UNCHANGED waiting
    PROVE  AllCalm
  BY MoveFrame DEF Locking, waiting

LEMMA SendRequestLock ==
    ASSUME TypeInv, NEW r \in Rank, NEW ps \in SUBSET Rank, NEW p \in ps,
           SendRequest(r, p, ps), phase[r] # "wait", UNCHANGED waiting
    PROVE  AllCalm /\ AllMoved
<1>1. \E ph \in Phase \ {"idle", "wait"} :
         Progress(r, ph) \/ Proceed(r, ph) \/ Pushed(r, ph)
  BY DEF SendRequest, Phase
<1>2. Fresh(r, p, Msg("OP_BARRIER_REQUEST", 0, 0, pc[r]))
  BY DEF Fresh, RmwRequest, RmwResponse, Msg
<1>3. AllMoved
  BY <1>2, PushMoved DEF SendRequest
<1> QED BY <1>1, <1>3, BarrierFrame

LEMMA BarrierStartLock ==
    ASSUME TypeInv, TypeInv', LockInv, NEW r \in Rank, BarrierStart(r)
    PROVE  LockInv'
<1>1. phase[r] # "wait" /\ Cur(r) \in Call
  BY CallsType DEF BarrierStart
<1>2. CASE Cur(r).grp \ {r} = {}
  <2>1. AllCalm
    BY <1>1, <1>2, BarrierFrame DEF BarrierStart, Phase
  <2>2. AllMoved
    BY <1>2, SameMoved DEF BarrierStart
  <2> QED BY <2>1, <2>2, LockFrame DEF BarrierStart
<1>3. CASE Cur(r).grp \ {r} # {}
  <2>1. Cur(r).grp \ {r} \in SUBSET Rank
    BY <1>1 DEF Call
  <2>2. PICK p \in Cur(r).grp \ {r} : SendRequest(r, p, Cur(r).grp \ {r})
    BY <1>3 DEF BarrierStart
  <2>3. AllCalm /\ AllMoved
    BY <1>1, <2>1, <2>2, SendRequestLock DEF BarrierStart
  <2> QED BY <2>3, LockFrame DEF BarrierStart
<1> QED BY <1>2, <1>3

LEMMA BarrierSendLock ==
    ASSUME TypeInv, TypeInv', LockInv, NEW r \in Rank, BarrierSend(r)
    PROVE  LockInv'
<1>1. PICK p \in todo[r] : SendRequest(r, p, todo[r])
  BY DEF BarrierSend
<1>2. AllCalm /\ AllMoved
  BY <1>1, BarrierVars, SendRequestLock DEF BarrierSend
<1> QED BY <1>2, LockFrame DEF BarrierSend

LEMMA BarrierGatheredLock ==
    ASSUME TypeInv, TypeInv', LockInv, NEW r \in Rank, BarrierGathered(r)
    PROVE  LockInv'
<1>1. AllCalm
  BY BarrierFrame DEF BarrierGathered, Phase
<1>2. AllMoved
  BY SameMoved DEF BarrierGathered
<1> QED BY <1>1, <1>2, LockFrame DEF BarrierGathered

LEMMA BarrierKeepLock ==
    ASSUME TypeInv, TypeInv', LockInv, NEW r \in Rank, BarrierKeep(r)
    PROVE  LockInv'
<1>1. AllCalm
  BY BarrierFrame DEF BarrierKeep, Phase
<1>2. AllMoved
  BY SameMoved DEF BarrierKeep
<1> QED BY <1>1, <1>2, LockFrame DEF BarrierKeep

LEMMA BarrierScannedLock ==
    ASSUME TypeInv, TypeInv', LockInv, NEW r \in Rank, BarrierScanned(r)
    PROVE  LockInv'
<1>1. AllCalm
  BY BarrierFrame DEF BarrierScanned, Phase
<1>2. AllMoved
  BY SameMoved DEF BarrierScanned
<1> QED BY <1>1, <1>2, LockFrame DEF BarrierScanned

LEMMA BarrierAnswerLock ==
    ASSUME TypeInv, TypeInv', LockInv, NEW r \in Rank, BarrierAnswer(r)
    PROVE  LockInv'
<1>1. AllCalm
  BY BarrierFrame DEF BarrierAnswer, Phase
<1>2. AllMoved
  <2> DEFINE w == Head(bq[r])
  <2>1. w.rank \in Rank
    BY QueueType DEF BarrierAnswer, Answerable, Waiter
  <2>2. Fresh(r, w.rank, Msg("OP_BARRIER_RESPONSE", 0, 0, w.call))
    BY DEF Fresh, RmwRequest, RmwResponse, Msg
  <2> QED BY <2>1, <2>2, PushMoved DEF BarrierAnswer
<1> QED BY <1>1, <1>2, LockFrame DEF BarrierAnswer

LEMMA BarrierReturnLock ==
    ASSUME TypeInv, TypeInv', LockInv, NEW r \in Rank, BarrierReturn(r)
    PROVE  LockInv'
<1>1. AllCalm
  BY ReturnFrame DEF BarrierReturn, Locking, waiting
<1>2. AllMoved
  BY SameMoved DEF BarrierReturn
<1> QED BY <1>1, <1>2, LockFrame DEF BarrierReturn

LEMMA LocalSegmentLock ==
    ASSUME TypeInv, TypeInv', LockInv, NEW r \in Rank, LocalSegment(r)
    PROVE  LockInv'
<1>1. AllCalm
  BY ReturnFrame DEF LocalSegment, waiting
<1>2. AllMoved
  BY SameMoved DEF LocalSegment
<1> QED BY <1>1, <1>2, LockFrame DEF LocalSegment

LEMMA GatherStartLock ==
    ASSUME TypeInv, TypeInv', LockInv, NEW r \in Rank, GatherStart(r)
    PROVE  LockInv'
<1>1. AllCalm
  BY BarrierFrame DEF GatherStart, Calls, Phase
<1>2. AllMoved
  BY SameMoved DEF GatherStart
<1> QED BY <1>1, <1>2, LockFrame DEF GatherStart

LEMMA GatherReturnLock ==
    ASSUME TypeInv, TypeInv', LockInv, NEW r \in Rank, GatherReturn(r)
    PROVE  LockInv'
<1>1. AllCalm
  BY ReturnFrame DEF GatherReturn, waiting
<1>2. AllMoved
  BY SameMoved DEF GatherReturn
<1> QED BY <1>1, <1>2, LockFrame DEF GatherReturn

LEMMA BarrierRequestHandlerLock ==
    ASSUME TypeInv, TypeInv', LockInv, NEW r \in Rank, NEW s \in Rank, BarrierRequestHandler(r, s)
    PROVE  LockInv'
<1>1. AllCalm
  BY SameFrame DEF BarrierRequestHandler, waiting
<1>2. AllMoved
  BY ConsumeMoved DEF BarrierRequestHandler, Receives
<1> QED BY <1>1, <1>2, LockFrame DEF BarrierRequestHandler

LEMMA BarrierResponseHandlerLock ==
    ASSUME TypeInv, TypeInv', LockInv, NEW r \in Rank, NEW s \in Rank, BarrierResponseHandler(r, s)
    PROVE  LockInv'
<1>1. AllCalm
  BY SameFrame DEF BarrierResponseHandler, waiting
<1>2. AllMoved
  BY ConsumeMoved DEF BarrierResponseHandler, Receives
<1> QED BY <1>1, <1>2, LockFrame DEF BarrierResponseHandler

-----------------------------------------------------------------------------
(* The calls and handlers of ComexMutex *)

LEMMA AbortLock ==
    ASSUME TypeInv, TypeInv', LockInv, Abort
    PROVE  LockInv'
<1>1. AllCalm
  BY SameFrame DEF Abort, waiting
<1>2. AllMoved
  BY SameMoved DEF Abort
<1> QED BY <1>1, <1>2, LockFrame DEF Abort

LEMMA LockLock ==
    ASSUME TypeInv, TypeInv', LockInv, NEW r \in Rank, Lock(r)
    PROVE  LockInv'
<1>1. /\ Cur(r) \in Call /\ Cur(r).op = "lock" /\ phase[r] = "idle"
      /\ pc[r] \in Nat /\ phase \in [Rank -> Phase] /\ notify \in [Rank -> Int]
  BY CallsType DEF Lock, TypeInv, TypeOK
<1>2. /\ prog' = prog /\ pc' = pc /\ phase' = [phase EXCEPT ![r] = "wait"]
      /\ notify' = [notify EXCEPT ![r] = 1]
  BY DEF Lock, Progress
<1>3. Frame(r) /\ Quiet(r)
  BY <1>1, <1>2 DEF Frame, Quiet, Locking
<1>4. ASSUME NEW q \in Rank \ {r} PROVE Frame(q) /\ Quiet(q)
  BY <1>1, <1>2, <1>4 DEF Frame, Quiet, Locking, Cur
<1>5. AllCalm
  BY <1>2, <1>3, <1>4 DEF AllCalm, AllFrame
<1>6. AskedLockNext(r, pc[r], Cur(r).to) /\ Cur(r)' = Cur(r)
  BY <1>1, <1>2 DEF AskedLockNext, Locking, Cur
<1>7. Fresh(r, Cur(r).to, Msg("OP_LOCK_REQUEST", Cur(r).loc, 0, pc[r]))
  BY <1>6 DEF Fresh, Msg, RmwRequest, RmwResponse
<1>8. AllMoved
  BY <1>1, <1>7, PushMoved DEF Lock, Call
<1> QED BY <1>5, <1>8, LockFrame DEF Lock

LEMMA UnlockLock ==
    ASSUME TypeInv, TypeInv', LockInv, NEW r \in Rank, Unlock(r)
    PROVE  LockInv'
<1>1. Cur(r) \in Call /\ Cur(r).op = "unlock" /\ phase[r] = "idle"
  BY CallsType DEF Unlock
<1>2. AllCalm
  BY <1>1, MoveFrame DEF Unlock, Locking, Phase, waiting
<1>3. prog' = prog /\ pc' = pc
  BY ControlType DEF Unlock, Phase
<1>4. held' = [held EXCEPT ![r] = @ \ {<<Cur(r).to, Cur(r).loc>>}]
  BY DEF Unlock
<1>5. ~Locking(r)' /\ <<Cur(r).to, Cur(r).loc>> \notin held'[r]
  BY <1>1, <1>3, <1>4, LockVars DEF Locking, Cur
<1>6. Fresh(r, Cur(r).to, Msg("OP_UNLOCK", Cur(r).loc, 0, pc[r]))
  BY <1>5 DEF Fresh, Msg, RmwRequest, RmwResponse
<1>7. AllMoved
  BY <1>1, <1>6, PushMoved DEF Unlock, Call
<1>8. OwnedKept
  BY DEF Unlock, OwnedKept, Claims, Owned
<1>9. QueueMoved
  BY DEF Unlock, QueueMoved
<1>10. HeldMoved
  BY <1>4, LockVars DEF HeldMoved
<1>11. GrantedInv'
  BY <1>2, <1>7, <1>8, GrantedFrame DEF LockInv
<1> QED BY <1>2, <1>7, <1>8, <1>9, <1>10, <1>11, MutexFrame DEF AllCalm

LEMMA LockReturnLock ==
    ASSUME TypeInv, TypeInv', LockInv, NEW r \in Rank, LockReturn(r)
    PROVE  LockInv'
<1>1. AllCalm
  BY ReturnFrame DEF LockReturn, waiting
<1>2. AllMoved
  BY SameMoved DEF LockReturn
<1>3. OwnedKept
  BY DEF LockReturn, OwnedKept, Claims, Owned
<1>4. QueueMoved
  BY DEF LockReturn, QueueMoved
<1>5. HeldMoved
  <2>1. held' = [held EXCEPT ![r] = @ \cup {<<Cur(r).to, Cur(r).loc>>}]
    BY DEF LockReturn
  <2>2. Owned(r, Cur(r).to, Cur(r).loc) /\ NoUnlock(r, Cur(r).to)
    BY DEF LockReturn, LockInv, GrantedInv, Locking
  <2>3. Claims(r, Cur(r).to, Cur(r).loc)
    BY <2>2 DEF Claims, NoUnlock
  <2> QED BY <2>1, <2>3, LockVars DEF HeldMoved
<1>6. GrantedInv'
  BY <1>1, <1>2, <1>3, GrantedFrame DEF LockInv
<1> QED BY <1>1, <1>2, <1>3, <1>4, <1>5, <1>6, MutexFrame DEF AllCalm

LEMMA CreateMutexesLock ==
    ASSUME TypeInv, TypeInv', LockInv, NEW r \in Rank, CreateMutexes(r), ~Abort
    PROVE  LockInv'
<1>1. /\ nmutex[r] = 0 /\ Return(r)
      /\ nmutex' = [nmutex EXCEPT ![r] = Cur(r).loc]
      /\ mutexes' = [mutexes EXCEPT ![r] = [m \in Mutex |-> Nobody]]
      /\ UNCHANGED <<chan, notify, lq, held>>
  BY DEF CreateMutexes, waiting
<1>2. AllCalm
  BY <1>1, ReturnFrame
<1>3. AllMoved
  BY <1>1, SameMoved
<1>4. OwnedKept
  <2> SUFFICES ASSUME NEW q \in Rank, NEW s \in Rank, NEW id \in Mutex, Owned(q, s, id)
               PROVE  id < nmutex'[s] /\ mutexes'[s][id] = q
    BY DEF OwnedKept, Claims
  <2>1. s # r
    BY <1>1, BoundAssumption DEF Owned, Mutex
  <2> QED BY <1>1, <2>1, LockVars DEF Owned
<1>5. QueueMoved
  BY <1>1 DEF QueueMoved
<1>6. HeldMoved
  BY <1>1 DEF HeldMoved
<1>7. GrantedInv'
  BY <1>2, <1>3, <1>4, GrantedFrame DEF LockInv
<1> QED BY <1>2, <1>3, <1>4, <1>5, <1>6, <1>7, MutexFrame DEF AllCalm

LEMMA DestroyReturnLock ==
    ASSUME TypeInv, TypeInv', LockInv, NEW r \in Rank, DestroyReturn(r)
    PROVE  LockInv'
<1>1. /\ Unused(r) /\ Return(r)
      /\ nmutex' = [nmutex EXCEPT ![r] = 0]
      /\ UNCHANGED <<chan, notify, mutexes, lq, held>>
  BY DEF DestroyReturn, waiting
<1>2. AllCalm
  BY <1>1, ReturnFrame
<1>3. AllMoved
  BY <1>1, SameMoved
<1>4. OwnedKept
  <2> SUFFICES ASSUME NEW q \in Rank, NEW s \in Rank, NEW id \in Mutex, Owned(q, s, id)
               PROVE  id < nmutex'[s] /\ mutexes'[s][id] = q
    BY DEF OwnedKept, Claims
  <2>1. s # r
    BY <1>1, RankAssumption DEF Owned, Unused, Nobody
  <2> QED BY <1>1, <2>1, LockVars DEF Owned
<1>5. QueueMoved
  BY <1>1 DEF QueueMoved
<1>6. HeldMoved
  BY <1>1 DEF HeldMoved
<1>7. GrantedInv'
  BY <1>2, <1>3, <1>4, GrantedFrame DEF LockInv
<1> QED BY <1>2, <1>3, <1>4, <1>5, <1>6, <1>7, MutexFrame DEF AllCalm

\* A receive adds no unlock message.
LEMMA NoUnlockTaken ==
    ASSUME TypeInv, NEW r \in Rank, NEW s \in Rank, chan[s][r] # <<>>,
           NEW a \in Rank, NEW b \in Rank, NoUnlock(a, b)
    PROVE  \A i \in DOMAIN Taken(r, s)[a][b] : Taken(r, s)[a][b][i].op # "OP_UNLOCK"
<1>1. chan \in [Rank -> [Rank -> Seq(Message)]]
  BY DEF TypeInv, TypeOK
<1>2. CASE a = s /\ b = r
  <2>1. Taken(r, s)[a][b] = Tail(chan[a][b])
    BY <1>1, <1>2 DEF Taken
  <2>2. \A i \in DOMAIN Tail(chan[a][b]) :
           i + 1 \in DOMAIN chan[a][b] /\ Tail(chan[a][b])[i] = chan[a][b][i + 1]
    <3>1. chan[a][b] \in Seq(Message) /\ chan[a][b] # <<>>
      BY <1>1, <1>2
    <3> QED BY <3>1, HeadTailProperties
  <2> QED BY <2>1, <2>2 DEF NoUnlock
<1>3. CASE ~(a = s /\ b = r)
  <2>1. Taken(r, s)[a][b] = chan[a][b]
    BY <1>1, <1>3 DEF Taken
  <2> QED BY <2>1 DEF NoUnlock
<1> QED BY <1>2, <1>3

LEMMA NoUnlockAnswered ==
    ASSUME TypeInv, NEW r \in Rank, NEW s \in Rank, chan[s][r] # <<>>,
           NEW d \in Rank, NEW m, m.op # "OP_UNLOCK", Answer(r, s, d, m),
           NEW a \in Rank, NEW b \in Rank, NoUnlock(a, b)
    PROVE  NoUnlock(a, b)'
<1>1. Taken(r, s) \in [Rank -> [Rank -> Seq(Message)]]
  BY TakenType
<1>2. Taken(r, s)[a][b] \in Seq(Message)
  BY <1>1
<1>3. \A i \in DOMAIN Taken(r, s)[a][b] : Taken(r, s)[a][b][i].op # "OP_UNLOCK"
  BY NoUnlockTaken
<1>4. CASE a = r /\ b = d
  <2>1. chan'[a][b] = Append(Taken(r, s)[a][b], m)
    BY <1>1, <1>4 DEF Answer
  <2>2. \A i \in DOMAIN chan'[a][b] :
           \/ i \in DOMAIN Taken(r, s)[a][b] /\ chan'[a][b][i] = Taken(r, s)[a][b][i]
           \/ chan'[a][b][i] = m
    BY <1>2, <2>1
  <2> QED BY <1>3, <2>2 DEF NoUnlock
<1>5. CASE ~(a = r /\ b = d)
  <2>1. chan'[a][b] = Taken(r, s)[a][b]
    BY <1>1, <1>5 DEF Answer
  <2> QED BY <1>3, <2>1 DEF NoUnlock
<1> QED BY <1>4, <1>5

\* The end of an iteration that left mutex id of r with this holder and this
\* queue of ranks that wait for it: the invariant holds if whoever owned the
\* mutex and has not released it is still its holder.
LEMMA LqProgressLock ==
    ASSUME TypeInv, TypeInv', LockInv, NEW r \in Rank, NEW s \in Rank,
           chan[s][r] # <<>>, NEW id \in Mutex, id < nmutex[r],
           NEW holder \in Rank \cup {Nobody}, NEW queue \in Seq(Waiter),
           \A i \in DOMAIN queue : Queued(r, id, queue[i]),
           \A q \in Rank : Claims(q, r, id) => q = holder,
           LqProgress(r, s, id, holder, queue),
           UNCHANGED <<control, waiting, nmutex, held>>
    PROVE  LockInv'
<1>1. AllCalm
  BY SameFrame DEF waiting
<1>2. HeldMoved
  BY DEF HeldMoved
<1>3. pc' = pc /\ prog' = prog /\ phase' = phase
  BY DEF control
<1>4. ASSUME NEW i \in DOMAIN queue,
             \A a, b \in Rank : NoUnlock(a, b) => NoUnlock(a, b)'
      PROVE  FreshEntry(r, id, queue[i])
  <2> SUFFICES ASSUME NEW q \in Rank, q = queue[i].rank
               PROVE  /\ AskedLockNext(q, queue[i].call, r)
                      /\ queue[i].call = pc'[q] =>
                            Cur(q)'.loc = id /\ NoUnlock(q, r)'
    BY DEF FreshEntry
  <2>1. /\ AskedLock(q, queue[i].call, r)
        /\ queue[i].call = pc[q] => Cur(q).loc = id /\ NoUnlock(q, r)
    BY DEF Queued
  <2>2. Cur(q)' = Cur(q) /\ (Locking(q) => Locking(q)')
    BY <1>3 DEF Cur, Locking
  <2>3. AskedLockNext(q, queue[i].call, r)
    BY <1>3, <2>1, <2>2 DEF AskedLock, AskedLockNext
  <2>4. queue[i].call = pc'[q] => Cur(q)'.loc = id /\ NoUnlock(q, r)'
    BY <1>3, <1>4, <2>1, <2>2
  <2> QED BY <2>3, <2>4
<1>5. CASE holder = Nobody /\ queue # <<>>
  <2> DEFINE w == Head(queue)
  <2> DEFINE grant == Msg("OP_LOCK_RESPONSE", -1, 0, w.call)
  <2>1. /\ mutexes' = [mutexes EXCEPT ![r][id] = w.rank]
        /\ lq' = [lq EXCEPT ![r][id] = Tail(queue)]
        /\ Answer(r, s, w.rank, grant)
    BY <1>5 DEF LqProgress
  <2>2. /\ 1 \in DOMAIN queue /\ w = queue[1] /\ w.rank \in Rank
        /\ \A i \in DOMAIN Tail(queue) :
              i + 1 \in DOMAIN queue /\ Tail(queue)[i] = queue[i + 1]
    <3>1. queue \in Seq(Waiter) /\ queue # <<>>
      BY <1>5
    <3>2. w \in Waiter /\ w = queue[1] /\ 1 \in DOMAIN queue
      BY <3>1, HeadTailProperties
    <3>3. \A i \in DOMAIN Tail(queue) :
             i + 1 \in DOMAIN queue /\ Tail(queue)[i] = queue[i + 1]
      BY <3>1, HeadTailProperties
    <3> QED BY <3>2, <3>3 DEF Waiter
  <2>3. grant.op = "OP_LOCK_RESPONSE" /\ grant.call = w.call
    BY DEF Msg
  <2> HIDE DEF w, grant
  <2>4. \A a, b \in Rank : NoUnlock(a, b) => NoUnlock(a, b)'
    BY <2>1, <2>2, <2>3, NoUnlockAnswered
  <2>5. FreshEntry(r, id, w)
    BY <1>4, <2>2, <2>4
  <2>6. /\ AskedLockNext(w.rank, w.call, r)
        /\ w.call = pc'[w.rank] =>
              prog'[w.rank][pc'[w.rank]].loc = id /\ NoUnlock(w.rank, r)'
    BY <2>2, <2>5 DEF FreshEntry, Cur
  <2>7. id < nmutex'[r] /\ mutexes'[r][id] = w.rank
    BY <2>1, LockVars
  <2>8. Fresh(r, w.rank, grant)
    BY <2>3, <2>6, <2>7 DEF Fresh, RmwRequest, RmwResponse, Owned, Cur, NoUnlock
  <2>9. AllMoved
    BY <2>1, <2>2, <2>8, AnswerMoved
  <2>10. OwnedKept
    <3> SUFFICES ASSUME NEW q \in Rank, NEW p \in Rank, NEW k \in Mutex, Claims(q, p, k)
                 PROVE  k < nmutex'[p] /\ mutexes'[p][k] = q
      BY DEF OwnedKept
    <3>1. ~(p = r /\ k = id)
      BY <1>5, RankAssumption DEF Nobody
    <3> QED BY <2>1, <3>1, LockVars DEF Claims, Owned
  <2>11. QueueMoved
    <3> SUFFICES ASSUME NEW p \in Rank, NEW k \in Mutex, NEW i \in DOMAIN lq'[p][k]
                 PROVE  \/ \E j \in DOMAIN lq[p][k] : lq'[p][k][i] = lq[p][k][j]
                        \/ FreshEntry(p, k, lq'[p][k][i])
      BY DEF QueueMoved
    <3>1. CASE p = r /\ k = id
      <4>1. lq'[p][k] = Tail(queue)
        BY <2>1, <3>1, LockVars
      <4>2. i + 1 \in DOMAIN queue /\ lq'[p][k][i] = queue[i + 1]
        BY <2>2, <4>1
      <4> QED BY <1>4, <2>4, <3>1, <4>2
    <3>2. CASE ~(p = r /\ k = id)
      BY <2>1, <3>2, LockVars
    <3> QED BY <3>1, <3>2
  <2>12. GrantedInv'
    BY <1>1, <2>9, <2>10, GrantedFrame DEF LockInv
  <2> QED BY <1>1, <1>2, <2>9, <2>10, <2>11, <2>12, MutexFrame DEF AllCalm
<1>6. CASE ~(holder = Nobody /\ queue # <<>>)
  <2>1. /\ mutexes' = [mutexes EXCEPT ![r][id] = holder]
        /\ lq' = [lq EXCEPT ![r][id] = queue]
        /\ Consume(r, s)
    BY <1>6 DEF LqProgress
  <2>2. AllMoved
    BY <2>1, ConsumeMoved
  <2>3. \A a, b \in Rank : NoUnlock(a, b) => NoUnlock(a, b)'
    BY <2>1, NoUnlockTaken DEF Consume, NoUnlock
  <2>4. OwnedKept
    BY <2>1, LockVars DEF OwnedKept, Claims, Owned
  <2>5. QueueMoved
    <3> SUFFICES ASSUME NEW p \in Rank, NEW k \in Mutex, NEW i \in DOMAIN lq'[p][k]
                 PROVE  \/ \E j \in DOMAIN lq[p][k] : lq'[p][k][i] = lq[p][k][j]
                        \/ FreshEntry(p, k, lq'[p][k][i])
      BY DEF QueueMoved
    <3>1. CASE p = r /\ k = id
      <4>1. lq'[p][k] = queue
        BY <2>1, <3>1, LockVars
      <4> QED BY <1>4, <2>3, <3>1, <4>1
    <3>2. CASE ~(p = r /\ k = id)
      BY <2>1, <3>2, LockVars
    <3> QED BY <3>1, <3>2
  <2>6. GrantedInv'
    BY <1>1, <2>2, <2>4, GrantedFrame DEF LockInv
  <2> QED BY <1>1, <1>2, <2>2, <2>4, <2>5, <2>6, MutexFrame DEF AllCalm
<1> QED BY <1>5, <1>6

LEMMA LockRequestHandlerLock ==
    ASSUME TypeInv, TypeInv', LockInv, NEW r \in Rank, NEW s \in Rank,
           LockRequestHandler(r, s)
    PROVE  LockInv'
<1> DEFINE m == Head(chan[s][r])
<1> DEFINE w == [rank |-> s, call |-> m.call]
<1>1. chan[s][r] # <<>> /\ m \in Message /\ m.op = "OP_LOCK_REQUEST"
  BY HeadType DEF LockRequestHandler, Receives
<1>2. m.loc \in Nat /\ m.call \in Nat
  BY <1>1 DEF Message
<1>3. CASE NoSuchMutex(r, m.loc)
  BY <1>3, AbortLock DEF LockRequestHandler
<1>4. CASE ~NoSuchMutex(r, m.loc)
  <2>1. /\ LqProgress(r, s, m.loc, mutexes[r][m.loc], Append(lq[r][m.loc], w))
        /\ UNCHANGED <<control, waiting, nmutex, held>>
    BY <1>4 DEF LockRequestHandler
  <2>2. m.loc \in Mutex /\ m.loc < nmutex[r]
    BY <1>2, <1>4, MutexId
  <2>3. /\ w \in Waiter /\ lq[r][m.loc] \in Seq(Waiter)
        /\ mutexes[r][m.loc] \in Rank \cup {Nobody}
    <3>1. w \in Waiter
      BY <1>2 DEF Waiter
    <3>2. lq[r][m.loc] \in Seq(Waiter) /\ mutexes[r][m.loc] \in Rank \cup {Nobody}
      BY <2>2, LockVars
    <3> QED BY <3>1, <3>2
  <2>4. Queued(r, m.loc, w)
    <3>1. m = chan[s][r][1] /\ 1 \in DOMAIN chan[s][r]
      BY <1>1, HeadType, HeadTailProperties
    <3>2. AskedLock(s, m.call, r) /\ (m.call = pc[s] => Cur(s).loc = m.loc)
      BY <1>1, HeadTagged DEF Tagged
    <3>3. m.call = pc[s] => NoUnlock(s, r)
      <4> SUFFICES ASSUME m.call = pc[s], NEW j \in DOMAIN chan[s][r]
                   PROVE  chan[s][r][j].op # "OP_UNLOCK"
        BY DEF NoUnlock
      <4>1. CASE j = 1
        BY <1>1, <3>1, <4>1
      <4>2. CASE j # 1
        <5>1. 1 < j
          BY <1>1, <4>2, HeadType
        <5>2. chan[s][r][1].op = "OP_LOCK_REQUEST" /\ chan[s][r][1].call = pc[s]
          BY <1>1, <3>1
        <5> QED BY <3>1, <5>1, <5>2 DEF LockInv, OrderInv
      <4> QED BY <4>1, <4>2
    <3> QED BY <3>2, <3>3 DEF Queued
  <2> HIDE DEF w
  <2>5. \A i \in DOMAIN Append(lq[r][m.loc], w) :
           Queued(r, m.loc, Append(lq[r][m.loc], w)[i])
    <3>1. \A i \in DOMAIN lq[r][m.loc] : Queued(r, m.loc, lq[r][m.loc][i])
      BY <2>2 DEF LockInv, QueueInv
    <3>2. \A i \in DOMAIN Append(lq[r][m.loc], w) :
             \/ i \in DOMAIN lq[r][m.loc] /\ Append(lq[r][m.loc], w)[i] = lq[r][m.loc][i]
             \/ Append(lq[r][m.loc], w)[i] = w
      BY <2>3
    <3> QED BY <2>4, <3>1, <3>2
  <2>6. \A q \in Rank : Claims(q, r, m.loc) => q = mutexes[r][m.loc]
    BY DEF Claims, Owned
  <2>7. Append(lq[r][m.loc], w) \in Seq(Waiter)
    BY <2>3
  <2> QED BY <1>1, <2>1, <2>2, <2>3, <2>5, <2>6, <2>7, LqProgressLock
<1> QED BY <1>3, <1>4

LEMMA UnlockRequestHandlerLock ==
    ASSUME TypeInv, TypeInv', LockInv, NEW r \in Rank, NEW s \in Rank,
           UnlockRequestHandler(r, s)
    PROVE  LockInv'
<1> DEFINE m == Head(chan[s][r])
<1>1. chan[s][r] # <<>> /\ m \in Message /\ m.op = "OP_UNLOCK"
  BY HeadType DEF UnlockRequestHandler, Receives
<1>2. m.loc \in Nat
  BY <1>1 DEF Message
<1>3. CASE NoSuchMutex(r, m.loc) \/ mutexes[r][m.loc] # s
  BY <1>3, AbortLock DEF UnlockRequestHandler
<1>4. CASE ~(NoSuchMutex(r, m.loc) \/ mutexes[r][m.loc] # s)
  <2>1. /\ LqProgress(r, s, m.loc, Nobody, lq[r][m.loc])
        /\ UNCHANGED <<control, waiting, nmutex, held>>
    BY <1>4 DEF UnlockRequestHandler
  <2>2. m.loc \in Mutex /\ m.loc < nmutex[r] /\ mutexes[r][m.loc] = s
    BY <1>2, <1>4, MutexId
  <2>3. lq[r][m.loc] \in Seq(Waiter)
    BY <2>2, LockVars
  <2>4. \A i \in DOMAIN lq[r][m.loc] : Queued(r, m.loc, lq[r][m.loc][i])
    BY <2>2 DEF LockInv, QueueInv
  <2>5. \A q \in Rank : ~Claims(q, r, m.loc)
    <3>1. m = chan[s][r][1] /\ 1 \in DOMAIN chan[s][r]
      BY <1>1, HeadType, HeadTailProperties
    <3> QED BY <1>1, <2>2, <3>1 DEF Claims, Owned
  <2> QED BY <1>1, <2>1, <2>2, <2>3, <2>4, <2>5, LqProgressLock
<1> QED BY <1>3, <1>4

\* The grant arrives: the mutex is already the receiver's.
LEMMA LockResponseHandlerLock ==
    ASSUME TypeInv, TypeInv', LockInv, NEW r \in Rank, NEW s \in Rank,
           LockResponseHandler(r, s)
    PROVE  LockInv'
<1> DEFINE m == Head(chan[s][r])
<1>1. chan[s][r] # <<>> /\ m \in Message /\ m.op = "OP_LOCK_RESPONSE"
  BY HeadType DEF LockResponseHandler, Receives
<1>2. /\ prog' = prog /\ pc' = pc /\ phase' = phase
      /\ notify' = [notify EXCEPT ![r] = IF Notified(r, m) THEN 0 ELSE @]
      /\ UNCHANGED <<nmutex, mutexes, lq, held>>
  BY DEF LockResponseHandler, control, locks
<1>3. AllFrame
  BY <1>2 DEF AllFrame, Frame
<1>4. AllMoved
  BY <1>1, ConsumeMoved DEF LockResponseHandler
<1>5. OwnedKept /\ QueueMoved /\ HeldMoved
  BY <1>2 DEF OwnedKept, Claims, Owned, QueueMoved, HeldMoved
<1>6. GrantedInv'
  <2> SUFFICES ASSUME NEW q \in Rank, Locking(q)', notify'[q] = 0
               PROVE  Owned(q, Cur(q).to, Cur(q).loc)' /\ NoUnlock(q, Cur(q).to)'
    BY DEF GrantedInv
  <2>1. Locking(q) /\ Cur(q)' = Cur(q)
    BY <1>2 DEF Locking, Cur
  <2>2. Owned(q, Cur(q).to, Cur(q).loc) /\ NoUnlock(q, Cur(q).to)
    <3>1. CASE notify[q] = 0
      BY <2>1, <3>1 DEF LockInv, GrantedInv
    <3>2. CASE notify[q] # 0
      <4>1. q = r /\ m.call = pc[r]
        BY <1>2, <3>2, LockVars DEF Notified, TypeInv, TypeOK
      <4>2. AskedLock(r, m.call, s)
        BY <1>1, HeadTagged DEF Tagged
      <4>3. Cur(r).to = s
        BY <4>1, <4>2 DEF AskedLock
      <4>4. m = chan[s][r][1] /\ 1 \in DOMAIN chan[s][r]
        BY <1>1, HeadType, HeadTailProperties
      <4>5. Owned(r, s, Cur(r).loc) /\ NoUnlock(r, s)
        BY <1>1, <4>1, <4>4 DEF LockInv, GrantInv
      <4> QED BY <4>1, <4>3, <4>5
    <3> QED BY <3>1, <3>2
  <2>3. Cur(q).to \in Rank
    <3>1. pc[q] \in DOMAIN prog[q]
      BY <2>1, ControlVars DEF Locking, ControlOK
    <3> QED BY <3>1, CurType DEF Call
  <2>4. Owned(q, Cur(q).to, Cur(q).loc)'
    BY <1>2, <2>1, <2>2 DEF Owned
  <2>5. NoUnlock(q, Cur(q).to)'
    BY <1>4, <2>1, <2>2, <2>3, NoUnlockFrame DEF NoUnlock
  <2> QED BY <2>4, <2>5
<1> QED BY <1>3, <1>4, <1>5, <1>6, MutexFrame

-----------------------------------------------------------------------------
(* The theorem *)

LEMMA InitLock == Init => LockInv
<1> SUFFICES ASSUME Init PROVE LockInv
  OBVIOUS
<1>1. \A s, d \in Rank : chan[s][d] = <<>>
  BY DEF Init
<1>2. \A s \in Rank : \A id \in Mutex : lq[s][id] = <<>>
  BY DEF Init
<1>3. \A r \in Rank : phase[r] = "idle" /\ held[r] = {}
  BY DEF Init
<1> QED BY <1>1, <1>2, <1>3 DEF LockInv, TagInv, OrderInv, QueueInv, GrantInv,
           GrantedInv, HeldInv, Locking

LEMMA NextLock == TypeInv /\ TypeInv' /\ LockInv /\ [Next]_vars => LockInv'
<1> SUFFICES ASSUME TypeInv, TypeInv', LockInv, [Next]_vars PROVE LockInv'
  OBVIOUS
<1>1. ASSUME NEW r \in Rank, DataStep(r) PROVE LockInv'
  BY <1>1, PutSelfLock, PutRemoteLock, AccSelfLock, AccRemoteLock, GetSelfLock,
     GetRemoteLock, WaitStartLock, RmwStartLock, FenceNothingLock,
     FenceStartLock, FenceNextLock, FenceReturnLock, CallReturnLock DEF DataStep
<1>2. ASSUME NEW r \in Rank, BarrierStep(r) PROVE LockInv'
  BY <1>2, BarrierStartLock, BarrierSendLock, BarrierGatheredLock,
     BarrierAnswerLock, BarrierKeepLock, BarrierScannedLock, BarrierReturnLock
     DEF BarrierStep
<1>3. ASSUME NEW r \in Rank, MutexStep(r) PROVE LockInv'
  BY <1>3, AbortLock, CreateMutexesLock, LockLock, LockReturnLock, UnlockLock,
     DestroyReturnLock DEF MutexStep
<1>4. ASSUME NEW r \in Rank, NEW s \in Rank, Receive(r, s) PROVE LockInv'
  <2>1. CASE DataReceive(r, s)
    BY <2>1, PutHandlerLock, AccHandlerLock, GetRequestHandlerLock,
       GetResponseHandlerLock, FetchAndAddRequestHandlerLock,
       SwapRequestHandlerLock, RmwResponseHandlerLock,
       FenceRequestHandlerLock, FenceResponseHandlerLock DEF DataReceive
  <2>2. CASE BarrierReceive(r, s)
    BY <2>2, BarrierRequestHandlerLock, BarrierResponseHandlerLock
       DEF BarrierReceive
  <2>3. CASE MutexReceive(r, s)
    BY <2>3, LockRequestHandlerLock, UnlockRequestHandlerLock,
       LockResponseHandlerLock DEF MutexReceive
  <2> QED BY <1>4, <2>1, <2>2, <2>3 DEF Receive
<1>6. ASSUME NEW r \in Rank, MemoryStep(r) PROVE LockInv'
  BY <1>6, LocalSegmentLock, GatherStartLock, GatherReturnLock DEF MemoryStep
<1>5. CASE UNCHANGED vars
  <2>1. AllCalm
    BY <1>5, SameFrame DEF vars, waiting
  <2>2. AllMoved
    BY <1>5, SameMoved DEF vars
  <2> QED BY <1>5, <2>1, <2>2, LockFrame DEF vars
<1> QED BY <1>1, <1>2, <1>3, <1>4, <1>5, <1>6 DEF Next, LocalStep, ReceiveStep, Over

\* A mutex that is held belongs to its holder at the server, and two ranks
\* are different numbers.
LEMMA HeldExclusion == TypeInv /\ LockInv => MutualExclusion
<1> SUFFICES ASSUME TypeInv, LockInv, NEW p \in Rank, NEW q \in Rank, p # q,
                    NEW h \in held[p], h \in held[q]
             PROVE  FALSE
  BY DEF MutualExclusion
<1>1. Owned(p, h[1], h[2]) /\ Owned(q, h[1], h[2])
  BY DEF LockInv, HeldInv
<1> QED BY <1>1 DEF Owned

\* The path of every lock call is consistent: a request that is queued has no
\* unlock behind it, a grant on its way names the rank the server recorded,
\* and so does a mutex that is held.
THEOREM LockPath == Spec => []LockInv
<1>1. Spec => [](TypeInv /\ LockInv)
  BY InitType, NextType, InitLock, NextLock, PTL DEF Spec
<1> QED BY <1>1, PTL

\* At no time do two ranks hold a mutex, whatever their programs do: a
\* program that unlocks what it does not hold kills the job at the assertion
\* of the unlock handler and never lets a second rank in.
THEOREM Exclusion == Spec => []MutualExclusion
<1>1. Spec => [](TypeInv /\ LockInv)
  BY InitType, NextType, InitLock, NextLock, PTL DEF Spec
<1> QED BY <1>1, HeldExclusion, PTL

-----------------------------------------------------------------------------
(* The queues of waiters are settled whenever no handler is running *)

\* The calls of the data and barrier modules touch no mutex.
LEMMA DataKeepsLocks ==
    ASSUME NEW r \in Rank, NEW s \in Rank, DataStep(r) \/ DataReceive(r, s)
    PROVE  UNCHANGED locks
<1>1. CASE DataStep(r)
  BY <1>1 DEF DataStep, PutSelf, PutRemote, AccSelf, AccRemote, GetSelf,
     GetRemote, WaitStart, RmwStart, FenceNothing, FenceStart, FenceNext,
     FenceReturn, CallReturn
<1>2. CASE DataReceive(r, s)
  BY <1>2 DEF DataReceive, PutHandler, AccHandler, GetRequestHandler,
     GetResponseHandler, FetchAndAddRequestHandler, SwapRequestHandler,
     RmwResponseHandler, FenceRequestHandler, FenceResponseHandler
<1> QED BY <1>1, <1>2

LEMMA BarrierKeepsLocks ==
    ASSUME NEW r \in Rank, NEW s \in Rank, BarrierStep(r) \/ BarrierReceive(r, s)
    PROVE  UNCHANGED locks
  BY DEF BarrierStep, BarrierStart, BarrierSend, BarrierGathered, BarrierAnswer,
     BarrierKeep, BarrierScanned, BarrierReturn, BarrierReceive,
     BarrierRequestHandler, BarrierResponseHandler

LEMMA MemoryKeepsLocks ==
    ASSUME NEW r \in Rank, MemoryStep(r)
    PROVE  UNCHANGED locks
  BY DEF MemoryStep, LocalSegment, GatherStart, GatherReturn

\* An iteration that ends with _lq_progress leaves the mutex settled.
LEMMA LqProgressSettled ==
    ASSUME TypeInv, LockQueueSettled, NEW r \in Rank, NEW s \in Rank,
           NEW id \in Mutex, NEW holder \in Rank \cup {Nobody},
           NEW queue \in Seq(Waiter), LqProgress(r, s, id, holder, queue)
    PROVE  LockQueueSettled'
<1>1. PICK h, q :
         /\ mutexes' = [mutexes EXCEPT ![r][id] = h]
         /\ lq' = [lq EXCEPT ![r][id] = q]
         /\ q # <<>> => h # Nobody
  <2>1. CASE holder = Nobody /\ queue # <<>>
    <3>1. Head(queue) \in Waiter
      BY <2>1, HeadTailProperties
    <3>2. Head(queue).rank # Nobody
      BY <3>1, RankAssumption DEF Waiter, Nobody
    <3> QED BY <2>1, <3>2 DEF LqProgress
  <2>2. CASE ~(holder = Nobody /\ queue # <<>>)
    BY <2>2 DEF LqProgress
  <2> QED BY <2>1, <2>2
<1> SUFFICES ASSUME NEW p \in Rank, NEW m \in Mutex, lq'[p][m] # <<>>
             PROVE  mutexes'[p][m] # Nobody
  BY DEF LockQueueSettled
<1>2. CASE p = r /\ m = id
  BY <1>1, <1>2, LockVars
<1>3. CASE ~(p = r /\ m = id)
  BY <1>1, <1>3, LockVars DEF LockQueueSettled
<1> QED BY <1>2, <1>3

LEMMA MutexStepSettled ==
    ASSUME TypeInv, LockQueueSettled, NEW r \in Rank, MutexStep(r)
    PROVE  LockQueueSettled'
<1>1. CASE CreateMutexes(r) /\ ~Abort
  <2>1. /\ \A m \in Mutex : lq[r][m] = <<>>
        /\ mutexes' = [mutexes EXCEPT ![r] = [m \in Mutex |-> Nobody]]
        /\ lq' = lq
    BY <1>1 DEF CreateMutexes
  <2> QED BY <2>1, LockVars DEF LockQueueSettled
<1>2. CASE Abort
  BY <1>2 DEF Abort, locks, LockQueueSettled
<1>3. CASE Lock(r) \/ LockReturn(r) \/ Unlock(r) \/ DestroyReturn(r)
  BY <1>3 DEF Lock, LockReturn, Unlock, DestroyReturn, locks, LockQueueSettled
<1> QED BY <1>1, <1>2, <1>3 DEF MutexStep

LEMMA MutexReceiveSettled ==
    ASSUME TypeInv, LockQueueSettled, NEW r \in Rank, NEW s \in Rank,
           MutexReceive(r, s)
    PROVE  LockQueueSettled'
<1> DEFINE m == Head(chan[s][r])
<1> DEFINE w == [rank |-> s, call |-> m.call]
<1>1. CASE Abort
  BY <1>1 DEF Abort, locks, LockQueueSettled
<1>2. CASE LockResponseHandler(r, s)
  BY <1>2 DEF LockResponseHandler, locks, LockQueueSettled
<1>3. CASE ~Abort /\ (LockRequestHandler(r, s) \/ UnlockRequestHandler(r, s))
  <2>1. m.loc \in Nat /\ m.call \in Nat /\ ~NoSuchMutex(r, m.loc)
    <3>1. m \in Message /\ m.op \in {"OP_LOCK_REQUEST", "OP_UNLOCK"}
      BY <1>3, HeadType DEF LockRequestHandler, UnlockRequestHandler, Receives
    <3>2. ~NoSuchMutex(r, m.loc)
      BY <1>3 DEF LockRequestHandler, UnlockRequestHandler
    <3> QED BY <3>1, <3>2 DEF Message
  <2>2. m.loc \in Mutex
    BY <2>1, MutexId
  <2>3. lq[r][m.loc] \in Seq(Waiter) /\ mutexes[r][m.loc] \in Rank \cup {Nobody}
    BY <2>2, LockVars
  <2>4. w \in Waiter
    BY <2>1 DEF Waiter
  <2>5. CASE LockRequestHandler(r, s)
    <3>1. LqProgress(r, s, m.loc, mutexes[r][m.loc], Append(lq[r][m.loc], w))
      BY <1>3, <2>5 DEF LockRequestHandler
    <3> HIDE DEF w
    <3>2. Append(lq[r][m.loc], w) \in Seq(Waiter)
      BY <2>3, <2>4
    <3> QED BY <2>2, <2>3, <3>1, <3>2, LqProgressSettled
  <2>6. CASE UnlockRequestHandler(r, s)
    <3>1. LqProgress(r, s, m.loc, Nobody, lq[r][m.loc])
      BY <1>3, <2>6 DEF UnlockRequestHandler
    <3> QED BY <2>2, <2>3, <3>1, LqProgressSettled
  <2> QED BY <1>3, <2>5, <2>6
<1> QED BY <1>1, <1>2, <1>3 DEF MutexReceive

\* Between two iterations of a progress loop nobody waits for a free mutex,
\* so that the iterations that receive no lock or unlock request find no work
\* in _lq_progress.
THEOREM Settled == Spec => []LockQueueSettled
<1>1. Init => LockQueueSettled
  BY DEF Init, LockQueueSettled
<1>2. TypeInv /\ LockQueueSettled /\ [Next]_vars => LockQueueSettled'
  <2> SUFFICES ASSUME TypeInv, LockQueueSettled, [Next]_vars
               PROVE  LockQueueSettled'
    OBVIOUS
  <2>1. UNCHANGED locks => LockQueueSettled'
    BY DEF locks, LockQueueSettled
  <2>2. ASSUME NEW r \in Rank, LocalStep(r) PROVE LockQueueSettled'
    BY <2>1, <2>2, DataKeepsLocks, BarrierKeepsLocks, MemoryKeepsLocks,
       MutexStepSettled DEF LocalStep
  <2>3. ASSUME NEW r \in Rank, NEW s \in Rank, Receive(r, s)
        PROVE  LockQueueSettled'
    BY <2>1, <2>3, DataKeepsLocks, BarrierKeepsLocks, MutexReceiveSettled DEF Receive
  <2>4. CASE UNCHANGED vars
    BY <2>1, <2>4 DEF vars
  <2> QED BY <2>2, <2>3, <2>4 DEF Next, ReceiveStep, Over
<1> QED BY <1>1, <1>2, InitType, NextType, PTL DEF Spec

-----------------------------------------------------------------------------
(* Counting the entries of a queue *)

LEMMA ShiftCard ==
    ASSUME NEW S \in SUBSET Nat, IsFiniteSet(S), NEW T \in SUBSET Nat,
           \A j \in Nat : j \in T <=> j # 0 /\ j - 1 \in S
    PROVE  IsFiniteSet(T) /\ Cardinality(T) = Cardinality(S)
<1> DEFINE f == [i \in S |-> i + 1]
<1>1. \A i \in S : i + 1 \in T
  OBVIOUS
<1>2. f \in Injection(S, T)
  <2>1. f \in [S -> T]
    BY <1>1
  <2>2. \A a, b \in DOMAIN f : f[a] = f[b] => a = b
    OBVIOUS
  <2> QED BY <2>1, <2>2 DEF Injection, IsInjective
<1>3. \A j \in T : \E i \in S : f[i] = j
  <2> TAKE j \in T
  <2>1. j \in Nat /\ j # 0 /\ j - 1 \in S
    OBVIOUS
  <2>2. f[j - 1] = j
    BY <2>1
  <2> QED BY <2>1, <2>2
<1>4. f \in Surjection(S, T)
  BY <1>1, <1>3 DEF Surjection
<1>5. ExistsBijection(S, T)
  BY <1>2, <1>4 DEF ExistsBijection, Bijection
<1> QED BY <1>5, FS_Bijection


LEMMA IndexSet ==
    ASSUME NEW Q, NEW q \in Seq(Q), NEW S, S \subseteq DOMAIN q
    PROVE  /\ S \in SUBSET Nat /\ IsFiniteSet(S)
           /\ Cardinality(S) \in Nat
           /\ Cardinality(S) = 0 <=> S = {}
<1>1. IsFiniteSet(1 .. Len(q))
  BY FS_Interval
<1>2. IsFiniteSet(S)
  BY <1>1, FS_Subset
<1> QED BY <1>2, FS_CardinalityType, FS_EmptySet

\* Counts are natural numbers, zero where there is nothing to count.
LEMMA NumType ==
    ASSUME NEW Q, NEW q \in Seq(Q), NEW ops
    PROVE  /\ Num(q, ops) \in Nat
           /\ Num(q, ops) = 0 <=> \A i \in DOMAIN q : q[i].op \notin ops
<1> DEFINE S == {i \in DOMAIN q : q[i].op \in ops}
<1>1. S \subseteq DOMAIN q
  OBVIOUS
<1>2. Cardinality(S) \in Nat /\ (Cardinality(S) = 0 <=> S = {})
  BY <1>1, IndexSet
<1> QED BY <1>2 DEF Num

LEMMA FromType ==
    ASSUME NEW Q, NEW q \in Seq(Q), NEW r
    PROVE  /\ From(q, r) \in Nat
           /\ From(q, r) = 0 <=> \A i \in DOMAIN q : q[i].rank # r
<1> DEFINE S == {i \in DOMAIN q : q[i].rank = r}
<1>1. S \subseteq DOMAIN q
  OBVIOUS
<1>2. Cardinality(S) \in Nat /\ (Cardinality(S) = 0 <=> S = {})
  BY <1>1, IndexSet
<1> QED BY <1>2 DEF From

\* Counting at the end of a queue ...
LEMMA CountAppend ==
    ASSUME NEW Q, NEW q \in Seq(Q), NEW S, S \subseteq DOMAIN q
    PROVE  Cardinality(S \cup {Len(q) + 1}) = Cardinality(S) + 1
<1>1. IsFiniteSet(S) /\ Len(q) + 1 \notin S
  BY IndexSet
<1> QED BY <1>1, FS_AddElement

LEMMA NumAppend ==
    ASSUME NEW Q, NEW q \in Seq(Q), NEW m \in Q, NEW ops
    PROVE  Num(Append(q, m), ops) = Num(q, ops) + Unit(m.op \in ops)
<1> DEFINE S == {i \in DOMAIN q : q[i].op \in ops}
           T == {i \in DOMAIN Append(q, m) : Append(q, m)[i].op \in ops}
<1>1. T = IF m.op \in ops THEN S \cup {Len(q) + 1} ELSE S
  <2>1. /\ DOMAIN Append(q, m) = DOMAIN q \cup {Len(q) + 1}
        /\ Append(q, m)[Len(q) + 1] = m
        /\ \A i \in DOMAIN q : Append(q, m)[i] = q[i]
    OBVIOUS
  <2> QED BY <2>1
<1>2. S \subseteq DOMAIN q
  OBVIOUS
<1> HIDE DEF S, T
<1>3. Cardinality(T) = Cardinality(S) + Unit(m.op \in ops)
  BY <1>1, <1>2, CountAppend, IndexSet DEF Unit
<1> QED BY <1>3 DEF Num, S, T

LEMMA FromAppend ==
    ASSUME NEW Q, NEW q \in Seq(Q), NEW w \in Q, NEW r
    PROVE  From(Append(q, w), r) = From(q, r) + Unit(w.rank = r)
<1> DEFINE S == {i \in DOMAIN q : q[i].rank = r}
           T == {i \in DOMAIN Append(q, w) : Append(q, w)[i].rank = r}
<1>1. T = IF w.rank = r THEN S \cup {Len(q) + 1} ELSE S
  <2>1. /\ DOMAIN Append(q, w) = DOMAIN q \cup {Len(q) + 1}
        /\ Append(q, w)[Len(q) + 1] = w
        /\ \A i \in DOMAIN q : Append(q, w)[i] = q[i]
    OBVIOUS
  <2> QED BY <2>1
<1>2. S \subseteq DOMAIN q
  OBVIOUS
<1> HIDE DEF S, T
<1>3. Cardinality(T) = Cardinality(S) + Unit(w.rank = r)
  BY <1>1, <1>2, CountAppend, IndexSet DEF Unit
<1> QED BY <1>3 DEF From, S, T

\* ... and at its head
LEMMA CountTail ==
    ASSUME NEW Q, NEW q \in Seq(Q), q # <<>>, NEW S, S \subseteq DOMAIN q,
           NEW T, T \subseteq DOMAIN Tail(q),
           \A i \in DOMAIN Tail(q) : i \in T <=> i + 1 \in S
    PROVE  Cardinality(S) = Cardinality(T) + Unit(1 \in S)
<1> DEFINE R == S \ {1}
<1>1. Tail(q) \in Seq(Q) /\ Len(Tail(q)) = Len(q) - 1 /\ Len(q) \in Nat \ {0}
  BY HeadTailProperties, EmptySeq
<1>2. /\ IsFiniteSet(S) /\ Cardinality(S) \in Nat /\ S \in SUBSET Nat
      /\ IsFiniteSet(T) /\ Cardinality(T) \in Nat /\ T \in SUBSET Nat
  BY <1>1, IndexSet
<1>3. Cardinality(R) = IF 1 \in S THEN Cardinality(S) - 1 ELSE Cardinality(S)
  BY <1>2, FS_RemoveElement
<1>4. \A j \in Nat : j \in R <=> j # 0 /\ j - 1 \in T
  <2> TAKE j \in Nat
  <2>1. DOMAIN q = 1 .. Len(q) /\ DOMAIN Tail(q) = 1 .. Len(q) - 1
    BY <1>1
  <2>2. CASE j \in 2 .. Len(q)
    <3>1. j - 1 \in DOMAIN Tail(q) /\ (j - 1) + 1 = j
      BY <1>1, <2>1, <2>2
    <3> QED BY <2>2, <3>1
  <2>3. CASE j \notin 2 .. Len(q)
    BY <1>1, <2>1, <2>3
  <2> QED BY <2>2, <2>3
<1>5. R \in SUBSET Nat
  BY <1>2
<1> HIDE DEF R
<1>6. Cardinality(R) = Cardinality(T)
  BY <1>2, <1>4, <1>5, ShiftCard
<1> QED BY <1>2, <1>3, <1>6 DEF Unit

LEMMA NumTail ==
    ASSUME NEW Q, NEW q \in Seq(Q), q # <<>>, NEW ops
    PROVE  Num(q, ops) = Num(Tail(q), ops) + Unit(Head(q).op \in ops)
<1> DEFINE S == {i \in DOMAIN q : q[i].op \in ops}
           T == {i \in DOMAIN Tail(q) : Tail(q)[i].op \in ops}
<1>1. \A i \in DOMAIN Tail(q) : i + 1 \in DOMAIN q /\ Tail(q)[i] = q[i + 1]
  BY HeadTailProperties
<1>2. 1 \in DOMAIN q /\ Head(q) = q[1]
  BY EmptySeq
<1>3. \A i \in DOMAIN Tail(q) : i \in T <=> i + 1 \in S
  BY <1>1
<1>4. S \subseteq DOMAIN q /\ T \subseteq DOMAIN Tail(q)
  OBVIOUS
<1>5. 1 \in S <=> Head(q).op \in ops
  BY <1>2
<1> HIDE DEF S, T
<1>6. Cardinality(S) = Cardinality(T) + Unit(1 \in S)
  BY <1>3, <1>4, CountTail
<1> QED BY <1>5, <1>6 DEF Num, S, T, Unit

LEMMA FromTail ==
    ASSUME NEW Q, NEW q \in Seq(Q), q # <<>>, NEW r
    PROVE  From(q, r) = From(Tail(q), r) + Unit(Head(q).rank = r)
<1> DEFINE S == {i \in DOMAIN q : q[i].rank = r}
           T == {i \in DOMAIN Tail(q) : Tail(q)[i].rank = r}
<1>1. \A i \in DOMAIN Tail(q) : i + 1 \in DOMAIN q /\ Tail(q)[i] = q[i + 1]
  BY HeadTailProperties
<1>2. 1 \in DOMAIN q /\ Head(q) = q[1]
  BY EmptySeq
<1>3. \A i \in DOMAIN Tail(q) : i \in T <=> i + 1 \in S
  BY <1>1
<1>4. S \subseteq DOMAIN q /\ T \subseteq DOMAIN Tail(q)
  OBVIOUS
<1>5. 1 \in S <=> Head(q).rank = r
  BY <1>2
<1> HIDE DEF S, T
<1>6. Cardinality(S) = Cardinality(T) + Unit(1 \in S)
  BY <1>3, <1>4, CountTail
<1> QED BY <1>5, <1>6 DEF From, S, T, Unit

-----------------------------------------------------------------------------
(* Channels *)

\* A channel that has lost at most its first message and gained at most one
\* of N
Shifted(old, new, N) ==
    \E k \in {0, 1} : \A i \in DOMAIN new :
        \/ i + k \in DOMAIN old /\ new[i] = old[i + k]
        \/ i = Len(new) /\ new[i] \in N

\* Only the channel from r to d may have gained one.
ChanMoved(r, d, N) ==
    \A x, y \in Rank :
        Shifted(chan[x][y], chan'[x][y], IF x = r /\ y = d THEN N ELSE {})

LEMMA ChanType ==
    ASSUME TypeInv, NEW x \in Rank, NEW y \in Rank
    PROVE  /\ chan[x][y] \in Seq(Message)
           /\ \A i \in DOMAIN chan[x][y] :
                 chan[x][y][i] \in Message /\ chan[x][y][i].call \in Nat
<1>1. chan[x][y] \in Seq(Message)
  BY DEF TypeInv, TypeOK
<1> QED BY <1>1 DEF Message

\* What a channel is after a push, ...
LEMMA PushChan ==
    ASSUME TypeInv, NEW r \in Rank, NEW d \in Rank, NEW m, Push(r, d, m),
           NEW x \in Rank, NEW y \in Rank
    PROVE  chan'[x][y] = IF x = r /\ y = d THEN Append(chan[x][y], m) ELSE chan[x][y]
<1>1. chan \in [Rank -> [Rank -> Seq(Message)]]
  BY DEF TypeInv, TypeOK
<1> QED BY <1>1 DEF Push

\* ... the receive of a message ...
LEMMA TakenChan ==
    ASSUME TypeInv, NEW r \in Rank, NEW s \in Rank,
           NEW x \in Rank, NEW y \in Rank
    PROVE  Taken(r, s)[x][y] = IF x = s /\ y = r THEN Tail(chan[x][y]) ELSE chan[x][y]
<1>1. chan \in [Rank -> [Rank -> Seq(Message)]]
  BY DEF TypeInv, TypeOK
<1> QED BY <1>1 DEF Taken

\* ... and both
LEMMA AnswerChan ==
    ASSUME TypeInv, NEW r \in Rank, NEW s \in Rank, chan[s][r] # <<>>,
           NEW d \in Rank, NEW m, Answer(r, s, d, m),
           NEW x \in Rank, NEW y \in Rank
    PROVE  /\ Taken(r, s)[x][y] \in Seq(Message)
           /\ chan'[x][y] = IF x = r /\ y = d THEN Append(Taken(r, s)[x][y], m)
                                             ELSE Taken(r, s)[x][y]
<1>1. Taken(r, s) \in [Rank -> [Rank -> Seq(Message)]]
  BY TakenType
<1> QED BY <1>1 DEF Answer

LEMMA ShiftedTail ==
    ASSUME NEW q \in Seq(Message), q # <<>>, NEW N
    PROVE  Shifted(q, Tail(q), N)
<1>1. \A i \in DOMAIN Tail(q) : i + 1 \in DOMAIN q /\ Tail(q)[i] = q[i + 1]
  BY HeadTailProperties
<1> QED BY <1>1 DEF Shifted

LEMMA ShiftedSame ==
    ASSUME NEW q \in Seq(Message), NEW N
    PROVE  Shifted(q, q, N)
  BY DEF Shifted

LEMMA ShiftedAppend ==
    ASSUME NEW q \in Seq(Message), NEW p \in Seq(Message), NEW m \in Message,
           \E k \in {0, 1} : \A i \in DOMAIN p :
              i + k \in DOMAIN q /\ p[i] = q[i + k]
    PROVE  Shifted(q, Append(p, m), {m})
<1>1. \A i \in DOMAIN Append(p, m) :
         \/ i \in DOMAIN p /\ Append(p, m)[i] = p[i]
         \/ i = Len(Append(p, m)) /\ Append(p, m)[i] = m
  OBVIOUS
<1>2. PICK k \in {0, 1} : \A i \in DOMAIN p :
         i + k \in DOMAIN q /\ p[i] = q[i + k]
  OBVIOUS
<1>3. \A i \in DOMAIN Append(p, m) :
         \/ i + k \in DOMAIN q /\ Append(p, m)[i] = q[i + k]
         \/ i = Len(Append(p, m)) /\ Append(p, m)[i] \in {m}
  BY <1>1, <1>2
<1> QED BY <1>3 DEF Shifted

LEMMA PushShift ==
    ASSUME TypeInv, NEW r \in Rank, NEW d \in Rank, NEW m \in Message, Push(r, d, m)
    PROVE  ChanMoved(r, d, {m})
<1> SUFFICES ASSUME NEW x \in Rank, NEW y \in Rank
             PROVE  Shifted(chan[x][y], chan'[x][y], IF x = r /\ y = d THEN {m} ELSE {})
  BY DEF ChanMoved
<1>1. chan[x][y] \in Seq(Message)
  BY ChanType
<1>4. chan'[x][y] = IF x = r /\ y = d THEN Append(chan[x][y], m) ELSE chan[x][y]
  BY PushChan
<1>2. CASE x = r /\ y = d
  <2>1. chan'[x][y] = Append(chan[x][y], m)
    BY <1>2, <1>4
  <2>2. \E k \in {0, 1} : \A i \in DOMAIN chan[x][y] :
           i + k \in DOMAIN chan[x][y] /\ chan[x][y][i] = chan[x][y][i + k]
    BY <1>1
  <2> QED BY <1>1, <1>2, <2>1, <2>2, ShiftedAppend
<1>3. CASE ~(x = r /\ y = d)
  <2>1. chan'[x][y] = chan[x][y]
    BY <1>3, PushChan
  <2> QED BY <1>1, <1>3, <2>1, ShiftedSame
<1> QED BY <1>2, <1>3

LEMMA ConsumeShift ==
    ASSUME TypeInv, NEW r \in Rank, NEW s \in Rank, chan[s][r] # <<>>, Consume(r, s)
    PROVE  ChanMoved(s, r, {})
<1> SUFFICES ASSUME NEW x \in Rank, NEW y \in Rank
             PROVE  Shifted(chan[x][y], chan'[x][y], {})
  BY DEF ChanMoved
<1>1. chan[x][y] \in Seq(Message)
  BY ChanType
<1>2. chan'[x][y] = IF x = s /\ y = r THEN Tail(chan[x][y]) ELSE chan[x][y]
  BY TakenChan DEF Consume
<1> QED BY <1>1, <1>2, ShiftedTail, ShiftedSame

LEMMA AnswerShift ==
    ASSUME TypeInv, NEW r \in Rank, NEW s \in Rank, chan[s][r] # <<>>,
           NEW d \in Rank, NEW m \in Message, Answer(r, s, d, m)
    PROVE  ChanMoved(r, d, {m})
<1> SUFFICES ASSUME NEW x \in Rank, NEW y \in Rank
             PROVE  Shifted(chan[x][y], chan'[x][y], IF x = r /\ y = d THEN {m} ELSE {})
  BY DEF ChanMoved
<1> DEFINE t == Taken(r, s)[x][y]
<1>1. chan[x][y] \in Seq(Message) /\ t \in Seq(Message)
  BY ChanType, AnswerChan
<1>2. t = IF x = s /\ y = r THEN Tail(chan[x][y]) ELSE chan[x][y]
  BY TakenChan
<1>3. chan'[x][y] = IF x = r /\ y = d THEN Append(t, m) ELSE t
  BY AnswerChan
<1> HIDE DEF t
<1>4. CASE x = r /\ y = d
  <2>1. \E k \in {0, 1} : \A i \in DOMAIN t :
           i + k \in DOMAIN chan[x][y] /\ t[i] = chan[x][y][i + k]
    <3>1. CASE x = s /\ y = r
      <4>1. chan[x][y] # <<>> /\ t = Tail(chan[x][y])
        BY <1>2, <3>1
      <4>2. \A i \in DOMAIN t : i + 1 \in DOMAIN chan[x][y] /\ t[i] = chan[x][y][i + 1]
        BY <1>1, <4>1, HeadTailProperties
      <4> QED BY <4>2
    <3>2. CASE ~(x = s /\ y = r)
      BY <1>1, <1>2, <3>2
    <3> QED BY <3>1, <3>2
  <2> QED BY <1>1, <1>3, <1>4, <2>1, ShiftedAppend
<1>5. CASE ~(x = r /\ y = d)
  <2>1. chan'[x][y] = t
    BY <1>3, <1>5
  <2> QED BY <1>1, <1>2, <1>5, <2>1, ShiftedTail, ShiftedSame
<1> QED BY <1>4, <1>5

LEMMA SameShift ==
    ASSUME TypeInv, UNCHANGED chan, NEW r, NEW d
    PROVE  ChanMoved(r, d, {})
  BY ChanType, ShiftedSame DEF ChanMoved

\* ... and how many messages of a kind it then holds
LEMMA PushNum ==
    ASSUME TypeInv, NEW r \in Rank, NEW d \in Rank, NEW m \in Message, Push(r, d, m),
           NEW x \in Rank, NEW y \in Rank, NEW ops
    PROVE  /\ Num(chan[x][y], ops) \in Nat
           /\ Num(chan'[x][y], ops) =
                 Num(chan[x][y], ops) + Unit(x = r /\ y = d /\ m.op \in ops)
<1>1. chan[x][y] \in Seq(Message) /\ Num(chan[x][y], ops) \in Nat
  BY ChanType, NumType
<1>4. chan'[x][y] = IF x = r /\ y = d THEN Append(chan[x][y], m) ELSE chan[x][y]
  BY PushChan
<1>2. CASE x = r /\ y = d
  <2>1. chan'[x][y] = Append(chan[x][y], m)
    BY <1>2, <1>4
  <2> QED BY <1>1, <1>2, <2>1, NumAppend DEF Unit
<1>3. CASE ~(x = r /\ y = d)
  <2>1. chan'[x][y] = chan[x][y]
    BY <1>3, PushChan
  <2> QED BY <1>1, <1>3, <2>1 DEF Unit
<1> QED BY <1>2, <1>3

LEMMA PushNumSame ==
    ASSUME TypeInv, NEW r \in Rank, NEW d \in Rank, NEW m \in Message, Push(r, d, m),
           NEW x \in Rank, NEW y \in Rank, NEW ops, m.op \notin ops
    PROVE  Num(chan'[x][y], ops) = Num(chan[x][y], ops)
<1>1. /\ Num(chan[x][y], ops) \in Nat
      /\ Num(chan'[x][y], ops) =
            Num(chan[x][y], ops) + Unit(x = r /\ y = d /\ m.op \in ops)
  BY PushNum
<1> QED BY <1>1 DEF Unit

LEMMA PushNumMore ==
    ASSUME TypeInv, NEW r \in Rank, NEW d \in Rank, NEW m \in Message, Push(r, d, m),
           NEW x \in Rank, NEW y \in Rank, NEW ops, m.op \in ops
    PROVE  Num(chan'[x][y], ops) = Num(chan[x][y], ops) + Unit(x = r /\ y = d)
<1>1. /\ Num(chan[x][y], ops) \in Nat
      /\ Num(chan'[x][y], ops) =
            Num(chan[x][y], ops) + Unit(x = r /\ y = d /\ m.op \in ops)
  BY PushNum
<1> QED BY <1>1 DEF Unit

LEMMA TakenNum ==
    ASSUME TypeInv, NEW r \in Rank, NEW s \in Rank, chan[s][r] # <<>>,
           NEW x \in Rank, NEW y \in Rank, NEW ops
    PROVE  /\ Num(Taken(r, s)[x][y], ops) \in Nat
           /\ Num(chan[x][y], ops) = Num(Taken(r, s)[x][y], ops)
                 + Unit(x = s /\ y = r /\ Head(chan[s][r]).op \in ops)
<1>1. chan[x][y] \in Seq(Message)
  BY ChanType
<1>2. CASE x = s /\ y = r
  <2>1. Taken(r, s)[x][y] = Tail(chan[x][y]) /\ Tail(chan[x][y]) \in Seq(Message)
    BY <1>2, TakenChan, HeadType
  <2>2. Num(Tail(chan[x][y]), ops) \in Nat
    BY <2>1, NumType
  <2>3. Num(chan[x][y], ops) = Num(Tail(chan[x][y]), ops) + Unit(Head(chan[s][r]).op \in ops)
    BY <1>1, <1>2, NumTail
  <2> QED BY <1>2, <2>1, <2>2, <2>3 DEF Unit
<1>3. CASE ~(x = s /\ y = r)
  <2>1. Taken(r, s)[x][y] = chan[x][y] /\ Num(chan[x][y], ops) \in Nat
    BY <1>1, <1>3, TakenChan, NumType
  <2> QED BY <1>3, <2>1 DEF Unit
<1> QED BY <1>2, <1>3

LEMMA TakenNumSame ==
    ASSUME TypeInv, NEW r \in Rank, NEW s \in Rank, chan[s][r] # <<>>,
           NEW x \in Rank, NEW y \in Rank, NEW ops, Head(chan[s][r]).op \notin ops
    PROVE  /\ Num(Taken(r, s)[x][y], ops) \in Nat
           /\ Num(chan[x][y], ops) = Num(Taken(r, s)[x][y], ops)
<1>1. /\ Num(Taken(r, s)[x][y], ops) \in Nat
      /\ Num(chan[x][y], ops) = Num(Taken(r, s)[x][y], ops)
            + Unit(x = s /\ y = r /\ Head(chan[s][r]).op \in ops)
  BY TakenNum
<1> QED BY <1>1 DEF Unit

LEMMA TakenNumLess ==
    ASSUME TypeInv, NEW r \in Rank, NEW s \in Rank, chan[s][r] # <<>>,
           NEW x \in Rank, NEW y \in Rank, NEW ops, Head(chan[s][r]).op \in ops
    PROVE  /\ Num(Taken(r, s)[x][y], ops) \in Nat
           /\ Num(chan[x][y], ops) = Num(Taken(r, s)[x][y], ops) + Unit(x = s /\ y = r)
<1>1. /\ Num(Taken(r, s)[x][y], ops) \in Nat
      /\ Num(chan[x][y], ops) = Num(Taken(r, s)[x][y], ops)
            + Unit(x = s /\ y = r /\ Head(chan[s][r]).op \in ops)
  BY TakenNum
<1> QED BY <1>1 DEF Unit

LEMMA AnswerNum ==
    ASSUME TypeInv, NEW r \in Rank, NEW s \in Rank, chan[s][r] # <<>>,
           NEW d \in Rank, NEW m \in Message, Answer(r, s, d, m),
           NEW x \in Rank, NEW y \in Rank, NEW ops
    PROVE  Num(chan'[x][y], ops) =
              Num(Taken(r, s)[x][y], ops) + Unit(x = r /\ y = d /\ m.op \in ops)
<1>1. Taken(r, s)[x][y] \in Seq(Message) /\ Num(Taken(r, s)[x][y], ops) \in Nat
  BY AnswerChan, TakenNum
<1>4. chan'[x][y] = IF x = r /\ y = d THEN Append(Taken(r, s)[x][y], m)
                                     ELSE Taken(r, s)[x][y]
  BY AnswerChan
<1>2. CASE x = r /\ y = d
  <2>1. chan'[x][y] = Append(Taken(r, s)[x][y], m)
    BY <1>2, <1>4
  <2> QED BY <1>1, <1>2, <2>1, NumAppend DEF Unit
<1>3. CASE ~(x = r /\ y = d)
  <2>1. chan'[x][y] = Taken(r, s)[x][y]
    BY <1>3, AnswerChan
  <2> QED BY <1>1, <1>3, <2>1 DEF Unit
<1> QED BY <1>2, <1>3

-----------------------------------------------------------------------------
(* The traces of a call *)

LEMMA QueueTypes ==
    ASSUME TypeInv, NEW p \in Rank
    PROVE  /\ bq[p] \in Seq(Waiter) /\ kept[p] \in Seq(Waiter)
           /\ \A id \in Mutex : lq[p][id] \in Seq(Waiter)
  BY DEF TypeInv, TypeOK

\* Traces are counted by natural numbers, and zero means that there is none.
LEMMA OpenType ==
    ASSUME TypeInv, NEW r \in Rank, NEW p \in Rank
    PROVE  /\ Num(chan[r][p], RequestOp) \in Nat
           /\ Num(chan[p][r], ResponseOp) \in Nat
           /\ From(bq[p], r) \in Nat
           /\ From(kept[p], r) \in Nat
           /\ LockEntries(r, p) \in Nat
           /\ Wire(r, p) \in Nat /\ Parked(r, p) \in Nat /\ Open(r, p) \in Nat
<1>1. /\ Num(chan[r][p], RequestOp) \in Nat
      /\ Num(chan[p][r], ResponseOp) \in Nat
  BY ChanType, NumType
<1>2. From(bq[p], r) \in Nat /\ From(kept[p], r) \in Nat
  BY QueueTypes, FromType
<1>3. LockEntries(r, p) \in Nat
  BY DEF LockEntries
<1>4. Wire(r, p) \in Nat /\ Parked(r, p) \in Nat
  BY <1>1, <1>2, <1>3 DEF Wire, Parked
<1> QED BY <1>1, <1>2, <1>3, <1>4 DEF Open

LEMMA OpenTrace ==
    ASSUME TypeInv, NEW r \in Rank, NEW p \in Rank
    PROVE  /\ \A i \in DOMAIN chan[r][p] :
                 chan[r][p][i].op \in RequestOp => Wire(r, p) # 0 /\ Open(r, p) # 0
           /\ \A i \in DOMAIN chan[p][r] :
                 chan[p][r][i].op \in ResponseOp => Wire(r, p) # 0 /\ Open(r, p) # 0
           /\ \A i \in DOMAIN bq[p] : bq[p][i].rank = r => Open(r, p) # 0
           /\ \A i \in DOMAIN kept[p] : kept[p][i].rank = r => Open(r, p) # 0
           /\ InLockQueue(r, p) => Parked(r, p) # 0 /\ Open(r, p) # 0
<1>1. \A i \in DOMAIN chan[r][p] :
         chan[r][p][i].op \in RequestOp => Num(chan[r][p], RequestOp) # 0
  BY ChanType, NumType
<1>2. \A i \in DOMAIN chan[p][r] :
         chan[p][r][i].op \in ResponseOp => Num(chan[p][r], ResponseOp) # 0
  BY ChanType, NumType
<1>3. /\ \A i \in DOMAIN bq[p] : bq[p][i].rank = r => From(bq[p], r) # 0
      /\ \A i \in DOMAIN kept[p] : kept[p][i].rank = r => From(kept[p], r) # 0
  BY QueueTypes, FromType
<1>4. InLockQueue(r, p) => Parked(r, p) # 0
  <2> SUFFICES ASSUME InLockQueue(r, p) PROVE Parked(r, p) # 0
    OBVIOUS
  <2>1. LockEntries(r, p) = 1
    BY DEF LockEntries
  <2> QED BY <2>1, OpenType DEF Parked
<1>5. /\ Wire(r, p) # 0 \/ Parked(r, p) # 0 => Open(r, p) # 0
      /\ Num(chan[r][p], RequestOp) # 0 \/ Num(chan[p][r], ResponseOp) # 0 =>
            Wire(r, p) # 0
  BY OpenType DEF Open, Wire
<1>6. From(bq[p], r) # 0 \/ From(kept[p], r) # 0 => Parked(r, p) # 0
  BY OpenType DEF Parked
<1> QED BY <1>1, <1>2, <1>3, <1>4, <1>5, <1>6

\* A step leaves all traces, adds one of r at d, or takes one of r at s.
OpenSame == \A x, y \in Rank : Open(x, y)' = Open(x, y)
OpenMore(r, d) ==
    \A x, y \in Rank : Open(x, y)' = Open(x, y) + Unit(x = r /\ y = d)
OpenLess(r, s) ==
    \A x, y \in Rank : Open(x, y)' = Open(x, y) - Unit(x = r /\ y = s)

QueuesSame == UNCHANGED <<bq, kept, lq>>

LEMMA ParkedSame ==
    ASSUME QueuesSame, NEW x, NEW y
    PROVE  Parked(x, y)' = Parked(x, y)
  BY DEF QueuesSame, Parked, LockEntries, InLockQueue

LEMMA WireNext ==
    ASSUME NEW x, NEW y
    PROVE  Wire(x, y)' = Num(chan'[x][y], RequestOp) + Num(chan'[y][x], ResponseOp)
  BY DEF Wire

LEMMA NothingMoved ==
    ASSUME QueuesSame, UNCHANGED chan
    PROVE  OpenSame
  BY ParkedSame DEF OpenSame, Open, Wire

LEMMA OpDisjoint ==
    /\ RequestOp \cap ResponseOp = {}
    /\ WriteOp \cap (RequestOp \cup ResponseOp) = {}
    /\ "OP_UNLOCK" \notin RequestOp \cup ResponseOp
  BY DEF RequestOp, ResponseOp, WriteOp

LEMMA OtherSent ==
    ASSUME TypeInv, QueuesSame, NEW r \in Rank, NEW d \in Rank, NEW m \in Message,
           Push(r, d, m), m.op \notin RequestOp \cup ResponseOp
    PROVE  OpenSame
<1> SUFFICES ASSUME NEW x \in Rank, NEW y \in Rank PROVE Open(x, y)' = Open(x, y)
  BY DEF OpenSame
<1>1. /\ Num(chan'[x][y], RequestOp) = Num(chan[x][y], RequestOp)
      /\ Num(chan'[y][x], ResponseOp) = Num(chan[y][x], ResponseOp)
  BY PushNum DEF Unit
<1> QED BY <1>1, ParkedSame, WireNext DEF Open, Wire

LEMMA RequestSent ==
    ASSUME TypeInv, QueuesSame, NEW r \in Rank, NEW d \in Rank, NEW m \in Message,
           Push(r, d, m), m.op \in RequestOp
    PROVE  OpenMore(r, d)
<1> SUFFICES ASSUME NEW x \in Rank, NEW y \in Rank
             PROVE  Open(x, y)' = Open(x, y) + Unit(x = r /\ y = d)
  BY DEF OpenMore
<1>1. /\ Num(chan'[x][y], RequestOp) = Num(chan[x][y], RequestOp) + Unit(x = r /\ y = d)
      /\ Num(chan'[y][x], ResponseOp) = Num(chan[y][x], ResponseOp)
  BY PushNum, OpDisjoint DEF Unit
<1>2. Num(chan[x][y], RequestOp) \in Nat /\ Num(chan[y][x], ResponseOp) \in Nat
      /\ Parked(x, y) \in Nat /\ Unit(x = r /\ y = d) \in Nat
  BY OpenType DEF Unit
<1>3. Open(x, y)' = Wire(x, y)' + Parked(x, y)
  BY ParkedSame DEF Open
<1> HIDE DEF Num, Parked, Unit
<1> QED BY <1>1, <1>2, <1>3, WireNext DEF Open, Wire

LEMMA OtherReceived ==
    ASSUME TypeInv, QueuesSame, NEW r \in Rank, NEW s \in Rank, chan[s][r] # <<>>,
           Consume(r, s), Head(chan[s][r]).op \notin RequestOp \cup ResponseOp
    PROVE  OpenSame
<1> SUFFICES ASSUME NEW x \in Rank, NEW y \in Rank PROVE Open(x, y)' = Open(x, y)
  BY DEF OpenSame
<1>0. chan' = Taken(r, s)
  BY DEF Consume
<1>1. /\ Num(Taken(r, s)[x][y], RequestOp) = Num(chan[x][y], RequestOp)
      /\ Num(Taken(r, s)[y][x], ResponseOp) = Num(chan[y][x], ResponseOp)
  BY TakenNumSame
<1> QED BY <1>0, <1>1, ParkedSame, WireNext DEF Open, Wire

LEMMA ResponseReceived ==
    ASSUME TypeInv, QueuesSame, NEW r \in Rank, NEW s \in Rank, chan[s][r] # <<>>,
           Consume(r, s), Head(chan[s][r]).op \in ResponseOp
    PROVE  OpenLess(r, s)
<1> SUFFICES ASSUME NEW x \in Rank, NEW y \in Rank
             PROVE  Open(x, y)' = Open(x, y) - Unit(x = r /\ y = s)
  BY DEF OpenLess
<1>0. chan' = Taken(r, s) /\ Head(chan[s][r]).op \notin RequestOp
  BY OpDisjoint DEF Consume
<1>1. /\ Num(chan[x][y], RequestOp) = Num(Taken(r, s)[x][y], RequestOp)
      /\ Num(Taken(r, s)[x][y], RequestOp) \in Nat
  BY <1>0, TakenNumSame
<1>4. /\ Num(chan[y][x], ResponseOp) =
            Num(Taken(r, s)[y][x], ResponseOp) + Unit(x = r /\ y = s)
      /\ Num(Taken(r, s)[y][x], ResponseOp) \in Nat
  BY TakenNum DEF Unit
<1>2. Parked(x, y) \in Nat /\ Unit(x = r /\ y = s) \in Nat
  BY OpenType DEF Unit
<1>3. Open(x, y)' = Wire(x, y)' + Parked(x, y)
  BY ParkedSame DEF Open
<1> HIDE DEF Num, Parked, Unit
<1> QED BY <1>0, <1>1, <1>2, <1>3, <1>4, WireNext DEF Open, Wire

\* A request is taken and its answer sent back.
LEMMA Replied ==
    ASSUME TypeInv, QueuesSame, NEW r \in Rank, NEW s \in Rank, chan[s][r] # <<>>,
           NEW m \in Message, Answer(r, s, s, m),
           Head(chan[s][r]).op \in RequestOp, m.op \in ResponseOp
    PROVE  OpenSame
<1> SUFFICES ASSUME NEW x \in Rank, NEW y \in Rank PROVE Open(x, y)' = Open(x, y)
  BY DEF OpenSame
<1>0. Head(chan[s][r]).op \notin ResponseOp /\ m.op \notin RequestOp
  BY OpDisjoint
<1>1. /\ Num(chan[x][y], RequestOp) =
            Num(Taken(r, s)[x][y], RequestOp) + Unit(x = s /\ y = r)
      /\ Num(Taken(r, s)[x][y], RequestOp) \in Nat
  BY TakenNum DEF Unit
<1>4. Num(chan'[x][y], RequestOp) = Num(Taken(r, s)[x][y], RequestOp)
  BY <1>0, <1>1, AnswerNum DEF Unit
<1>5. /\ Num(chan[y][x], ResponseOp) = Num(Taken(r, s)[y][x], ResponseOp)
      /\ Num(Taken(r, s)[y][x], ResponseOp) \in Nat
  BY <1>0, TakenNumSame
<1>2. Num(chan'[y][x], ResponseOp) =
         Num(Taken(r, s)[y][x], ResponseOp) + Unit(x = s /\ y = r)
  BY AnswerNum DEF Unit
<1>3. Wire(x, y)' = Wire(x, y)
  <2> Unit(x = s /\ y = r) \in Nat
    BY DEF Unit
  <2> HIDE DEF Num, Unit
  <2> QED BY <1>1, <1>2, <1>4, <1>5, WireNext DEF Wire
<1> QED BY <1>3, ParkedSame DEF Open

\* A barrier request is queued, ...
LEMMA BarrierQueued ==
    ASSUME TypeInv, NEW r \in Rank, NEW s \in Rank, chan[s][r] # <<>>, Consume(r, s),
           Head(chan[s][r]).op = "OP_BARRIER_REQUEST", NEW w \in Waiter, w.rank = s,
           bq' = [bq EXCEPT ![r] = Append(@, w)], UNCHANGED <<kept, lq>>
    PROVE  OpenSame
<1> SUFFICES ASSUME NEW x \in Rank, NEW y \in Rank PROVE Open(x, y)' = Open(x, y)
  BY DEF OpenSame
<1>0. chan' = Taken(r, s) /\ Head(chan[s][r]).op \notin ResponseOp
      /\ Head(chan[s][r]).op \in RequestOp
  BY DEF Consume, RequestOp, ResponseOp
<1>1. /\ Num(chan[x][y], RequestOp) =
            Num(Taken(r, s)[x][y], RequestOp) + Unit(x = s /\ y = r)
      /\ Num(Taken(r, s)[x][y], RequestOp) \in Nat
  BY <1>0, TakenNumLess
<1>2. Num(chan[y][x], ResponseOp) = Num(Taken(r, s)[y][x], ResponseOp)
  BY <1>0, TakenNumSame
<1>3. From(bq'[y], x) = From(bq[y], x) + Unit(x = s /\ y = r)
  <2>1. bq[y] \in Seq(Waiter) /\ From(bq[y], x) \in Nat
    BY QueueTypes, FromType
  <2>2. CASE y = r
    <3>1. bq'[y] = Append(bq[y], w)
      BY <2>2 DEF TypeInv, TypeOK
    <3>2. From(bq'[y], x) = From(bq[y], x) + Unit(w.rank = x)
      BY <2>1, <3>1, FromAppend
    <3> QED BY <2>2, <3>2 DEF Unit
  <2>3. CASE y # r
    <3>1. bq'[y] = bq[y]
      BY <2>3 DEF TypeInv, TypeOK
    <3> QED BY <2>1, <2>3, <3>1 DEF Unit
  <2> QED BY <2>2, <2>3
<1>4. Parked(x, y)' = From(bq'[y], x) + From(kept[y], x) + LockEntries(x, y)
  BY DEF Parked, LockEntries, InLockQueue
<1>5. Unit(x = s /\ y = r) \in Nat
  BY DEF Unit
<1> HIDE DEF Num, Unit, From, LockEntries
<1>8. /\ Num(chan[x][y], RequestOp) \in Nat /\ Num(chan[y][x], ResponseOp) \in Nat
      /\ From(bq[y], x) \in Nat /\ From(kept[y], x) \in Nat
      /\ LockEntries(x, y) \in Nat /\ Wire(x, y) \in Nat /\ Parked(x, y) \in Nat
  BY OpenType
<1>9. Wire(x, y)' = Num(chan'[x][y], RequestOp) + Num(chan'[y][x], ResponseOp)
  BY WireNext
<1>6. Wire(x, y) = Wire(x, y)' + Unit(x = s /\ y = r) /\ Wire(x, y)' \in Nat
  BY <1>0, <1>1, <1>2, <1>5, <1>8, <1>9 DEF Wire, Unit
<1>7. Parked(x, y)' = Parked(x, y) + Unit(x = s /\ y = r)
  BY <1>3, <1>4, <1>5, <1>8 DEF Parked, Unit
<1> QED BY <1>5, <1>6, <1>7, <1>8 DEF Open, Unit

\* ... and leaves the queue when it is answered.
LEMMA BarrierAnswered ==
    ASSUME TypeInv, NEW r \in Rank, bq[r] # <<>>, NEW m \in Message, m.op \in ResponseOp,
           Push(r, Head(bq[r]).rank, m),
           bq' = [bq EXCEPT ![r] = Tail(@)], UNCHANGED <<kept, lq>>
    PROVE  OpenSame
<1> DEFINE s == Head(bq[r]).rank
<1> SUFFICES ASSUME NEW x \in Rank, NEW y \in Rank PROVE Open(x, y)' = Open(x, y)
  BY DEF OpenSame
<1>0. s \in Rank /\ m.op \notin RequestOp
  <2>1. Head(bq[r]) \in Waiter
    BY QueueTypes, HeadTailProperties
  <2> QED BY <2>1, OpDisjoint DEF Waiter
<1>1. Num(chan'[x][y], RequestOp) = Num(chan[x][y], RequestOp)
  BY <1>0, PushNumSame
<1>2. Num(chan'[y][x], ResponseOp) =
         Num(chan[y][x], ResponseOp) + Unit(x = s /\ y = r)
  <2>1. Num(chan'[y][x], ResponseOp) =
           Num(chan[y][x], ResponseOp) + Unit(y = r /\ x = s)
    BY <1>0, PushNumMore
  <2> QED BY <2>1 DEF Unit
<1>3. From(bq[y], x) = From(bq'[y], x) + Unit(x = s /\ y = r)
      /\ From(bq'[y], x) \in Nat
  <2>1. bq[y] \in Seq(Waiter) /\ From(bq[y], x) \in Nat
    BY QueueTypes, FromType
  <2>2. CASE y = r
    <3>1. bq'[y] = Tail(bq[y]) /\ bq[y] # <<>>
      BY <2>2 DEF TypeInv, TypeOK
    <3>2. From(bq[y], x) = From(bq'[y], x) + Unit(s = x)
      BY <2>1, <2>2, <3>1, FromTail
    <3>3. From(bq'[y], x) \in Nat
      BY <2>1, <3>1, HeadTailProperties, FromType
    <3> QED BY <2>2, <3>2, <3>3 DEF Unit
  <2>3. CASE y # r
    <3>1. bq'[y] = bq[y]
      BY <2>3 DEF TypeInv, TypeOK
    <3> QED BY <2>1, <2>3, <3>1 DEF Unit
  <2> QED BY <2>2, <2>3
<1>4. Parked(x, y)' = From(bq'[y], x) + From(kept[y], x) + LockEntries(x, y)
  BY DEF Parked, LockEntries, InLockQueue
<1>5. Unit(x = s /\ y = r) \in Nat
  BY DEF Unit
<1> HIDE DEF Num, Unit, From, LockEntries
<1>8. /\ Num(chan[x][y], RequestOp) \in Nat /\ Num(chan[y][x], ResponseOp) \in Nat
      /\ From(bq[y], x) \in Nat /\ From(kept[y], x) \in Nat
      /\ LockEntries(x, y) \in Nat /\ Wire(x, y) \in Nat /\ Parked(x, y) \in Nat
  BY OpenType
<1>9. Wire(x, y)' = Num(chan'[x][y], RequestOp) + Num(chan'[y][x], ResponseOp)
  BY WireNext
<1>6. Wire(x, y)' = Wire(x, y) + Unit(x = s /\ y = r)
  BY <1>1, <1>2, <1>5, <1>8, <1>9 DEF Wire, Unit
<1>7. Parked(x, y) = Parked(x, y)' + Unit(x = s /\ y = r) /\ Parked(x, y)' \in Nat
  BY <1>3, <1>4, <1>5, <1>8 DEF Parked, Unit
<1> QED BY <1>5, <1>6, <1>7, <1>8 DEF Open, Unit

\* The traversal of a barrier moves requests to the queue of those kept, ...
LEMMA BarrierKept ==
    ASSUME TypeInv, NEW r \in Rank, bq[r] # <<>>, UNCHANGED <<chan, lq>>,
           kept' = [kept EXCEPT ![r] = Append(@, Head(bq[r]))],
           bq' = [bq EXCEPT ![r] = Tail(@)]
    PROVE  OpenSame
<1> SUFFICES ASSUME NEW x \in Rank, NEW y \in Rank PROVE Open(x, y)' = Open(x, y)
  BY DEF OpenSame
<1>1. /\ bq[y] \in Seq(Waiter) /\ kept[y] \in Seq(Waiter)
      /\ From(bq[y], x) \in Nat /\ From(kept[y], x) \in Nat
  BY QueueTypes, FromType
<1>2. From(bq'[y], x) + From(kept'[y], x) = From(bq[y], x) + From(kept[y], x)
  <2>1. CASE y = r
    <3>1. bq'[y] = Tail(bq[y]) /\ bq[y] # <<>> /\ kept'[y] = Append(kept[y], Head(bq[y]))
      BY <2>1 DEF TypeInv, TypeOK
    <3>2. Head(bq[y]) \in Waiter /\ Tail(bq[y]) \in Seq(Waiter)
      BY <1>1, <3>1, HeadTailProperties
    <3>3. From(kept'[y], x) = From(kept[y], x) + Unit(Head(bq[y]).rank = x)
      BY <1>1, <3>1, <3>2, FromAppend
    <3>4. /\ From(bq[y], x) = From(Tail(bq[y]), x) + Unit(Head(bq[y]).rank = x)
          /\ From(Tail(bq[y]), x) \in Nat
      BY <1>1, <3>1, <3>2, FromTail, FromType
    <3> QED BY <1>1, <3>1, <3>3, <3>4 DEF Unit
  <2>2. CASE y # r
    BY <1>1, <2>2 DEF TypeInv, TypeOK
  <2> QED BY <2>1, <2>2
<1>3. Parked(x, y)' = From(bq'[y], x) + From(kept'[y], x) + LockEntries(x, y)
  BY DEF Parked, LockEntries, InLockQueue
<1>4. Wire(x, y)' = Wire(x, y)
  BY DEF Wire
<1> HIDE DEF From, LockEntries, Wire
<1> QED BY <1>2, <1>3, <1>4 DEF Open, Parked

\* ... which becomes the queue again.
LEMMA BarrierRequeued ==
    ASSUME TypeInv, NEW r \in Rank, bq[r] = <<>>, UNCHANGED <<chan, lq>>,
           bq' = [bq EXCEPT ![r] = kept[r]],
           kept' = [kept EXCEPT ![r] = <<>>]
    PROVE  OpenSame
<1> SUFFICES ASSUME NEW x \in Rank, NEW y \in Rank PROVE Open(x, y)' = Open(x, y)
  BY DEF OpenSame
<1>1. From(bq'[y], x) + From(kept'[y], x) = From(bq[y], x) + From(kept[y], x)
  <2>1. CASE y = r
    <3>1. bq'[y] = kept[y] /\ kept'[y] = <<>> /\ bq[y] = <<>>
      BY <2>1 DEF TypeInv, TypeOK
    <3>2. From(<<>>, x) = 0
      <4>1. {i \in DOMAIN <<>> : <<>>[i].rank = x} = {}
        OBVIOUS
      <4> QED BY <4>1, FS_EmptySet DEF From
    <3>3. From(kept[y], x) \in Nat
      BY QueueTypes, FromType
    <3> QED BY <3>1, <3>2, <3>3
  <2>2. CASE y # r
    BY <2>2 DEF TypeInv, TypeOK
  <2> QED BY <2>1, <2>2
<1>2. Parked(x, y)' = From(bq'[y], x) + From(kept'[y], x) + LockEntries(x, y)
  BY DEF Parked, LockEntries, InLockQueue
<1>3. Wire(x, y)' = Wire(x, y)
  BY DEF Wire
<1> HIDE DEF From, LockEntries, Wire
<1> QED BY <1>1, <1>2, <1>3 DEF Open, Parked

-----------------------------------------------------------------------------
(* The queues of waiters *)

\* Rank x waits in a queue of L, the queues of one rank; nobody waits twice.
WaitsIn(L, x) == \E id \in Mutex : \E i \in DOMAIN L[id] : L[id][i].rank = x
OnceIn(L) ==
    \A id, jd \in Mutex : \A i \in DOMAIN L[id] : \A j \in DOMAIN L[jd] :
        L[id][i].rank = L[jd][j].rank => id = jd /\ i = j

\* A waiter joins one of the queues ...
LEMMA JoinQueue ==
    ASSUME NEW L \in [Mutex -> Seq(Waiter)], NEW id \in Mutex, NEW w \in Waiter,
           OnceIn(L), ~WaitsIn(L, w.rank), NEW K, K[id] = Append(L[id], w),
           \A jd \in Mutex : jd # id => K[jd] = L[jd]
    PROVE  /\ OnceIn(K)
           /\ \A x : WaitsIn(K, x) <=> WaitsIn(L, x) \/ x = w.rank
<1>1. L[id] \in Seq(Waiter) /\ K[id] = Append(L[id], w)
      /\ \A jd \in Mutex : jd # id => K[jd] = L[jd]
  OBVIOUS
<1>2. /\ DOMAIN K[id] = DOMAIN L[id] \cup {Len(L[id]) + 1}
      /\ K[id][Len(L[id]) + 1] = w
      /\ \A i \in DOMAIN L[id] : K[id][i] = L[id][i]
  BY <1>1
<1>3. \A jd \in Mutex : \A i \in DOMAIN K[jd] :
         \/ i \in DOMAIN L[jd] /\ K[jd][i] = L[jd][i]
         \/ jd = id /\ i = Len(L[id]) + 1 /\ K[jd][i] = w
  BY <1>1, <1>2
<1>4. \A jd \in Mutex : \A i \in DOMAIN L[jd] :
         i \in DOMAIN K[jd] /\ K[jd][i] = L[jd][i] /\ L[jd][i].rank # w.rank
  BY <1>1, <1>2 DEF WaitsIn
<1>5. OnceIn(K)
  <2> SUFFICES ASSUME NEW a \in Mutex, NEW b \in Mutex,
                      NEW i \in DOMAIN K[a], NEW j \in DOMAIN K[b],
                      K[a][i].rank = K[b][j].rank
               PROVE  a = b /\ i = j
    BY DEF OnceIn
  <2>1. \/ i \in DOMAIN L[a] /\ K[a][i] = L[a][i]
        \/ a = id /\ i = Len(L[id]) + 1 /\ K[a][i] = w
    BY <1>3
  <2>2. \/ j \in DOMAIN L[b] /\ K[b][j] = L[b][j]
        \/ b = id /\ j = Len(L[id]) + 1 /\ K[b][j] = w
    BY <1>3
  <2>3. /\ i \in DOMAIN L[a] => L[a][i].rank # w.rank
        /\ j \in DOMAIN L[b] => L[b][j].rank # w.rank
    BY <1>4
  <2>4. i \in DOMAIN L[a] /\ j \in DOMAIN L[b] /\ L[a][i].rank = L[b][j].rank
        => a = b /\ i = j
    BY DEF OnceIn
  <2> QED BY <2>1, <2>2, <2>3, <2>4
<1>6. \A x : WaitsIn(K, x) <=> WaitsIn(L, x) \/ x = w.rank
  <2> TAKE x
  <2>1. WaitsIn(K, x) => WaitsIn(L, x) \/ x = w.rank
    BY <1>3 DEF WaitsIn
  <2>2. WaitsIn(L, x) => WaitsIn(K, x)
    BY <1>4 DEF WaitsIn
  <2>3. WaitsIn(K, w.rank)
    BY <1>2 DEF WaitsIn
  <2> QED BY <2>1, <2>2, <2>3
<1> QED BY <1>5, <1>6

\* ... or its first waiter leaves it.
Leaves(w, id, L, K) ==
    /\ L \in [Mutex -> Seq(Waiter)] /\ OnceIn(L) /\ id \in Mutex
    /\ L[id] # <<>> /\ w = Head(L[id])
    /\ K[id] = Tail(L[id])
    /\ \A jd \in Mutex : jd # id => K[jd] = L[jd]

LEMMA LeaveQueue ==
    ASSUME NEW w, NEW id, NEW L, NEW K, Leaves(w, id, L, K)
    PROVE  /\ OnceIn(K)
           /\ w \in Waiter
           /\ WaitsIn(L, w.rank)
           /\ \A x : WaitsIn(K, x) <=> WaitsIn(L, x) /\ x # w.rank
<1> USE DEF Leaves
<1>1. /\ L[id] \in Seq(Waiter) /\ w \in Waiter /\ w = L[id][1]
      /\ 1 \in DOMAIN L[id]
  BY HeadTailProperties, EmptySeq
<1>2. K[id] = Tail(L[id]) /\ \A jd \in Mutex : jd # id => K[jd] = L[jd]
  OBVIOUS
<1>3. \A i \in DOMAIN K[id] : i \in Nat /\ i + 1 \in DOMAIN L[id] /\ K[id][i] = L[id][i + 1] /\ i + 1 # 1
  BY <1>1, <1>2, HeadTailProperties
<1>4. \A i \in DOMAIN L[id] : i # 1 => i \in Nat /\ i - 1 \in DOMAIN K[id] /\ K[id][i - 1] = L[id][i]
  <2> TAKE i \in DOMAIN L[id]
  <2> HAVE i # 1
  <2>1. i \in 2 .. Len(L[id]) /\ Len(Tail(L[id])) = Len(L[id]) - 1 /\ Tail(L[id]) \in Seq(Waiter)
    BY <1>1, HeadTailProperties
  <2>2. i - 1 \in 1 .. Len(Tail(L[id])) /\ (i - 1) + 1 = i /\ i \in Nat
    BY <1>1, <2>1
  <2> QED BY <1>1, <1>2, <2>1, <2>2, HeadTailProperties
<1>5. OnceIn(K)
  <2> SUFFICES ASSUME NEW a \in Mutex, NEW b \in Mutex,
                      NEW i \in DOMAIN K[a], NEW j \in DOMAIN K[b],
                      K[a][i].rank = K[b][j].rank
               PROVE  a = b /\ i = j
    BY DEF OnceIn
  <2>1. CASE a = id /\ b = id
    <3>1. /\ i \in Nat /\ i + 1 \in DOMAIN L[id] /\ K[a][i] = L[id][i + 1]
          /\ j \in Nat /\ j + 1 \in DOMAIN L[id] /\ K[b][j] = L[id][j + 1]
      BY <1>3, <2>1
    <3>2. L[id][i + 1].rank = L[id][j + 1].rank => i + 1 = j + 1
      BY <3>1 DEF OnceIn
    <3> QED BY <2>1, <3>1, <3>2
  <2>2. CASE a = id /\ b # id
    <3>1. /\ i + 1 \in DOMAIN L[id] /\ K[a][i] = L[id][i + 1]
          /\ j \in DOMAIN L[b] /\ K[b][j] = L[b][j]
      BY <1>2, <1>3, <2>2
    <3> QED BY <2>2, <3>1 DEF OnceIn
  <2>3. CASE a # id /\ b = id
    <3>1. /\ i \in DOMAIN L[a] /\ K[a][i] = L[a][i]
          /\ j + 1 \in DOMAIN L[id] /\ K[b][j] = L[id][j + 1]
      BY <1>2, <1>3, <2>3
    <3> QED BY <2>3, <3>1 DEF OnceIn
  <2>4. CASE a # id /\ b # id
    BY <1>2, <2>4 DEF OnceIn
  <2> QED BY <2>1, <2>2, <2>3, <2>4
<1>6. WaitsIn(L, w.rank)
  BY <1>1 DEF WaitsIn
<1>7. ASSUME NEW x
      PROVE  WaitsIn(K, x) <=> WaitsIn(L, x) /\ x # w.rank
  <2>1. ASSUME WaitsIn(K, x) PROVE WaitsIn(L, x) /\ x # w.rank
    <3>0. PICK jd \in Mutex : \E i \in DOMAIN K[jd] : K[jd][i].rank = x
      BY <2>1 DEF WaitsIn
    <3>1. PICK i \in DOMAIN K[jd] : K[jd][i].rank = x
      BY <3>0
    <3>2. CASE jd = id
      <4>1. i + 1 \in DOMAIN L[id] /\ L[id][i + 1].rank = x /\ i + 1 # 1
        BY <1>3, <3>1, <3>2
      <4> QED BY <1>1, <4>1 DEF OnceIn, WaitsIn
    <3>3. CASE jd # id
      BY <1>1, <1>2, <3>1, <3>3 DEF OnceIn, WaitsIn
    <3> QED BY <3>2, <3>3
  <2>2. ASSUME WaitsIn(L, x), x # w.rank PROVE WaitsIn(K, x)
    <3>0. PICK jd \in Mutex : \E i \in DOMAIN L[jd] : L[jd][i].rank = x
      BY <2>2 DEF WaitsIn
    <3>1. PICK i \in DOMAIN L[jd] : L[jd][i].rank = x
      BY <3>0
    <3>2. CASE jd = id
      BY <1>1, <1>4, <2>2, <3>1, <3>2 DEF WaitsIn
    <3>3. CASE jd # id
      BY <1>2, <3>1, <3>3 DEF WaitsIn
    <3> QED BY <3>2, <3>3
  <2> QED BY <2>1, <2>2
<1> QED BY <1>1, <1>5, <1>6, <1>7

\* _lq_progress passes the message on: what the queues L of r would be, if
\* nobody were granted, loses the waiter that is granted.
Granted(r, s, id, L, w) ==
    /\ Answer(r, s, w.rank, Msg("OP_LOCK_RESPONSE", -1, 0, w.call))
    /\ WaitsIn(L, w.rank)
    /\ \E i \in DOMAIN L[id] : L[id][i] = w
    /\ \A y \in Rank \ {r} : lq'[y] = lq[y]
    /\ \A jd \in Mutex : \A i \in DOMAIN lq'[r][jd] :
          \E j \in DOMAIN L[jd] : lq'[r][jd][i] = L[jd][j]
    /\ \A x : WaitsIn(lq'[r], x) <=> WaitsIn(L, x) /\ x # w.rank

LEMMA LqProgressQueues ==
    ASSUME TypeInv, QueuedOnce, NEW r \in Rank, NEW s \in Rank, NEW id \in Mutex,
           NEW holder, NEW L \in [Mutex -> Seq(Waiter)], OnceIn(L),
           \A jd \in Mutex : jd # id => L[jd] = lq[r][jd],
           LqProgress(r, s, id, holder, L[id])
    PROVE  /\ QueuedOnce'
           /\ \/ /\ Consume(r, s)
                 /\ lq' = [lq EXCEPT ![r] = L]
              \/ \E w \in Waiter : Granted(r, s, id, L, w)
<1>1. lq \in [Rank -> [Mutex -> Seq(Waiter)]] /\ \A p \in Rank : OnceIn(lq[p])
  BY DEF TypeInv, TypeOK, QueuedOnce, OnceIn
<1>2. CASE holder = Nobody /\ L[id] # <<>>
  <2>0. PICK K : K = [L EXCEPT ![id] = Tail(@)]
    OBVIOUS
  <2>00. PICK w : w = Head(L[id])
    OBVIOUS
  <2>1. /\ lq' = [lq EXCEPT ![r][id] = Tail(L[id])]
        /\ Answer(r, s, w.rank, Msg("OP_LOCK_RESPONSE", -1, 0, w.call))
    BY <1>2, <2>00 DEF LqProgress
  <2>2. \A p \in Rank : lq'[p] = IF p = r THEN K ELSE lq[p]
    <3>1. \A p \in Rank \ {r} : lq'[p] = lq[p]
      BY <1>1, <2>1
    <3>2. lq'[r] = [lq[r] EXCEPT ![id] = Tail(L[id])]
      BY <1>1, <2>1
    <3>3. lq'[r] = K
      BY <1>1, <2>0, <3>2
    <3> QED BY <3>1, <3>3
  <2>3. /\ OnceIn(K) /\ w \in Waiter /\ WaitsIn(L, w.rank)
        /\ \A x : WaitsIn(K, x) <=> WaitsIn(L, x) /\ x # w.rank
    <3>1. K[id] = Tail(L[id]) /\ \A jd \in Mutex : jd # id => K[jd] = L[jd]
      BY <2>0
    <3>2. Leaves(w, id, L, K)
      BY <1>2, <2>00, <3>1 DEF Leaves
    <3> QED BY <3>2, LeaveQueue
  <2>4. QueuedOnce'
    <3>1. \A p \in Rank : OnceIn(lq'[p])
      BY <1>1, <2>2, <2>3
    <3> QED BY <3>1 DEF QueuedOnce, OnceIn
  <2>5. \A jd \in Mutex : \A i \in DOMAIN K[jd] : \E j \in DOMAIN L[jd] : K[jd][i] = L[jd][j]
    <3>1. \A i \in DOMAIN Tail(L[id]) : i + 1 \in DOMAIN L[id] /\ Tail(L[id])[i] = L[id][i + 1]
      BY <1>2, HeadTailProperties
    <3> QED BY <2>0, <3>1
  <2>6. \E i \in DOMAIN L[id] : L[id][i] = w
    <3>1. 1 \in DOMAIN L[id] /\ L[id][1] = w
      BY <1>2, <2>00, EmptySeq
    <3> QED BY <3>1
  <2>7. /\ \A y \in Rank \ {r} : lq'[y] = lq[y]
        /\ lq'[r] = K
    BY <2>2
  <2>8. \A jd \in Mutex : \A i \in DOMAIN lq'[r][jd] :
           \E j \in DOMAIN L[jd] : lq'[r][jd][i] = L[jd][j]
    BY <2>5, <2>7
  <2>9. \A x : WaitsIn(lq'[r], x) <=> WaitsIn(L, x) /\ x # w.rank
    BY <2>3, <2>7
  <2>10. Granted(r, s, id, L, w)
    BY <2>1, <2>3, <2>6, <2>7, <2>8, <2>9 DEF Granted
  <2> QED BY <2>3, <2>4, <2>10
<1>3. CASE ~(holder = Nobody /\ L[id] # <<>>)
  <2>1. lq' = [lq EXCEPT ![r][id] = L[id]] /\ Consume(r, s)
    BY <1>3 DEF LqProgress
  <2>2. [lq[r] EXCEPT ![id] = L[id]] = L
    BY <1>1
  <2>3. lq' = [lq EXCEPT ![r] = L]
    BY <1>1, <2>1, <2>2
  <2>4. QueuedOnce'
    <3>1. \A p \in Rank : OnceIn(lq'[p])
      BY <1>1, <2>3
    <3> QED BY <3>1 DEF QueuedOnce, OnceIn
  <2> QED BY <2>1, <2>3, <2>4
<1> QED BY <1>2, <1>3

\* A lock or unlock request is received, and a waiter may be told.
LEMMA LqProgressOpen ==
    ASSUME TypeInv, QueuedOnce, NEW r \in Rank, NEW s \in Rank, chan[s][r] # <<>>,
           NEW id \in Mutex, NEW holder, NEW L \in [Mutex -> Seq(Waiter)], OnceIn(L),
           \A jd \in Mutex : jd # id => L[jd] = lq[r][jd],
           LqProgress(r, s, id, holder, L[id]), UNCHANGED <<bq, kept>>,
           Head(chan[s][r]).op \notin ResponseOp,
           Head(chan[s][r]).op \in RequestOp => ~InLockQueue(s, r),
           \A x : WaitsIn(L, x) <=>
              WaitsIn(lq[r], x) \/ (Head(chan[s][r]).op \in RequestOp /\ x = s)
    PROVE  OpenSame
<1> SUFFICES ASSUME NEW x \in Rank, NEW y \in Rank PROVE Open(x, y)' = Open(x, y)
  BY DEF OpenSame
<1> DEFINE h == Head(chan[s][r])
           u == IF x = s /\ y = r /\ h.op \in RequestOp THEN 1 ELSE 0
           e == IF WaitsIn(IF y = r THEN L ELSE lq[y], x) THEN 1 ELSE 0
           q == Num(Taken(r, s)[x][y], RequestOp)
           a == Num(Taken(r, s)[y][x], ResponseOp)
<1>1. /\ Num(chan[x][y], RequestOp) = q + u /\ q \in Nat
      /\ Num(chan[y][x], ResponseOp) = a /\ a \in Nat
  <2>1. Num(chan[x][y], RequestOp) = q + u /\ q \in Nat
    <3>1. /\ q \in Nat
          /\ Num(chan[x][y], RequestOp) = q + Unit(x = s /\ y = r /\ h.op \in RequestOp)
      BY TakenNum
    <3> HIDE DEF q
    <3> QED BY <3>1 DEF Unit
  <2>2. Num(chan[y][x], ResponseOp) = a /\ a \in Nat
    BY TakenNumSame
  <2> QED BY <2>1, <2>2
<1>2. e = LockEntries(x, y) + u
  <2>1. InLockQueue(x, y) <=> WaitsIn(lq[y], x)
    BY DEF InLockQueue, WaitsIn
  <2>2. CASE x = s /\ y = r /\ h.op \in RequestOp
    <3>1. LockEntries(x, y) = 0 /\ u = 1 /\ WaitsIn(L, x)
      BY <2>2 DEF LockEntries
    <3> QED BY <2>2, <3>1
  <2>3. CASE ~(x = s /\ y = r /\ h.op \in RequestOp)
    <3>1. u = 0 /\ (WaitsIn(IF y = r THEN L ELSE lq[y], x) <=> InLockQueue(x, y))
      BY <2>1, <2>3
    <3> QED BY <3>1 DEF LockEntries
  <2> QED BY <2>2, <2>3
<1>3. /\ From(bq[y], x) \in Nat /\ From(kept[y], x) \in Nat /\ LockEntries(x, y) \in Nat
  BY OpenType
<1>4. u \in {0, 1} /\ e \in {0, 1}
  OBVIOUS
<1>5. /\ Wire(x, y)' = Num(chan'[x][y], RequestOp) + Num(chan'[y][x], ResponseOp)
      /\ Parked(x, y)' = From(bq[y], x) + From(kept[y], x) + LockEntries(x, y)'
      /\ LockEntries(x, y)' = IF WaitsIn(lq'[y], x) THEN 1 ELSE 0
  BY DEF Wire, Parked, LockEntries, InLockQueue, WaitsIn
<1>6. Wire(x, y)' + Parked(x, y)' = Wire(x, y) + Parked(x, y)
  <2>1. CASE Consume(r, s) /\ lq' = [lq EXCEPT ![r] = L]
    <3>1. chan' = Taken(r, s)
      BY <2>1 DEF Consume
    <3>2. lq'[y] = IF y = r THEN L ELSE lq[y]
      BY <2>1 DEF TypeInv, TypeOK
    <3>3. LockEntries(x, y)' = e
      BY <1>5, <3>2
    <3>4. Wire(x, y)' = q + a
      BY <1>5, <3>1
    <3> HIDE DEF e, u, q, a, h
    <3> QED BY <1>1, <1>2, <1>3, <1>4, <1>5, <3>3, <3>4 DEF Wire, Parked
  <2>2. CASE ~(Consume(r, s) /\ lq' = [lq EXCEPT ![r] = L])
    <3>0. PICK w \in Waiter : Granted(r, s, id, L, w)
      BY <2>2, LqProgressQueues
    <3>1. /\ Answer(r, s, w.rank, Msg("OP_LOCK_RESPONSE", -1, 0, w.call))
          /\ WaitsIn(L, w.rank)
          /\ \A p \in Rank \ {r} : lq'[p] = lq[p]
          /\ \A z : WaitsIn(lq'[r], z) <=> WaitsIn(L, z) /\ z # w.rank
      BY <3>0 DEF Granted
    <3> DEFINE v == IF x = w.rank /\ y = r THEN 1 ELSE 0
               m == Msg("OP_LOCK_RESPONSE", -1, 0, w.call)
    <3>2. w.rank \in Rank /\ w.call \in Nat
      BY DEF Waiter
    <3>3. m \in Message /\ m.op = "OP_LOCK_RESPONSE"
      BY <3>2, MessageType DEF OpCode, CellOp, Msg
    <3>4. m.op \notin RequestOp /\ m.op \in ResponseOp
      BY <3>3 DEF RequestOp, ResponseOp
    <3> HIDE DEF m
    <3>5. Answer(r, s, w.rank, m)
      BY <3>1 DEF m
    <3>6. Num(chan'[x][y], RequestOp) = q
      <4>1. Num(chan'[x][y], RequestOp) = q + Unit(x = r /\ y = w.rank /\ m.op \in RequestOp)
        BY <3>2, <3>3, <3>5, AnswerNum
      <4> HIDE DEF q
      <4> QED BY <1>1, <3>4, <4>1 DEF Unit
    <3>7. Num(chan'[y][x], ResponseOp) = a + v
      <4>1. Num(chan'[y][x], ResponseOp) = a + Unit(y = r /\ x = w.rank /\ m.op \in ResponseOp)
        BY <3>2, <3>3, <3>5, AnswerNum
      <4> HIDE DEF a
      <4> QED BY <1>1, <3>4, <4>1 DEF Unit
    <3>8. e = LockEntries(x, y)' + v /\ LockEntries(x, y)' \in {0, 1}
      <4>1. CASE y = r
        BY <1>5, <3>1, <4>1
      <4>2. CASE y # r
        BY <1>5, <3>1, <4>2
      <4> QED BY <4>1, <4>2
    <3>9. v \in {0, 1}
      OBVIOUS
    <3> HIDE DEF e, u, v, q, a, h
    <3>10. Wire(x, y)' = q + (a + v) /\ Wire(x, y) = (q + u) + a
      BY <1>1, <1>5, <3>6, <3>7 DEF Wire
    <3>11. /\ Parked(x, y)' = (From(bq[y], x) + From(kept[y], x)) + LockEntries(x, y)'
           /\ Parked(x, y) = (From(bq[y], x) + From(kept[y], x)) + LockEntries(x, y)
      BY <1>5 DEF Parked
    <3>12. /\ From(bq[y], x) \in Nat /\ From(kept[y], x) \in Nat
           /\ q \in Nat /\ a \in Nat /\ u \in Nat /\ v \in Nat
           /\ LockEntries(x, y) \in Nat /\ LockEntries(x, y)' \in Nat
      BY <1>1, <1>3, <1>4, <3>8, <3>9
    <3>13. LockEntries(x, y)' + v = LockEntries(x, y) + u
      BY <1>2, <3>8
    <3>14. PICK n \in Nat : n = LockEntries(x, y)'
      BY <3>12
    <3>15. PICK k \in Nat : k = LockEntries(x, y)
      BY <3>12
    <3>16. PICK f \in Nat : f = From(bq[y], x)
      BY <3>12
    <3>17. PICK g \in Nat : g = From(kept[y], x)
      BY <3>12
    <3>18. n + v = k + u
      BY <3>13, <3>14, <3>15
    <3>19. q \in Nat /\ a \in Nat /\ u \in Nat /\ v \in Nat
      BY <3>12
    <3>20. (q + (a + v)) + ((f + g) + n) = ((q + u) + a) + ((f + g) + k)
      BY <3>18, <3>19
    <3> QED BY <3>10, <3>11, <3>14, <3>15, <3>16, <3>17, <3>20
  <2> QED BY <2>1, <2>2
<1> QED BY <1>6 DEF Open

-----------------------------------------------------------------------------
(* What a step leaves alone *)

\* Present, in the state after the step
PresentNext(r, c, ops) ==
    c = pc'[r] /\ phase'[r] # "idle" /\ prog'[r][pc'[r]].op \in ops

\* A rank that stays in its call, and one that nobody owes an answer
Steady(q) == pc'[q] = pc[q] /\ (phase[q] # "idle" => phase'[q] # "idle")
NoneOpen(q) == \A p \in Rank : Open(q, p) = 0

Attended == prog' = prog /\ \A q \in Rank : Steady(q) \/ NoneOpen(q)

\* A rank that is where it was, and waits for what it waited for
Unmoved(q) ==
    /\ pc'[q] = pc[q] /\ phase'[q] = phase[q] /\ busy'[q] = busy[q]
    /\ gets'[q] = gets[q] /\ notify'[q] = notify[q]
    /\ todo'[q] = todo[q] /\ resps'[q] = resps[q]
    /\ \A p \in Rank : Open(q, p)' = Open(q, p)

\* All ranks but r
Others(r) ==
    /\ prog' = prog
    /\ \A q \in Rank \ {r} : Unmoved(q)

LEMMA PresentKept ==
    ASSUME NEW q, NEW c, NEW ops, Present(q, c, ops), prog' = prog, Steady(q)
    PROVE  PresentNext(q, c, ops)
  BY DEF Present, PresentNext, Steady, In, Cur

\* A message that a step may add
Proper(s, d, m) ==
    /\ m.op \in RequestOp => PresentNext(s, m.call, Caller(m.op))
    /\ m.op \in ResponseOp => PresentNext(d, m.call, Caller(m.op))

LEMMA MessagesFrame ==
    ASSUME TypeInv, MessagesPresent, Attended, NEW r \in Rank, NEW d \in Rank,
           NEW N, ChanMoved(r, d, N), \A m \in N : Proper(r, d, m)
    PROVE  MessagesPresent'
<1> SUFFICES ASSUME NEW s \in Rank, NEW e \in Rank, NEW i \in DOMAIN chan'[s][e]
             PROVE  Proper(s, e, chan'[s][e][i])
  BY DEF MessagesPresent, Proper, Present, PresentNext, In, Cur
<1>1. \/ \E j \in DOMAIN chan[s][e] : chan'[s][e][i] = chan[s][e][j]
      \/ s = r /\ e = d /\ chan'[s][e][i] \in N
  BY DEF ChanMoved, Shifted
<1>2. CASE s = r /\ e = d /\ chan'[s][e][i] \in N
  BY <1>2
<1>3. ASSUME NEW j \in DOMAIN chan[s][e], chan'[s][e][i] = chan[s][e][j]
      PROVE  Proper(s, e, chan'[s][e][i])
  <2> DEFINE m == chan[s][e][j]
  <2>1. ASSUME m.op \in RequestOp PROVE PresentNext(s, m.call, Caller(m.op))
    <3>1. Open(s, e) # 0
      BY <2>1, OpenTrace
    <3>2. Steady(s) /\ prog' = prog
      BY <3>1 DEF Attended, NoneOpen
    <3>3. Present(s, m.call, Caller(m.op))
      BY <2>1 DEF MessagesPresent
    <3> QED BY <3>2, <3>3, PresentKept
  <2>2. ASSUME m.op \in ResponseOp PROVE PresentNext(e, m.call, Caller(m.op))
    <3>1. Open(e, s) # 0
      BY <2>2, OpenTrace
    <3>2. Steady(e) /\ prog' = prog
      BY <3>1 DEF Attended, NoneOpen
    <3>3. Present(e, m.call, Caller(m.op))
      BY <2>2 DEF MessagesPresent
    <3> QED BY <3>2, <3>3, PresentKept
  <2> QED BY <1>3, <2>1, <2>2 DEF Proper
<1> QED BY <1>1, <1>2, <1>3

\* An entry of a queue of p after the step: it was queued there before, or
\* its call is in progress.
OldOrPresent(w, old, ops) ==
    (\E j \in DOMAIN old : w = old[j]) \/ PresentNext(w.rank, w.call, ops)

QueuesMoved ==
    \A p \in Rank :
        /\ \A i \in DOMAIN bq'[p] :
              \/ OldOrPresent(bq'[p][i], bq[p], BarrierOp)
              \/ OldOrPresent(bq'[p][i], kept[p], BarrierOp)
        /\ \A i \in DOMAIN kept'[p] :
              \/ OldOrPresent(kept'[p][i], bq[p], BarrierOp)
              \/ OldOrPresent(kept'[p][i], kept[p], BarrierOp)
        /\ \A id \in Mutex : \A i \in DOMAIN lq'[p][id] :
              OldOrPresent(lq'[p][id][i], lq[p][id], {"lock"})

LEMMA EntryRank ==
    ASSUME NEW q \in Seq(Waiter), NEW i \in DOMAIN q
    PROVE  q[i] \in Waiter /\ q[i].rank \in Rank
<1>1. q[i] \in Waiter
  OBVIOUS
<1> QED BY <1>1 DEF Waiter

LEMMA QueuesFrame ==
    ASSUME TypeInv, QueuesPresent, Attended, QueuesMoved
    PROVE  QueuesPresent'
<1>1. ASSUME NEW p \in Rank, NEW i \in DOMAIN bq[p]
      PROVE  PresentNext(bq[p][i].rank, bq[p][i].call, BarrierOp)
  <2>1. bq[p][i].rank \in Rank
    BY QueueTypes, EntryRank
  <2>2. Steady(bq[p][i].rank) /\ prog' = prog
    BY <2>1, OpenTrace DEF Attended, NoneOpen
  <2>3. Present(bq[p][i].rank, bq[p][i].call, BarrierOp)
    BY DEF QueuesPresent, EntriesPresent
  <2> QED BY <2>2, <2>3, PresentKept
<1>2. ASSUME NEW p \in Rank, NEW i \in DOMAIN kept[p]
      PROVE  PresentNext(kept[p][i].rank, kept[p][i].call, BarrierOp)
  <2>1. kept[p][i].rank \in Rank
    BY QueueTypes, EntryRank
  <2>2. Steady(kept[p][i].rank) /\ prog' = prog
    BY <2>1, OpenTrace DEF Attended, NoneOpen
  <2>3. Present(kept[p][i].rank, kept[p][i].call, BarrierOp)
    BY DEF QueuesPresent, EntriesPresent
  <2> QED BY <2>2, <2>3, PresentKept
<1>3. ASSUME NEW p \in Rank, NEW id \in Mutex, NEW i \in DOMAIN lq[p][id]
      PROVE  PresentNext(lq[p][id][i].rank, lq[p][id][i].call, {"lock"})
  <2>1. lq[p][id][i].rank \in Rank
    BY QueueTypes, EntryRank
  <2>2. InLockQueue(lq[p][id][i].rank, p)
    BY DEF InLockQueue
  <2>3. Steady(lq[p][id][i].rank) /\ prog' = prog
    BY <2>1, <2>2, OpenTrace DEF Attended, NoneOpen
  <2>4. Present(lq[p][id][i].rank, lq[p][id][i].call, {"lock"})
    BY DEF QueuesPresent, EntriesPresent
  <2> QED BY <2>3, <2>4, PresentKept
<1>4. ASSUME NEW p \in Rank
      PROVE  /\ \A i \in DOMAIN bq'[p] :
                   PresentNext(bq'[p][i].rank, bq'[p][i].call, BarrierOp)
             /\ \A i \in DOMAIN kept'[p] :
                   PresentNext(kept'[p][i].rank, kept'[p][i].call, BarrierOp)
             /\ \A id \in Mutex : \A i \in DOMAIN lq'[p][id] :
                   PresentNext(lq'[p][id][i].rank, lq'[p][id][i].call, {"lock"})
  BY <1>1, <1>2, <1>3 DEF QueuesMoved, OldOrPresent
<1>5. ASSUME NEW p \in Rank
      PROVE  /\ EntriesPresent(bq[p], BarrierOp)'
             /\ EntriesPresent(kept[p], BarrierOp)'
             /\ \A id \in Mutex : EntriesPresent(lq[p][id], {"lock"})'
  <2>1. EntriesPresent(bq[p], BarrierOp)'
    BY <1>4 DEF EntriesPresent, Present, PresentNext, In, Cur
  <2>2. EntriesPresent(kept[p], BarrierOp)'
    BY <1>4 DEF EntriesPresent, Present, PresentNext, In, Cur
  <2>3. \A id \in Mutex : EntriesPresent(lq[p][id], {"lock"})'
    BY <1>4 DEF EntriesPresent, Present, PresentNext, In, Cur
  <2> QED BY <2>1, <2>2, <2>3
<1> QED BY <1>5 DEF QueuesPresent

LEMMA SameQueues ==
    ASSUME QueuesSame
    PROVE  QueuesMoved
  BY DEF QueuesSame, QueuesMoved, OldOrPresent

LEMMA UnmovedPhase ==
    ASSUME prog' = prog, NEW q \in Rank, Unmoved(q), PhaseAt(q)
    PROVE  PhaseAt(q)'
  BY DEF Unmoved, PhaseAt, In, Cur

LEMMA UnmovedCounted ==
    ASSUME prog' = prog, NEW q \in Rank, Unmoved(q), Counted(q)
    PROVE  Counted(q)'
<1>1. /\ prog' = prog /\ pc'[q] = pc[q] /\ phase'[q] = phase[q]
      /\ gets'[q] = gets[q] /\ notify'[q] = notify[q]
      /\ todo'[q] = todo[q] /\ resps'[q] = resps[q]
      /\ \A p \in Rank : Open(q, p)' = Open(q, p)
  BY DEF Unmoved
<1>2. Cur(q)' = Cur(q)
  BY <1>1 DEF Cur
<1>3. Awaited(q)' = Awaited(q)
  BY <1>1 DEF Awaited
<1>4. NobodyAsked(q)'
  BY <1>1, <1>2 DEF Counted, NobodyAsked, In
<1>5. GetCounted(q)'
  BY <1>1, <1>2 DEF Counted, GetCounted, In
<1>6. NotifyCounted(q)'
  BY <1>1, <1>2 DEF Counted, NotifyCounted, In
<1>7. FenceCounted(q)'
  BY <1>1, <1>2, <1>3 DEF Counted, FenceCounted, In
<1>8. MasksCounted(q)'
  BY <1>1, <1>2 DEF Counted, MasksCounted, In
<1> QED BY <1>4, <1>5, <1>6, <1>7, <1>8 DEF Counted

\* What is left to show for a step of r
LEMMA CallFrame ==
    ASSUME TypeInv, CallInv, NEW r \in Rank, Others(r), Steady(r) \/ NoneOpen(r),
           NEW s \in Rank, NEW d \in Rank, NEW N, ChanMoved(s, d, N),
           \A m \in N : Proper(s, d, m),
           QueuesMoved, QueuedOnce', PhaseAt(r)', Counted(r)'
    PROVE  CallInv'
<1>1. Attended
  BY DEF Attended, Others, Unmoved, Steady
<1>2. MessagesPresent' /\ QueuesPresent'
  BY <1>1, MessagesFrame, QueuesFrame DEF CallInv
<1>3. \A q \in Rank : PhaseAt(q)' /\ Counted(q)'
  BY UnmovedPhase, UnmovedCounted DEF CallInv, Others
<1> QED BY <1>2, <1>3 DEF CallInv

-----------------------------------------------------------------------------
(* How a rank moves *)

LEMMA CallVars ==
    ASSUME TypeInv
    PROVE  /\ gets \in [Rank -> Int] /\ notify \in [Rank -> Int]
           /\ todo \in [Rank -> SUBSET Rank]
           /\ resps \in [Rank -> [Rank -> Nat]]
           /\ busy \in [Rank -> BOOLEAN] /\ phase \in [Rank -> Phase]
           /\ pc \in [Rank -> Nat \ {0}]
  BY DEF TypeInv, TypeOK

\* Only r moves ...
Alone(r) ==
    /\ prog' = prog
    /\ \A q \in Rank \ {r} :
          pc'[q] = pc[q] /\ phase'[q] = phase[q] /\ busy'[q] = busy[q]

\* ... and only what it waits for changes.
AloneWaiting(r) ==
    \A q \in Rank \ {r} : /\ gets'[q] = gets[q] /\ notify'[q] = notify[q]
                          /\ todo'[q] = todo[q] /\ resps'[q] = resps[q]

OpenAlone(r) ==
    \/ OpenSame
    \/ \E p \in Rank : OpenMore(r, p)
    \/ \E p \in Rank : OpenLess(r, p)

LEMMA OthersAlone ==
    ASSUME TypeInv, NEW r \in Rank, Alone(r), AloneWaiting(r), OpenAlone(r)
    PROVE  Others(r)
<1>1. ASSUME NEW q \in Rank \ {r}, NEW p \in Rank PROVE Open(q, p)' = Open(q, p)
  <2>1. CASE OpenSame
    BY <2>1 DEF OpenSame
  <2>2. ASSUME NEW d \in Rank, OpenMore(r, d) PROVE Open(q, p)' = Open(q, p)
    <3>1. Open(q, p)' = Open(q, p) + Unit(q = r /\ p = d)
      BY <2>2 DEF OpenMore
    <3> QED BY <3>1, OpenType DEF Unit
  <2>3. ASSUME NEW s \in Rank, OpenLess(r, s) PROVE Open(q, p)' = Open(q, p)
    <3>1. Open(q, p)' = Open(q, p) - Unit(q = r /\ p = s)
      BY <2>3 DEF OpenLess
    <3> QED BY <3>1, OpenType DEF Unit
  <2> QED BY <2>1, <2>2, <2>3 DEF OpenAlone
<1> QED BY <1>1 DEF Others, Unmoved, Alone, AloneWaiting

\* A rank goes on in its call, ...
LEMMA MovedOn ==
    ASSUME TypeInv, NEW r \in Rank, NEW ph \in Phase \ {"idle"},
           Progress(r, ph) \/ Proceed(r, ph) \/ Pushed(r, ph)
    PROVE  /\ Alone(r) /\ Steady(r)
           /\ phase'[r] = ph /\ pc'[r] = pc[r] /\ prog' = prog
           /\ Cur(r)' = Cur(r)
<1>1. prog' = prog /\ pc' = pc /\ phase' = [phase EXCEPT ![r] = ph]
  BY ControlType
<1>2. \A q \in Rank \ {r} : busy'[q] = busy[q]
  BY CallVars DEF Progress, Proceed, Pushed
<1> QED BY <1>1, <1>2, CallVars DEF Alone, Steady, Cur

\* ... waits in the progress loop, ...
LEMMA Entered1 ==
    ASSUME TypeInv, NEW r \in Rank, NEW ph, Progress(r, ph)
    PROVE  busy'[r] = TRUE
  BY CallVars DEF Progress

\* ... returns from it, ...
LEMMA MovedBack ==
    ASSUME TypeInv, NEW r \in Rank, Return(r)
    PROVE  Alone(r) /\ phase'[r] = "idle"
  BY CallVars DEF Return, Alone

\* ... or handles a message.
LEMMA MovedNot ==
    ASSUME UNCHANGED control, NEW r
    PROVE  /\ Alone(r) /\ prog' = prog /\ Cur(r)' = Cur(r)
           /\ phase' = phase /\ pc' = pc /\ busy' = busy
           /\ \A q : Steady(q)
  BY DEF control, Alone, Steady, Cur

LEMMA MovedBlock ==
    ASSUME TypeInv, NEW r \in Rank, NEW ops \in SUBSET DataOp, NextBlock(r, ops),
           NEW pushed \in BOOLEAN, BlockIssued(r, pushed)
    PROVE  /\ Alone(r) /\ Steady(r)
           /\ phase'[r] \in {"wait", "issue"} /\ pc'[r] = pc[r] /\ prog' = prog
           /\ Cur(r)' = Cur(r)
           /\ phase'[r] = "wait" => busy'[r]
<1>1. CASE Progress(r, "wait")
  BY <1>1, MovedOn, Entered1 DEF Phase
<1>2. CASE Proceed(r, "issue") \/ Pushed(r, "issue")
  BY <1>2, MovedOn DEF Phase
<1> QED BY <1>1, <1>2 DEF BlockIssued

\* Between calls nothing is awaited, ...
LEMMA IdleOpen ==
    ASSUME TypeInv, CallInv, NEW r \in Rank, phase[r] = "idle"
    PROVE  NoneOpen(r) /\ gets[r] = 0 /\ todo[r] = {}
<1>1. Counted(r) /\ PhaseAt(r)
  BY DEF CallInv
<1>2. NoneOpen(r)
  BY <1>1 DEF Counted, NobodyAsked, In, NoneOpen
<1>3. gets[r] = 0
  BY <1>1 DEF Counted, GetCounted, In
<1>4. todo[r] = {}
  BY <1>1 DEF PhaseAt
<1> QED BY <1>2, <1>3, <1>4

\* ... nor in a call that asks nobody.
LEMMA PlainOpen ==
    ASSUME TypeInv, CallInv, NEW r \in Rank, Cur(r).op \notin AskingOp
    PROVE  NoneOpen(r) /\ gets[r] = 0
<1>1. Counted(r)
  BY DEF CallInv
<1>2. NoneOpen(r)
  BY <1>1 DEF Counted, NobodyAsked, In, NoneOpen
<1>3. gets[r] = 0
  BY <1>1 DEF Counted, GetCounted, In, AskingOp
<1> QED BY <1>2, <1>3

LEMMA PlainCounted ==
    ASSUME NEW r \in Rank, ~In(r, AskingOp)',
           \A p \in Rank : Open(r, p)' = 0, gets'[r] = 0
    PROVE  Counted(r)'
<1>1. ~In(r, {"get"})' /\ ~In(r, {"lock"} \cup RmwOp)' /\ ~In(r, {"fence"})'
      /\ ~In(r, BarrierOp)'
  BY DEF In, AskingOp
<1>2. NobodyAsked(r)' /\ GetCounted(r)' /\ NotifyCounted(r)'
  BY <1>1 DEF NobodyAsked, GetCounted, NotifyCounted
<1>3. FenceCounted(r)' /\ MasksCounted(r)'
  BY <1>1 DEF FenceCounted, MasksCounted
<1> QED BY <1>2, <1>3 DEF Counted

-----------------------------------------------------------------------------
(* The calls of ComexData *)

\* A block that is stored at once, or sent without an answer to come
LEMMA StoreBlockCall ==
    ASSUME TypeInv, CallInv, NEW r \in Rank, NEW ops \in SUBSET {"put", "putnext", "acc"},
           NextBlock(r, ops), NEW pushed \in BOOLEAN, BlockIssued(r, pushed),
           UNCHANGED <<waiting, barriers, lq>>,
           \/ UNCHANGED chan
           \/ \E m \in Message : Push(r, Cur(r).to, m) /\ m.op \in WriteOp
    PROVE  CallInv'
<1>1. Cur(r).op \in ops /\ Cur(r).to \in Rank /\ ops \in SUBSET DataOp
  <2>1. ops \in SUBSET DataOp
    BY DEF DataOp
  <2> QED BY <2>1, BlockType DEF Call
<1>2. /\ Alone(r) /\ Steady(r)
      /\ phase'[r] \in {"wait", "issue"} /\ pc'[r] = pc[r] /\ prog' = prog
      /\ Cur(r)' = Cur(r)
      /\ phase'[r] = "wait" => busy'[r]
  BY <1>1, MovedBlock
<1>3. NoneOpen(r) /\ gets[r] = 0
  BY <1>1, PlainOpen DEF AskingOp, RmwOp, BarrierOp
<1>4. QueuesSame /\ AloneWaiting(r) /\ gets' = gets /\ todo' = todo
  BY DEF NextBlock, waiting, barriers, QueuesSame, AloneWaiting
<1>5. /\ OpenSame
      /\ \E N : ChanMoved(r, Cur(r).to, N) /\ \A m \in N : Proper(r, Cur(r).to, m)
  <2>1. CASE UNCHANGED chan
    BY <1>1, <1>4, <2>1, NothingMoved, SameShift
  <2>2. CASE \E m \in Message : Push(r, Cur(r).to, m) /\ m.op \in WriteOp
    <3>1. PICK m \in Message : Push(r, Cur(r).to, m) /\ m.op \in WriteOp
      BY <2>2
    <3>2. /\ OpenSame
          /\ ChanMoved(r, Cur(r).to, {m}) /\ Proper(r, Cur(r).to, m)
      BY <1>1, <1>4, <3>1, OtherSent, PushShift, OpDisjoint DEF Proper
    <3>3. \A n \in {m} : Proper(r, Cur(r).to, n)
      BY <3>2
    <3> QED BY <3>2, <3>3
  <2> QED BY <2>1, <2>2
<1>6. Others(r)
  BY <1>2, <1>4, <1>5, OthersAlone DEF OpenAlone
<1>7. PhaseAt(r)'
  <2>1. todo[r] = {}
    BY DEF CallInv, PhaseAt, NextBlock, Calls
  <2> QED BY <1>1, <1>2, <1>4, <2>1 DEF PhaseAt, In, BarrierPhase, BarrierOp
<1>8. Counted(r)'
  <2>1. ~In(r, AskingOp)'
    BY <1>1, <1>2 DEF In, AskingOp, RmwOp, BarrierOp
  <2> QED BY <1>3, <1>4, <1>5, <2>1, PlainCounted DEF NoneOpen, OpenSame
<1>9. QueuesMoved /\ QueuedOnce'
  BY <1>4, SameQueues DEF QueuesSame, CallInv, QueuedOnce
<1> QED BY <1>1, <1>2, <1>5, <1>6, <1>7, <1>8, <1>9, CallFrame

LEMMA PutSelfCall ==
    ASSUME TypeInv, CallInv, NEW r \in Rank, PutSelf(r)
    PROVE  CallInv'
  BY StoreBlockCall DEF PutSelf, locks

LEMMA AccSelfCall ==
    ASSUME TypeInv, CallInv, NEW r \in Rank, AccSelf(r)
    PROVE  CallInv'
  BY StoreBlockCall DEF AccSelf, locks

LEMMA PutRemoteCall ==
    ASSUME TypeInv, CallInv, NEW r \in Rank, PutRemote(r)
    PROVE  CallInv'
<1>1. /\ Cur(r) \in Call /\ step[r] \in Cell /\ pc[r] \in Nat
  BY BlockType, ControlVars DEF PutRemote, DataOp
<1> DEFINE m == Msg("OP_PUT", step[r], PutValue(r), pc[r])
<1>2. m \in Message /\ m.op \in WriteOp
  BY <1>1, PutValueType, CellMessageType DEF CellOp, Msg, WriteOp
<1>3. Push(r, Cur(r).to, m)
  BY DEF PutRemote
<1> HIDE DEF m
<1> QED BY <1>2, <1>3, StoreBlockCall DEF PutRemote, locks

LEMMA AccRemoteCall ==
    ASSUME TypeInv, CallInv, NEW r \in Rank, AccRemote(r)
    PROVE  CallInv'
<1>1. /\ Cur(r) \in Call /\ step[r] \in Cell /\ pc[r] \in Nat
  BY BlockType, ControlVars DEF AccRemote, DataOp
<1> DEFINE m == Msg("OP_ACC", step[r], Cur(r).val, pc[r])
<1>2. m \in Message /\ m.op \in WriteOp
  BY <1>1, CellMessageType DEF CellOp, Msg, WriteOp, Call
<1>3. Push(r, Cur(r).to, m)
  BY DEF AccRemote
<1> HIDE DEF m
<1> QED BY <1>2, <1>3, StoreBlockCall DEF AccRemote, locks

LEMMA GetSelfCall ==
    ASSUME TypeInv, CallInv, NEW r \in Rank, GetSelf(r)
    PROVE  CallInv'
<1>1. Cur(r).op = "get" /\ Cur(r).to = r
  BY BlockType DEF GetSelf, DataOp
<1>2. /\ Alone(r) /\ Steady(r)
      /\ phase'[r] \in {"wait", "issue"} /\ pc'[r] = pc[r] /\ prog' = prog
      /\ Cur(r)' = Cur(r)
      /\ phase'[r] = "wait" => busy'[r]
  BY MovedBlock DEF GetSelf, DataOp
<1>3. NoneOpen(r) /\ gets[r] = 0 /\ todo[r] = {}
  <2>1. CASE phase[r] = "idle"
    BY <2>1, IdleOpen
  <2>2. CASE phase[r] = "issue"
    <3>1. GetCounted(r) /\ PhaseAt(r) /\ In(r, {"get"})
      BY <1>1, <2>2 DEF CallInv, Counted, In
    <3> QED BY <1>1, <2>2, <3>1 DEF GetCounted, NoneOpen, PhaseAt
  <2> QED BY <2>1, <2>2 DEF GetSelf, NextBlock, Calls
<1>4. QueuesSame /\ AloneWaiting(r) /\ gets' = gets /\ todo' = todo /\ chan' = chan
  BY DEF GetSelf, NextBlock, waiting, barriers, locks, QueuesSame, AloneWaiting
<1>5. OpenSame /\ ChanMoved(r, r, {})
  BY <1>4, NothingMoved, SameShift
<1>6. Others(r)
  BY <1>2, <1>4, <1>5, OthersAlone DEF OpenAlone
<1>7. PhaseAt(r)'
  BY <1>1, <1>2, <1>3, <1>4 DEF PhaseAt, In, BarrierPhase, BarrierOp
<1>8. Counted(r)'
  <2>1. NobodyAsked(r)' /\ NotifyCounted(r)' /\ FenceCounted(r)' /\ MasksCounted(r)'
    BY <1>1, <1>2 DEF In, NobodyAsked, NotifyCounted, FenceCounted, MasksCounted,
       AskingOp, RmwOp, BarrierOp
  <2>2. GetCounted(r)'
    BY <1>1, <1>2, <1>3, <1>4, <1>5 DEF GetCounted, In, NoneOpen, OpenSame
  <2> QED BY <2>1, <2>2 DEF Counted
<1>9. QueuesMoved /\ QueuedOnce'
  BY <1>4, SameQueues DEF QueuesSame, CallInv, QueuedOnce
<1> QED BY <1>2, <1>5, <1>6, <1>7, <1>8, <1>9, CallFrame

LEMMA GetRemoteCall ==
    ASSUME TypeInv, CallInv, NEW r \in Rank, GetRemote(r)
    PROVE  CallInv'
<1> DEFINE m == Msg("OP_GET_REQUEST", step[r], 0, pc[r])
           d == Cur(r).to
<1>1. /\ Cur(r).op = "get" /\ d \in Rank \ {r}
      /\ step[r] \in Cell /\ pc[r] \in Nat
  BY BlockType, ControlVars DEF GetRemote, DataOp, Call
<1>2. /\ Alone(r) /\ Steady(r)
      /\ phase'[r] \in {"wait", "issue"} /\ pc'[r] = pc[r] /\ prog' = prog
      /\ Cur(r)' = Cur(r)
      /\ phase'[r] = "wait" => busy'[r]
  BY MovedBlock DEF GetRemote, DataOp
<1>3. /\ \A p \in Rank : Open(r, p) = IF p = d THEN gets[r] ELSE 0
      /\ todo[r] = {}
  <2>1. CASE phase[r] = "idle"
    BY <2>1, IdleOpen DEF NoneOpen
  <2>2. CASE phase[r] = "issue"
    <3>1. GetCounted(r) /\ PhaseAt(r) /\ In(r, {"get"})
      BY <1>1, <2>2 DEF CallInv, Counted, In
    <3> QED BY <1>1, <2>2, <3>1 DEF GetCounted, PhaseAt
  <2> QED BY <2>1, <2>2 DEF GetRemote, NextBlock, Calls
<1>4. /\ QueuesSame /\ AloneWaiting(r) /\ todo' = todo
      /\ gets'[r] = gets[r] + 1
  BY CallVars DEF GetRemote, NextBlock, barriers, locks, QueuesSame, AloneWaiting
<1>10. m \in Message /\ m.op = "OP_GET_REQUEST" /\ m.call = pc[r]
  BY <1>1, CellMessageType DEF CellOp, Msg
<1>11. Push(r, d, m)
  BY DEF GetRemote
<1> HIDE DEF m
<1>5. OpenMore(r, d) /\ ChanMoved(r, d, {m})
  BY <1>1, <1>4, <1>10, <1>11, RequestSent, PushShift DEF RequestOp
<1>12. \A n \in {m} : Proper(r, d, n)
  <2>1. m.op \notin ResponseOp /\ Caller(m.op) = {"get"}
    BY <1>10 DEF ResponseOp, Caller, RmwRequest, RmwResponse
  <2>2. PresentNext(r, m.call, {"get"})
    BY <1>1, <1>2, <1>10 DEF PresentNext, Cur
  <2> QED BY <2>1, <2>2 DEF Proper
<1>6. Others(r)
  BY <1>1, <1>2, <1>4, <1>5, OthersAlone DEF OpenAlone
<1>7. PhaseAt(r)'
  BY <1>1, <1>2, <1>3, <1>4 DEF PhaseAt, In, BarrierPhase, BarrierOp
<1>8. Counted(r)'
  <2>1. NobodyAsked(r)' /\ NotifyCounted(r)' /\ FenceCounted(r)' /\ MasksCounted(r)'
    BY <1>1, <1>2 DEF In, NobodyAsked, NotifyCounted, FenceCounted, MasksCounted,
       AskingOp, RmwOp, BarrierOp
  <2>3. \A p \in Rank : Open(r, p)' = IF p = d THEN gets'[r] ELSE 0
    <3> TAKE p \in Rank
    <3>1. Open(r, p)' = Open(r, p) + Unit(r = r /\ p = d)
      BY <1>1, <1>5 DEF OpenMore
    <3>2. gets[r] \in Int
      BY CallVars
    <3> QED BY <1>3, <1>4, <3>1, <3>2 DEF Unit
  <2>2. GetCounted(r)'
    BY <1>1, <1>2, <2>3 DEF GetCounted, In
  <2> QED BY <2>1, <2>2 DEF Counted
<1>9. QueuesMoved /\ QueuedOnce'
  BY <1>4, SameQueues DEF QueuesSame, CallInv, QueuedOnce
<1> QED BY <1>1, <1>2, <1>5, <1>12, <1>6, <1>7, <1>8, <1>9, CallFrame

\* A call that asks nobody starts, and waits in the progress loop.
LEMMA WaitStartCall ==
    ASSUME TypeInv, CallInv, NEW r \in Rank, WaitStart(r)
    PROVE  CallInv'
<1>1. Cur(r).op = "wait" /\ phase[r] = "idle"
  BY CallsType DEF WaitStart
<1>2. /\ Alone(r) /\ Steady(r)
      /\ phase'[r] = "wait" /\ pc'[r] = pc[r] /\ prog' = prog
      /\ Cur(r)' = Cur(r) /\ busy'[r]
  BY MovedOn, Entered1 DEF WaitStart, Phase
<1>3. NoneOpen(r) /\ gets[r] = 0 /\ todo[r] = {}
  BY <1>1, IdleOpen
<1>4. QueuesSame /\ AloneWaiting(r) /\ gets' = gets /\ todo' = todo /\ chan' = chan
  BY DEF WaitStart, waiting, issuing, barriers, locks, QueuesSame, AloneWaiting
<1>5. OpenSame /\ ChanMoved(r, r, {})
  BY <1>4, NothingMoved, SameShift
<1>6. Others(r)
  BY <1>2, <1>4, <1>5, OthersAlone DEF OpenAlone
<1>7. PhaseAt(r)'
  BY <1>1, <1>2, <1>3, <1>4 DEF PhaseAt, In, BarrierPhase, BarrierOp
<1>8. Counted(r)'
  <2>1. ~In(r, AskingOp)'
    BY <1>1, <1>2 DEF In, AskingOp, RmwOp, BarrierOp
  <2> QED BY <1>3, <1>4, <1>5, <2>1, PlainCounted DEF NoneOpen, OpenSame
<1>9. QueuesMoved /\ QueuedOnce'
  BY <1>4, SameQueues DEF QueuesSame, CallInv, QueuedOnce
<1> QED BY <1>2, <1>5, <1>6, <1>7, <1>8, <1>9, CallFrame

\* A lock or rmw sends its one request.
LEMMA AskCall ==
    ASSUME TypeInv, CallInv, NEW r \in Rank, phase[r] = "idle",
           Cur(r).op \in {"lock"} \cup RmwOp, NEW d \in Rank, d = Cur(r).to,
           NEW m \in Message, m.op \in RequestOp, Caller(m.op) = {"lock"} \/ Caller(m.op) = RmwOp,
           Cur(r).op \in Caller(m.op), m.call = pc[r], Push(r, d, m),
           notify' = [notify EXCEPT ![r] = 1], Progress(r, "wait"),
           UNCHANGED <<gets, todo, resps, bq, kept, lq>>
    PROVE  CallInv'
<1>2. /\ Alone(r) /\ Steady(r)
      /\ phase'[r] = "wait" /\ pc'[r] = pc[r] /\ prog' = prog
      /\ Cur(r)' = Cur(r) /\ busy'[r]
  BY MovedOn, Entered1 DEF Phase
<1>3. NoneOpen(r) /\ gets[r] = 0 /\ todo[r] = {}
  BY IdleOpen
<1>4. /\ QueuesSame /\ AloneWaiting(r) /\ gets' = gets /\ todo' = todo
      /\ notify'[r] = 1
  BY CallVars DEF QueuesSame, AloneWaiting
<1>5. OpenMore(r, d) /\ ChanMoved(r, d, {m})
  BY <1>4, RequestSent, PushShift
<1>12. \A n \in {m} : Proper(r, d, n)
  <2>1. m.op \notin ResponseOp
    BY OpDisjoint
  <2>2. PresentNext(r, m.call, Caller(m.op))
    BY <1>2 DEF PresentNext, Cur
  <2> QED BY <2>1, <2>2 DEF Proper
<1>6. Others(r)
  BY <1>2, <1>4, <1>5, OthersAlone DEF OpenAlone
<1>7. PhaseAt(r)'
  BY <1>2, <1>3, <1>4 DEF PhaseAt, In, BarrierPhase, BarrierOp, RmwOp
<1>8. Counted(r)'
  <2>1. NobodyAsked(r)' /\ FenceCounted(r)' /\ MasksCounted(r)' /\ ~In(r, {"get"})'
    BY <1>2 DEF In, NobodyAsked, FenceCounted, MasksCounted,
       AskingOp, RmwOp, BarrierOp
  <2>3. \A p \in Rank : Open(r, p)' = IF p = d THEN 1 ELSE 0
    <3> TAKE p \in Rank
    <3>1. Open(r, p)' = Open(r, p) + Unit(r = r /\ p = d)
      BY <1>5 DEF OpenMore
    <3> QED BY <1>3, <3>1 DEF Unit, NoneOpen
  <2>2. NotifyCounted(r)' /\ GetCounted(r)'
    BY <1>2, <1>3, <1>4, <2>1, <2>3 DEF NotifyCounted, GetCounted
  <2> QED BY <2>1, <2>2 DEF Counted
<1>9. QueuesMoved /\ QueuedOnce'
  BY <1>4, SameQueues DEF QueuesSame, CallInv, QueuedOnce
<1> QED BY <1>2, <1>5, <1>12, <1>6, <1>7, <1>8, <1>9, CallFrame

LEMMA RmwStartCall ==
    ASSUME TypeInv, CallInv, NEW r \in Rank, RmwStart(r)
    PROVE  CallInv'
<1> DEFINE op == IF Cur(r).op = "fadd" THEN "OP_FETCH_AND_ADD_REQUEST"
                                       ELSE "OP_SWAP_REQUEST"
           m == Msg(op, Cur(r).loc, Cur(r).val, pc[r])
<1>1. Cur(r) \in Call /\ Cur(r).op \in RmwOp /\ pc[r] \in Nat /\ phase[r] = "idle"
  BY CallsType, ControlVars DEF RmwStart
<1>2. Cur(r).to \in Rank /\ Cur(r).loc \in Cell /\ Cur(r).val \in Int
  BY <1>1 DEF Call
<1>3. /\ m \in Message /\ m.call = pc[r]
      /\ m.op \in {"OP_FETCH_AND_ADD_REQUEST", "OP_SWAP_REQUEST"}
  BY <1>1, <1>2, CellMessageType DEF CellOp, Msg
<1>4. Push(r, Cur(r).to, m)
  BY DEF RmwStart
<1> HIDE DEF m
<1>5. m.op \in RequestOp /\ Caller(m.op) = RmwOp
  BY <1>3 DEF RequestOp, Caller, RmwRequest
<1> QED BY <1>1, <1>2, <1>3, <1>4, <1>5, AskCall DEF RmwStart, issuing, barriers, locks

LEMMA LockCall ==
    ASSUME TypeInv, CallInv, NEW r \in Rank, Lock(r)
    PROVE  CallInv'
<1> DEFINE m == Msg("OP_LOCK_REQUEST", Cur(r).loc, 0, pc[r])
<1>1. Cur(r) \in Call /\ Cur(r).op = "lock" /\ pc[r] \in Nat /\ phase[r] = "idle"
  BY CallsType, ControlVars DEF Lock
<1>2. Cur(r).to \in Rank /\ Cur(r).loc \in Nat
  BY <1>1 DEF Call
<1>3. /\ m \in Message /\ m.call = pc[r] /\ m.op = "OP_LOCK_REQUEST"
  BY <1>1, <1>2, MessageType DEF CellOp, Msg, OpCode
<1>4. Push(r, Cur(r).to, m)
  BY DEF Lock
<1> HIDE DEF m
<1>5. m.op \in RequestOp /\ Caller(m.op) = {"lock"}
  BY <1>3 DEF RequestOp, Caller, RmwRequest, RmwResponse
<1> QED BY <1>1, <1>2, <1>3, <1>4, <1>5, AskCall DEF Lock, issuing, barriers, locks

\* A fence asks p, one of the ranks ps it has still to ask.
LEMMA SendFenceCall ==
    ASSUME TypeInv, CallInv, NEW r \in Rank, NEW ps \in SUBSET Rank, NEW p \in ps,
           SendFence(r, p, ps), Cur(r).op = "fence", gets[r] = 0,
           \A q \in Rank : Open(r, q) + Unit(q \in ps) <= 1,
           notify'[r] = Cardinality({q \in Rank : q \in ps \/ Open(r, q) # 0}),
           \A q \in Rank \ {r} : notify'[q] = notify[q],
           UNCHANGED <<gets, resps, bq, kept, lq>>
    PROVE  CallInv'
<1> DEFINE m == Msg("OP_FENCE_REQUEST", 0, 0, pc[r])
<1>1. m \in Message /\ m.op = "OP_FENCE_REQUEST" /\ m.call = pc[r] /\ p \in Rank
  BY MessageType, ControlVars DEF CellOp, Msg, OpCode
<1>2. PICK ph \in {"wait", "fence"} :
         /\ Progress(r, ph) \/ Proceed(r, ph) \/ Pushed(r, ph)
         /\ ph = "wait" => Progress(r, ph) /\ ps = {p}
  BY DEF SendFence
<1>3. /\ Alone(r) /\ Steady(r)
      /\ phase'[r] = ph /\ pc'[r] = pc[r] /\ prog' = prog
      /\ Cur(r)' = Cur(r) /\ (ph = "wait" => busy'[r])
  BY <1>2, MovedOn, Entered1 DEF Phase
<1>4. /\ QueuesSame /\ AloneWaiting(r) /\ gets' = gets
      /\ todo'[r] = ps \ {p}
  BY CallVars DEF SendFence, QueuesSame, AloneWaiting
<1>5. Push(r, p, m)
  BY DEF SendFence
<1> HIDE DEF m
<1>6. OpenMore(r, p) /\ ChanMoved(r, p, {m})
  BY <1>1, <1>4, <1>5, RequestSent, PushShift DEF RequestOp
<1>7. \A n \in {m} : Proper(r, p, n)
  <2>1. m.op \notin ResponseOp /\ Caller(m.op) = {"fence"}
    BY <1>1 DEF ResponseOp, Caller, RmwRequest, RmwResponse
  <2>2. PresentNext(r, m.call, {"fence"})
    BY <1>1, <1>3 DEF PresentNext, Cur
  <2> QED BY <2>1, <2>2 DEF Proper
<1>8. Others(r)
  BY <1>1, <1>3, <1>4, <1>6, OthersAlone DEF OpenAlone
<1>9. PhaseAt(r)'
  BY <1>2, <1>3, <1>4 DEF PhaseAt, In, BarrierPhase, BarrierOp
<1>10. \A q \in Rank : Open(r, q)' = IF q = p THEN 1 ELSE Open(r, q)
  <2> TAKE q \in Rank
  <2>1. Open(r, q)' = Open(r, q) + Unit(r = r /\ q = p)
    BY <1>1, <1>6 DEF OpenMore
  <2>2. Open(r, q) \in Nat /\ Open(r, q) + Unit(q \in ps) <= 1
    BY OpenType
  <2> HIDE DEF Open
  <2> QED BY <2>1, <2>2 DEF Unit
<1>11. FenceCounted(r)'
  <2>1. \A q \in Rank : Open(r, q)' + Unit(q \in todo[r])' <= 1
    <3> TAKE q \in Rank
    <3>1. Open(r, q) \in Nat /\ Open(r, q) + Unit(q \in ps) <= 1
      BY OpenType
    <3> HIDE DEF Open
    <3> QED BY <1>4, <1>10, <3>1 DEF Unit
  <2>2. Awaited(r)' = {q \in Rank : q \in ps \/ Open(r, q) # 0}
    <3>1. ASSUME NEW q \in Rank
          PROVE  q \in todo'[r] \/ Open(r, q)' # 0 <=> q \in ps \/ Open(r, q) # 0
      BY <1>4, <1>10
    <3> HIDE DEF Open
    <3> QED BY <3>1 DEF Awaited
  <2> QED BY <2>1, <2>2 DEF FenceCounted
<1>12. Counted(r)'
  <2>1. NobodyAsked(r)' /\ NotifyCounted(r)' /\ MasksCounted(r)' /\ ~In(r, {"get"})'
    BY <1>3 DEF In, NobodyAsked, NotifyCounted, MasksCounted,
       AskingOp, RmwOp, BarrierOp
  <2>2. GetCounted(r)'
    BY <1>4, <2>1 DEF GetCounted
  <2> QED BY <1>11, <2>1, <2>2 DEF Counted
<1>13. QueuesMoved /\ QueuedOnce'
  BY <1>4, SameQueues DEF QueuesSame, CallInv, QueuedOnce
<1> QED BY <1>1, <1>3, <1>6, <1>7, <1>8, <1>9, <1>12, <1>13, CallFrame

LEMMA FenceStartCall ==
    ASSUME TypeInv, CallInv, NEW r \in Rank, FenceStart(r)
    PROVE  CallInv'
<1> DEFINE ps == FenceTargets(r)
<1>1. Cur(r).op = "fence" /\ phase[r] = "idle" /\ ps \in SUBSET Rank
  BY CallsType DEF FenceStart, FenceTargets, Call
<1>2. NoneOpen(r) /\ gets[r] = 0
  BY <1>1, IdleOpen
<1>3. \A q \in Rank : Open(r, q) + Unit(q \in ps) <= 1
  BY <1>2 DEF NoneOpen, Unit
<1>4. {q \in Rank : q \in ps \/ Open(r, q) # 0} = ps
  BY <1>1, <1>2 DEF NoneOpen
<1>5. /\ notify'[r] = Cardinality(ps)
      /\ \A q \in Rank \ {r} : notify'[q] = notify[q]
  BY CallVars DEF FenceStart
<1>6. PICK p \in ps : SendFence(r, p, ps)
  BY DEF FenceStart
<1> HIDE DEF ps
<1> QED BY <1>1, <1>2, <1>3, <1>4, <1>5, <1>6, SendFenceCall DEF FenceStart, barriers, locks

LEMMA FenceNextCall ==
    ASSUME TypeInv, CallInv, NEW r \in Rank, FenceNext(r)
    PROVE  CallInv'
<1>1. Cur(r).op = "fence" /\ phase[r] = "fence" /\ todo[r] \in SUBSET Rank
  BY ControlVars, CallVars DEF FenceNext, ControlOK
<1>2. Counted(r) /\ In(r, {"fence"}) /\ ~In(r, {"get"})
  BY <1>1 DEF CallInv, In
<1>3. /\ gets[r] = 0
      /\ \A q \in Rank : Open(r, q) + Unit(q \in todo[r]) <= 1
      /\ notify[r] = Cardinality({q \in Rank : q \in todo[r] \/ Open(r, q) # 0})
  BY <1>2 DEF Counted, GetCounted, FenceCounted, Awaited
<1>4. PICK p \in todo[r] : SendFence(r, p, todo[r])
  BY DEF FenceNext
<1>5. notify' = notify
  BY DEF FenceNext, waiting
<1> QED BY <1>1, <1>3, <1>4, <1>5, SendFenceCall DEF FenceNext, waiting, barriers, locks

-----------------------------------------------------------------------------
(* A call returns *)

\* A rank that nobody owes an answer may return.
LEMMA ReturnCall ==
    ASSUME TypeInv, CallInv, NEW r \in Rank, Return(r),
           NoneOpen(r), gets[r] = 0, todo[r] = {},
           UNCHANGED <<chan, gets, notify, todo, resps, bq, kept, lq>>
    PROVE  CallInv'
<1>1. Alone(r) /\ phase'[r] = "idle"
  BY MovedBack
<1>2. QueuesSame /\ AloneWaiting(r)
  BY DEF QueuesSame, AloneWaiting
<1>3. OpenSame /\ ChanMoved(r, r, {})
  BY <1>2, NothingMoved, SameShift
<1>4. Others(r)
  BY <1>1, <1>2, <1>3, OthersAlone DEF OpenAlone
<1>5. PhaseAt(r)'
  BY <1>1 DEF PhaseAt, In, BarrierPhase
<1>6. Counted(r)'
  <2>1. ~In(r, AskingOp)'
    BY <1>1 DEF In
  <2> QED BY <1>3, <2>1, PlainCounted DEF NoneOpen, OpenSame
<1>7. QueuesMoved /\ QueuedOnce'
  BY <1>2, SameQueues DEF QueuesSame, CallInv, QueuedOnce
<1> QED BY <1>3, <1>4, <1>5, <1>6, <1>7, CallFrame

LEMMA FenceNothingCall ==
    ASSUME TypeInv, CallInv, NEW r \in Rank, FenceNothing(r)
    PROVE  CallInv'
<1>1. phase[r] = "idle"
  BY CallsType DEF FenceNothing
<1> QED BY <1>1, IdleOpen, ReturnCall DEF FenceNothing, waiting, issuing, barriers, locks

LEMMA LocalSegmentCall ==
    ASSUME TypeInv, CallInv, NEW r \in Rank, LocalSegment(r)
    PROVE  CallInv'
<1>1. phase[r] = "idle"
  BY CallsType DEF LocalSegment
<1> QED BY <1>1, IdleOpen, ReturnCall DEF LocalSegment, waiting, issuing, barriers, locks

\* A fence has been answered by all when *notify is at zero.
LEMMA FenceReturnCall ==
    ASSUME TypeInv, CallInv, NEW r \in Rank, FenceReturn(r)
    PROVE  CallInv'
<1>1. Cur(r).op = "fence" /\ phase[r] = "wait" /\ notify[r] = 0
  BY DEF FenceReturn
<1>2. Counted(r) /\ PhaseAt(r) /\ In(r, {"fence"}) /\ ~In(r, {"get"})
  BY <1>1 DEF CallInv, In
<1>3. gets[r] = 0 /\ todo[r] = {} /\ Cardinality(Awaited(r)) = 0
  BY <1>1, <1>2 DEF Counted, GetCounted, FenceCounted, PhaseAt
<1>4. Awaited(r) = {}
  <2>1. IsFiniteSet(Awaited(r))
    BY RankAssumption, FS_Subset DEF Awaited
  <2> QED BY <1>3, <2>1, FS_EmptySet
<1>5. NoneOpen(r)
  BY <1>4 DEF Awaited, NoneOpen
<1> QED BY <1>3, <1>5, ReturnCall DEF FenceReturn, waiting, issuing, barriers, locks

\* A get waits in the progress loop until gq is empty, a rmw until it is told.
LEMMA CallReturnCall ==
    ASSUME TypeInv, CallInv, NEW r \in Rank, CallReturn(r)
    PROVE  CallInv'
<1>1. Cur(r).op \notin {"fence", "lock"} /\ phase[r] = "wait" /\ notify[r] = 0 /\ Returned(r)
  BY DEF CallReturn
<1>2. Counted(r) /\ PhaseAt(r)
  BY DEF CallInv
<1>3. todo[r] = {} /\ Cur(r).op \notin BarrierOp
  BY <1>1, <1>2 DEF PhaseAt, In, BarrierPhase
<1>4. NoneOpen(r) /\ gets[r] = 0
  <2>1. CASE Cur(r).op = "get"
    <3>1. In(r, {"get"}) /\ busy[r]
      BY <1>1, <1>2, <2>1 DEF In, PhaseAt
    <3>2. gets[r] = 0
      BY <1>1, <3>1 DEF Returned
    <3> QED BY <1>2, <3>1, <3>2 DEF Counted, GetCounted, NoneOpen
  <2>2. CASE Cur(r).op \in RmwOp
    <3>1. In(r, {"lock"} \cup RmwOp) /\ ~In(r, {"get"})
      BY <1>1, <2>2 DEF In, RmwOp
    <3> QED BY <1>1, <1>2, <3>1 DEF Counted, GetCounted, NotifyCounted, NoneOpen
  <2>3. CASE Cur(r).op \notin {"get"} \cup RmwOp
    BY <1>1, <1>3, <2>3, PlainOpen DEF AskingOp
  <2> QED BY <2>1, <2>2, <2>3
<1> QED BY <1>3, <1>4, ReturnCall DEF CallReturn, waiting, issuing, barriers, locks

\* A lock call is told once.
LEMMA LockReturnCall ==
    ASSUME TypeInv, CallInv, NEW r \in Rank, LockReturn(r)
    PROVE  CallInv'
<1>1. Cur(r).op = "lock" /\ phase[r] = "wait" /\ notify[r] = 0
  BY DEF LockReturn
<1>2. Counted(r) /\ PhaseAt(r) /\ In(r, {"lock"} \cup RmwOp) /\ ~In(r, {"get"})
  BY <1>1 DEF CallInv, In
<1>3. NoneOpen(r) /\ gets[r] = 0 /\ todo[r] = {}
  BY <1>1, <1>2 DEF Counted, GetCounted, NotifyCounted, NoneOpen, PhaseAt
<1> QED BY <1>3, ReturnCall DEF LockReturn, waiting, issuing, barriers, locks

\* When a barrier is over every member has answered.
LEMMA BarrierOver ==
    ASSUME TypeInv, CallInv, NEW r \in Rank, phase[r] = "bwait", Answered(r)
    PROVE  NoneOpen(r) /\ gets[r] = 0 /\ todo[r] = {}
<1>1. Counted(r) /\ PhaseAt(r)
  BY DEF CallInv
<1>2. In(r, BarrierOp) /\ ~In(r, {"get"})
  BY <1>1 DEF PhaseAt, BarrierPhase, In, BarrierOp
<1>3. gets[r] = 0 /\ todo[r] = {}
  BY <1>1, <1>2 DEF Counted, GetCounted, PhaseAt
<1>4. ASSUME NEW p \in Rank PROVE Open(r, p) = 0
  <2>1. Open(r, p) \in Nat
    BY OpenType
  <2>2. IF p \in Cur(r).grp \ {r}
        THEN Open(r, p) + Unit(p \in todo[r]) + resps[r][p] = 1
        ELSE Open(r, p) = 0
    BY <1>1, <1>2 DEF Counted, MasksCounted
  <2>3. p \in Cur(r).grp => resps[r][p] = 1
    BY DEF Answered
  <2> HIDE DEF Open
  <2> QED BY <2>1, <2>2, <2>3 DEF Unit
<1> QED BY <1>3, <1>4 DEF NoneOpen

LEMMA BarrierReturnCall ==
    ASSUME TypeInv, CallInv, NEW r \in Rank, BarrierReturn(r)
    PROVE  CallInv'
  BY BarrierOver, ReturnCall DEF BarrierReturn, waiting, issuing, barriers, locks

LEMMA DestroyReturnCall ==
    ASSUME TypeInv, CallInv, NEW r \in Rank, DestroyReturn(r)
    PROVE  CallInv'
  BY BarrierOver, ReturnCall DEF DestroyReturn, waiting, issuing, barriers

LEMMA GatherReturnCall ==
    ASSUME TypeInv, CallInv, NEW r \in Rank, GatherReturn(r)
    PROVE  CallInv'
<1>1. phase[r] = "gather" /\ PhaseAt(r)
  BY DEF GatherReturn, CallInv
<1>2. Cur(r).op \notin AskingOp /\ todo[r] = {}
  BY <1>1 DEF PhaseAt, AskingOp, RmwOp, BarrierOp
<1> QED BY <1>2, PlainOpen, ReturnCall DEF GatherReturn, waiting, issuing, barriers, locks

\* A step that leaves all of this alone
LEMMA SameCall ==
    ASSUME TypeInv, CallInv, NEW r \in Rank, QueuesSame,
           UNCHANGED <<control, chan, gets, notify, todo, resps>>
    PROVE  CallInv'
<1>1. prog' = prog /\ \A q : Steady(q)
  BY MovedNot
<1>2. OpenSame /\ ChanMoved(r, r, {})
  BY NothingMoved, SameShift
<1>3. \A q \in Rank : Unmoved(q)
  BY <1>2 DEF Unmoved, OpenSame, control
<1>4. PhaseAt(r)' /\ Counted(r)'
  BY <1>1, <1>3, UnmovedPhase, UnmovedCounted DEF CallInv
<1>5. QueuesMoved /\ QueuedOnce'
  BY SameQueues DEF QueuesSame, CallInv, QueuedOnce
<1> QED BY <1>1, <1>2, <1>3, <1>4, <1>5, CallFrame DEF Others

LEMMA AbortCall ==
    ASSUME TypeInv, CallInv, NEW r \in Rank, Abort
    PROVE  CallInv'
  BY SameCall DEF Abort, waiting, issuing, barriers, locks, QueuesSame

LEMMA CreateMutexesCall ==
    ASSUME TypeInv, CallInv, NEW r \in Rank, CreateMutexes(r)
    PROVE  CallInv'
<1>1. phase[r] = "idle"
  BY CallsType DEF CreateMutexes
<1>2. CASE Abort
  BY <1>2, AbortCall
<1>3. CASE ~Abort
  <2>1. Return(r) /\ UNCHANGED <<chan, waiting, fence, issuing, barriers, lq, held, memory, aborted>>
    BY <1>3 DEF CreateMutexes
  <2> QED BY <1>1, <2>1, IdleOpen, ReturnCall DEF waiting, issuing, barriers
<1> QED BY <1>2, <1>3

LEMMA GatherStartCall ==
    ASSUME TypeInv, CallInv, NEW r \in Rank, GatherStart(r)
    PROVE  CallInv'
<1>1. Cur(r).op = "gather" /\ phase[r] = "idle"
  BY CallsType DEF GatherStart
<1>2. /\ Alone(r) /\ Steady(r)
      /\ phase'[r] = "gather" /\ pc'[r] = pc[r] /\ prog' = prog
      /\ Cur(r)' = Cur(r)
  BY MovedOn DEF GatherStart, Phase
<1>3. NoneOpen(r) /\ gets[r] = 0 /\ todo[r] = {}
  BY <1>1, IdleOpen
<1>4. QueuesSame /\ AloneWaiting(r) /\ gets' = gets /\ todo' = todo /\ chan' = chan
  BY DEF GatherStart, waiting, issuing, barriers, locks, QueuesSame, AloneWaiting
<1>5. OpenSame /\ ChanMoved(r, r, {})
  BY <1>4, NothingMoved, SameShift
<1>6. Others(r)
  BY <1>2, <1>4, <1>5, OthersAlone DEF OpenAlone
<1>7. PhaseAt(r)'
  BY <1>1, <1>2, <1>3, <1>4 DEF PhaseAt, In, BarrierPhase, BarrierOp
<1>8. Counted(r)'
  <2>1. ~In(r, AskingOp)'
    BY <1>1, <1>2 DEF In, AskingOp, RmwOp, BarrierOp
  <2> QED BY <1>3, <1>4, <1>5, <2>1, PlainCounted DEF NoneOpen, OpenSame
<1>9. QueuesMoved /\ QueuedOnce'
  BY <1>4, SameQueues DEF QueuesSame, CallInv, QueuedOnce
<1> QED BY <1>2, <1>5, <1>6, <1>7, <1>8, <1>9, CallFrame

\* comex_unlock asks for no answer.
LEMMA UnlockCall ==
    ASSUME TypeInv, CallInv, NEW r \in Rank, Unlock(r)
    PROVE  CallInv'
<1> DEFINE m == Msg("OP_UNLOCK", Cur(r).loc, 0, pc[r])
<1>1. /\ Cur(r).op = "unlock" /\ phase[r] = "idle" /\ Cur(r).to \in Rank
      /\ m \in Message /\ m.op = "OP_UNLOCK"
  <2>1. Cur(r) \in Call /\ Cur(r).op = "unlock" /\ phase[r] = "idle" /\ pc[r] \in Nat
    BY CallsType, ControlVars DEF Unlock
  <2>2. Cur(r).to \in Rank /\ Cur(r).loc \in Nat
    BY <2>1 DEF Call
  <2> QED BY <2>1, <2>2, MessageType DEF CellOp, Msg, OpCode
<1>10. Push(r, Cur(r).to, m)
  BY DEF Unlock
<1> HIDE DEF m
<1>2. /\ Alone(r) /\ Steady(r)
      /\ phase'[r] = "wait" /\ pc'[r] = pc[r] /\ prog' = prog
      /\ Cur(r)' = Cur(r)
  BY MovedOn DEF Unlock, Phase
<1>3. NoneOpen(r) /\ gets[r] = 0 /\ todo[r] = {}
  BY <1>1, IdleOpen
<1>4. QueuesSame /\ AloneWaiting(r) /\ gets' = gets /\ todo' = todo
  BY DEF Unlock, waiting, issuing, barriers, QueuesSame, AloneWaiting
<1>5. OpenSame /\ ChanMoved(r, Cur(r).to, {m})
  BY <1>1, <1>4, <1>10, OtherSent, PushShift, OpDisjoint
<1>11. \A n \in {m} : Proper(r, Cur(r).to, n)
  BY <1>1, OpDisjoint DEF Proper
<1>6. Others(r)
  BY <1>2, <1>4, <1>5, OthersAlone DEF OpenAlone
<1>7. PhaseAt(r)'
  BY <1>1, <1>2, <1>3, <1>4 DEF PhaseAt, In, BarrierPhase, BarrierOp
<1>8. Counted(r)'
  <2>1. ~In(r, AskingOp)'
    BY <1>1, <1>2 DEF In, AskingOp, RmwOp, BarrierOp
  <2> QED BY <1>3, <1>4, <1>5, <2>1, PlainCounted DEF NoneOpen, OpenSame
<1>9. QueuesMoved /\ QueuedOnce'
  BY <1>4, SameQueues DEF QueuesSame, CallInv, QueuedOnce
<1> QED BY <1>1, <1>2, <1>5, <1>11, <1>6, <1>7, <1>8, <1>9, CallFrame

-----------------------------------------------------------------------------
(* comex_barrier *)

\* A barrier asks p, one of the members ps it has still to ask.
LEMMA SendRequestCall ==
    ASSUME TypeInv, CallInv, NEW r \in Rank, NEW ps \in SUBSET Rank, NEW p \in ps,
           SendRequest(r, p, ps), Cur(r).op \in BarrierOp, gets[r] = 0,
           resps' \in [Rank -> [Rank -> Nat]],
           \A q \in Rank :
              IF q \in Cur(r).grp \ {r}
              THEN Open(r, q) + Unit(q \in ps) + resps'[r][q] = 1
              ELSE Open(r, q) = 0 /\ q \notin ps,
           \A q \in Rank \ {r} : resps'[q] = resps[q],
           UNCHANGED <<gets, notify, bq, kept, lq>>
    PROVE  CallInv'
<1> DEFINE m == Msg("OP_BARRIER_REQUEST", 0, 0, pc[r])
<1>1. m \in Message /\ m.op = "OP_BARRIER_REQUEST" /\ m.call = pc[r] /\ p \in Rank
  BY MessageType, ControlVars DEF CellOp, Msg, OpCode
<1>2. PICK ph \in {"breq", "bsend"} :
         /\ Progress(r, ph) \/ Proceed(r, ph) \/ Pushed(r, ph)
         /\ ph = "breq" => ps = {p}
  BY DEF SendRequest
<1>3. /\ Alone(r) /\ Steady(r)
      /\ phase'[r] = ph /\ pc'[r] = pc[r] /\ prog' = prog
      /\ Cur(r)' = Cur(r)
  BY <1>2, MovedOn DEF Phase
<1>4. /\ QueuesSame /\ AloneWaiting(r) /\ gets' = gets
      /\ todo'[r] = ps \ {p}
  BY CallVars DEF SendRequest, QueuesSame, AloneWaiting
<1>5. Push(r, p, m)
  BY DEF SendRequest
<1> HIDE DEF m
<1>6. OpenMore(r, p) /\ ChanMoved(r, p, {m})
  BY <1>1, <1>4, <1>5, RequestSent, PushShift DEF RequestOp
<1>7. \A n \in {m} : Proper(r, p, n)
  <2>1. m.op \notin ResponseOp /\ Caller(m.op) = BarrierOp
    BY <1>1 DEF ResponseOp, Caller, RmwRequest, RmwResponse
  <2>2. PresentNext(r, m.call, BarrierOp)
    BY <1>1, <1>3 DEF PresentNext, Cur
  <2> QED BY <2>1, <2>2 DEF Proper
<1>8. Others(r)
  BY <1>1, <1>3, <1>4, <1>6, OthersAlone DEF OpenAlone
<1>9. PhaseAt(r)'
  BY <1>2, <1>3, <1>4 DEF PhaseAt, In, BarrierPhase
<1>10. \A q \in Rank : Open(r, q)' = IF q = p THEN Open(r, q) + 1 ELSE Open(r, q)
  <2> TAKE q \in Rank
  <2>1. Open(r, q)' = Open(r, q) + Unit(r = r /\ q = p)
    BY <1>1, <1>6 DEF OpenMore
  <2>2. Open(r, q) \in Nat
    BY OpenType
  <2> HIDE DEF Open
  <2> QED BY <2>1, <2>2 DEF Unit
<1>11. ASSUME NEW q \in Rank
       PROVE  IF q \in Cur(r).grp \ {r}
              THEN Open(r, q)' + Unit(q \in todo'[r]) + resps'[r][q] = 1
              ELSE Open(r, q)' = 0 /\ q \notin todo'[r]
  <2>1. Open(r, q) \in Nat /\ resps'[r][q] \in Nat
    BY OpenType
  <2>2. Unit(q \in todo'[r]) = IF q = p THEN 0 ELSE Unit(q \in ps)
    BY <1>4 DEF Unit
  <2>3. q = p => Unit(q \in ps) = 1
    BY DEF Unit
  <2>4. Unit(q \in ps) \in Nat /\ Unit(q \in todo'[r]) \in Nat
    BY DEF Unit
  <2>5. CASE q \in Cur(r).grp \ {r}
    <3> HIDE DEF Open
    <3> QED BY <1>10, <2>1, <2>2, <2>3, <2>4, <2>5
  <2>6. CASE q \notin Cur(r).grp \ {r}
    BY <1>4, <1>10, <2>6
  <2> QED BY <2>5, <2>6
<1>12. Counted(r)'
  <2>1. NobodyAsked(r)' /\ NotifyCounted(r)' /\ FenceCounted(r)' /\ ~In(r, {"get"})'
    BY <1>3 DEF In, NobodyAsked, NotifyCounted, FenceCounted,
       AskingOp, RmwOp, BarrierOp
  <2>2. GetCounted(r)'
    BY <1>4, <2>1 DEF GetCounted
  <2>3. MasksCounted(r)'
    BY <1>3, <1>11 DEF MasksCounted
  <2> QED BY <2>1, <2>2, <2>3 DEF Counted
<1>13. QueuesMoved /\ QueuedOnce'
  BY <1>4, SameQueues DEF QueuesSame, CallInv, QueuedOnce
<1> QED BY <1>1, <1>3, <1>6, <1>7, <1>8, <1>9, <1>12, <1>13, CallFrame

LEMMA BarrierCounted ==
    ASSUME NEW r \in Rank, Cur(r)' = Cur(r), Cur(r).op \in BarrierOp, gets'[r] = 0,
           \A q \in Rank :
              IF q \in Cur(r).grp \ {r}
              THEN Open(r, q)' + Unit(q \in todo'[r]) + resps'[r][q] = 1
              ELSE Open(r, q)' = 0 /\ q \notin todo'[r],
           phase'[r] # "idle"
    PROVE  Counted(r)'
<1>1. NobodyAsked(r)' /\ NotifyCounted(r)' /\ FenceCounted(r)' /\ ~In(r, {"get"})'
  BY DEF In, NobodyAsked, NotifyCounted, FenceCounted, AskingOp, RmwOp, BarrierOp
<1>2. GetCounted(r)'
  BY <1>1 DEF GetCounted
<1>3. MasksCounted(r)'
  BY DEF MasksCounted
<1> QED BY <1>1, <1>2, <1>3 DEF Counted

LEMMA BarrierStartCall ==
    ASSUME TypeInv, CallInv, NEW r \in Rank, BarrierStart(r)
    PROVE  CallInv'
<1> DEFINE others == Cur(r).grp \ {r}
<1>1. Cur(r).op \in BarrierOp /\ phase[r] = "idle" /\ Cur(r).grp \in SUBSET Rank
  BY CallsType DEF BarrierStart, Call
<1>2. NoneOpen(r) /\ gets[r] = 0 /\ todo[r] = {}
  BY <1>1, IdleOpen
<1>3. /\ resps' \in [Rank -> [Rank -> Nat]]
      /\ \A q \in Rank : resps'[r][q] = 0
      /\ \A q \in Rank \ {r} : resps'[q] = resps[q]
  BY CallVars DEF BarrierStart
<1>4. UNCHANGED <<gets, notify, bq, kept, lq>>
  BY DEF BarrierStart, waiting, locks
<1>5. CASE others = {}
  <2>1. Progress(r, "breq") /\ UNCHANGED <<chan, todo>>
    BY <1>5 DEF BarrierStart
  <2>2. /\ Alone(r) /\ Steady(r)
        /\ phase'[r] = "breq" /\ pc'[r] = pc[r] /\ prog' = prog
        /\ Cur(r)' = Cur(r)
    BY <2>1, MovedOn DEF Phase
  <2>3. QueuesSame /\ AloneWaiting(r)
    BY <1>3, <1>4, <2>1 DEF QueuesSame, AloneWaiting
  <2>4. OpenSame /\ ChanMoved(r, r, {})
    BY <2>1, <2>3, NothingMoved, SameShift
  <2>5. Others(r)
    BY <2>2, <2>3, <2>4, OthersAlone DEF OpenAlone
  <2>6. PhaseAt(r)'
    BY <1>1, <1>2, <2>1, <2>2 DEF PhaseAt, In, BarrierPhase
  <2>7. Counted(r)'
    BY <1>1, <1>2, <1>4, <1>5, <2>1, <2>2, <2>4, BarrierCounted DEF NoneOpen, OpenSame
  <2>8. QueuesMoved /\ QueuedOnce'
    BY <2>3, SameQueues DEF QueuesSame, CallInv, QueuedOnce
  <2> QED BY <2>2, <2>4, <2>5, <2>6, <2>7, <2>8, CallFrame
<1>6. CASE others # {}
  <2>1. PICK p \in others : SendRequest(r, p, others)
    BY <1>6 DEF BarrierStart
  <2>2. \A q \in Rank :
           IF q \in Cur(r).grp \ {r}
           THEN Open(r, q) + Unit(q \in others) + resps'[r][q] = 1
           ELSE Open(r, q) = 0 /\ q \notin others
    BY <1>2, <1>3 DEF NoneOpen, Unit
  <2>3. others \in SUBSET Rank
    BY <1>1
  <2> HIDE DEF others
  <2> QED BY <1>1, <1>2, <1>3, <1>4, <2>1, <2>2, <2>3, SendRequestCall
<1> QED BY <1>5, <1>6

\* What is known inside a barrier
LEMMA InBarrierCall ==
    ASSUME TypeInv, CallInv, NEW r \in Rank, phase[r] \in BarrierPhase
    PROVE  /\ Cur(r).op \in BarrierOp /\ gets[r] = 0
           /\ phase[r] # "bsend" => todo[r] = {}
           /\ \A q \in Rank :
                 IF q \in Cur(r).grp \ {r}
                 THEN Open(r, q) + Unit(q \in todo[r]) + resps[r][q] = 1
                 ELSE Open(r, q) = 0 /\ q \notin todo[r]
<1>1. Counted(r) /\ PhaseAt(r)
  BY DEF CallInv
<1>2. In(r, BarrierOp) /\ ~In(r, {"get"}) /\ Cur(r).op \in BarrierOp
  BY <1>1 DEF PhaseAt, BarrierPhase, In, BarrierOp
<1>3. gets[r] = 0 /\ (phase[r] # "bsend" => todo[r] = {})
  BY <1>1, <1>2 DEF Counted, GetCounted, PhaseAt, BarrierPhase
<1>4. MasksCounted(r)
  BY <1>1 DEF Counted
<1> QED BY <1>2, <1>3, <1>4 DEF MasksCounted

LEMMA BarrierSendCall ==
    ASSUME TypeInv, CallInv, NEW r \in Rank, BarrierSend(r)
    PROVE  CallInv'
<1>1. phase[r] = "bsend" /\ UNCHANGED <<gets, notify, resps, bq, kept, lq>>
  BY DEF BarrierSend, waiting, barriers, locks
<1>2. PICK p \in todo[r] : SendRequest(r, p, todo[r])
  BY DEF BarrierSend
<1>3. /\ Cur(r).op \in BarrierOp /\ gets[r] = 0
      /\ \A q \in Rank :
            IF q \in Cur(r).grp \ {r}
            THEN Open(r, q) + Unit(q \in todo[r]) + resps'[r][q] = 1
            ELSE Open(r, q) = 0 /\ q \notin todo[r]
  BY <1>1, InBarrierCall DEF BarrierPhase
<1>4. resps' \in [Rank -> [Rank -> Nat]] /\ todo[r] \in SUBSET Rank
  BY <1>1, CallVars
<1> QED BY <1>1, <1>2, <1>3, <1>4, SendRequestCall

\* A step inside a barrier that leaves all traces
LEMMA BarrierMoveCall ==
    ASSUME TypeInv, CallInv, NEW r \in Rank,
           phase[r] \in BarrierPhase, phase[r] # "bsend", NEW ph \in BarrierPhase,
           Progress(r, ph) \/ Proceed(r, ph) \/ Pushed(r, ph), OpenSame,
           \A q \in Rank : q # r => resps'[r][q] = resps[r][q],
           \A q \in Rank \ {r} : resps'[q] = resps[q],
           UNCHANGED <<gets, notify, todo, lq>>, QueuesMoved,
           NEW d \in Rank, NEW N, ChanMoved(r, d, N), \A m \in N : Proper(r, d, m)
    PROVE  CallInv'
<1>1. /\ Cur(r).op \in BarrierOp /\ gets[r] = 0 /\ todo[r] = {}
      /\ \A q \in Rank :
            IF q \in Cur(r).grp \ {r}
            THEN Open(r, q) + Unit(q \in todo[r]) + resps[r][q] = 1
            ELSE Open(r, q) = 0 /\ q \notin todo[r]
  BY InBarrierCall
<1>2. /\ Alone(r) /\ Steady(r)
      /\ phase'[r] = ph /\ pc'[r] = pc[r] /\ prog' = prog
      /\ Cur(r)' = Cur(r)
  BY MovedOn DEF Phase, BarrierPhase
<1>3. Others(r)
  BY <1>2, OthersAlone DEF OpenAlone, AloneWaiting
<1>4. PhaseAt(r)'
  BY <1>1, <1>2 DEF PhaseAt, In, BarrierPhase
<1>5. Counted(r)'
  BY <1>1, <1>2, BarrierCounted DEF OpenSame, BarrierPhase
<1>6. QueuedOnce'
  BY DEF CallInv, QueuedOnce
<1> QED BY <1>2, <1>3, <1>4, <1>5, <1>6, CallFrame

LEMMA BarrierGatheredCall ==
    ASSUME TypeInv, CallInv, NEW r \in Rank, BarrierGathered(r)
    PROVE  CallInv'
<1>1. /\ phase[r] = "breq" /\ Progress(r, "bscan")
      /\ UNCHANGED <<chan, gets, notify, todo, bq, kept, lq>>
  BY DEF BarrierGathered, waiting, issuing, locks
<1>2. /\ \A q \in Rank : q # r => resps'[r][q] = resps[r][q]
      /\ \A q \in Rank \ {r} : resps'[q] = resps[q]
  BY CallVars DEF BarrierGathered
<1>3. QueuesSame
  BY <1>1 DEF QueuesSame
<1>4. OpenSame /\ ChanMoved(r, r, {}) /\ QueuesMoved
  BY <1>1, <1>3, NothingMoved, SameShift, SameQueues
<1> QED BY <1>1, <1>2, <1>4, BarrierMoveCall DEF BarrierPhase

\* An answer goes to a rank that is still in the call that asked.
LEMMA BarrierAnswerCall ==
    ASSUME TypeInv, CallInv, NEW r \in Rank, BarrierAnswer(r)
    PROVE  CallInv'
<1> DEFINE w == Head(bq[r])
           m == Msg("OP_BARRIER_RESPONSE", 0, 0, w.call)
<1>1. /\ phase[r] = "bscan" /\ Pushed(r, "bscan")
      /\ bq[r] # <<>> /\ bq' = [bq EXCEPT ![r] = Tail(@)]
      /\ UNCHANGED <<gets, notify, todo, resps, kept, lq>>
  BY DEF BarrierAnswer, Answerable, waiting, issuing, locks
<1>2. Push(r, w.rank, m)
  BY DEF BarrierAnswer
<1>3. bq[r] \in Seq(Waiter) /\ w = bq[r][1] /\ 1 \in DOMAIN bq[r]
  BY <1>1, QueueTypes, HeadTailProperties, EmptySeq
<1>4. w \in Waiter /\ w.rank \in Rank /\ w.call \in Nat
  <2>1. w \in Waiter
    BY <1>3, EntryRank
  <2> HIDE DEF w
  <2> QED BY <2>1 DEF Waiter
<1>5. m \in Message /\ m.op = "OP_BARRIER_RESPONSE" /\ m.call = w.call
  BY <1>4, MessageType DEF CellOp, Msg, OpCode
<1>6. Present(w.rank, w.call, BarrierOp)
  BY <1>3 DEF CallInv, QueuesPresent, EntriesPresent
<1>7. prog' = prog /\ \A q \in Rank : Steady(q)
  <2>1. Alone(r) /\ Steady(r)
    BY <1>1, MovedOn DEF Phase
  <2> QED BY <2>1 DEF Alone, Steady
<1>8. PresentNext(w.rank, w.call, BarrierOp)
  BY <1>4, <1>6, <1>7, PresentKept
<1> HIDE DEF m
<1>9. \A n \in {m} : Proper(r, w.rank, n)
  <2>1. m.op \notin RequestOp /\ Caller(m.op) = BarrierOp
    BY <1>5 DEF RequestOp, Caller, RmwRequest, RmwResponse
  <2> QED BY <1>5, <1>8, <2>1 DEF Proper
<1>10. OpenSame /\ ChanMoved(r, w.rank, {m})
  BY <1>1, <1>2, <1>4, <1>5, BarrierAnswered, PushShift DEF ResponseOp
<1>11. QueuesMoved
  <2>1. \A p \in Rank : bq'[p] = IF p = r THEN Tail(bq[p]) ELSE bq[p]
    BY <1>1 DEF TypeInv, TypeOK
  <2>2. \A i \in DOMAIN Tail(bq[r]) : i + 1 \in DOMAIN bq[r] /\ Tail(bq[r])[i] = bq[r][i + 1]
    BY <1>1, <1>3, HeadTailProperties
  <2> QED BY <1>1, <2>1, <2>2 DEF QueuesMoved, OldOrPresent
<1> QED BY <1>1, <1>4, <1>9, <1>10, <1>11, BarrierMoveCall DEF BarrierPhase

LEMMA BarrierKeepCall ==
    ASSUME TypeInv, CallInv, NEW r \in Rank, BarrierKeep(r)
    PROVE  CallInv'
<1>1. /\ phase[r] = "bscan" /\ Proceed(r, "bscan")
      /\ bq[r] # <<>> /\ bq' = [bq EXCEPT ![r] = Tail(@)]
      /\ kept' = [kept EXCEPT ![r] = Append(@, Head(bq[r]))]
      /\ UNCHANGED <<chan, gets, notify, todo, resps, lq>>
  BY DEF BarrierKeep, waiting, issuing, locks
<1>2. bq[r] \in Seq(Waiter) /\ Head(bq[r]) = bq[r][1] /\ 1 \in DOMAIN bq[r]
  BY <1>1, QueueTypes, HeadTailProperties, EmptySeq
<1>3. OpenSame /\ ChanMoved(r, r, {})
  BY <1>1, BarrierKept, SameShift
<1>4. QueuesMoved
  <2>1. \A p \in Rank : bq'[p] = IF p = r THEN Tail(bq[p]) ELSE bq[p]
    BY <1>1 DEF TypeInv, TypeOK
  <2>2. \A i \in DOMAIN Tail(bq[r]) : i + 1 \in DOMAIN bq[r] /\ Tail(bq[r])[i] = bq[r][i + 1]
    BY <1>1, <1>2, HeadTailProperties
  <2>3. \A p \in Rank : kept'[p] = IF p = r THEN Append(kept[p], bq[r][1]) ELSE kept[p]
    BY <1>1, <1>2 DEF TypeInv, TypeOK
  <2>4. \A i \in DOMAIN Append(kept[r], bq[r][1]) :
           \/ i \in DOMAIN kept[r] /\ Append(kept[r], bq[r][1])[i] = kept[r][i]
           \/ Append(kept[r], bq[r][1])[i] = bq[r][1]
    BY QueueTypes
  <2>5. ASSUME NEW p \in Rank
        PROVE  /\ \A i \in DOMAIN bq'[p] : OldOrPresent(bq'[p][i], bq[p], BarrierOp)
               /\ \A i \in DOMAIN kept'[p] :
                     \/ OldOrPresent(kept'[p][i], bq[p], BarrierOp)
                     \/ OldOrPresent(kept'[p][i], kept[p], BarrierOp)
    <3>1. CASE p = r
      <4>1. \A i \in DOMAIN bq'[p] : \E j \in DOMAIN bq[p] : bq'[p][i] = bq[p][j]
        BY <2>1, <2>2, <3>1
      <4>2. \A i \in DOMAIN kept'[p] : \/ \E j \in DOMAIN bq[p] : kept'[p][i] = bq[p][j]
                                       \/ \E j \in DOMAIN kept[p] : kept'[p][i] = kept[p][j]
        <5>1. kept'[p] = Append(kept[r], bq[r][1])
          BY <2>3, <3>1
        <5>2. \A i \in DOMAIN kept'[p] :
                 (i \in DOMAIN kept[p] /\ kept'[p][i] = kept[p][i]) \/ kept'[p][i] = bq[p][1]
          BY <2>4, <3>1, <5>1
        <5> QED BY <1>2, <3>1, <5>2
      <4> QED BY <4>1, <4>2 DEF OldOrPresent
    <3>2. CASE p # r
      BY <2>1, <2>3, <3>2 DEF OldOrPresent
    <3> QED BY <3>1, <3>2
  <2> QED BY <1>1, <2>5 DEF QueuesMoved, OldOrPresent
<1> QED BY <1>1, <1>3, <1>4, BarrierMoveCall DEF BarrierPhase

LEMMA BarrierScannedCall ==
    ASSUME TypeInv, CallInv, NEW r \in Rank, BarrierScanned(r)
    PROVE  CallInv'
<1>1. /\ phase[r] = "bscan" /\ \E ph \in {"bwait", "bscan"} : Progress(r, ph)
      /\ bq[r] = <<>> /\ bq' = [bq EXCEPT ![r] = kept[r]]
      /\ kept' = [kept EXCEPT ![r] = <<>>]
      /\ UNCHANGED <<chan, gets, notify, todo, resps, lq>>
  BY DEF BarrierScanned, waiting, issuing, locks
<1>2. OpenSame /\ ChanMoved(r, r, {})
  BY <1>1, BarrierRequeued, SameShift
<1>3. QueuesMoved
  <2>1. \A p \in Rank : /\ bq'[p] = IF p = r THEN kept[p] ELSE bq[p]
                        /\ kept'[p] = IF p = r THEN <<>> ELSE kept[p]
    BY <1>1 DEF TypeInv, TypeOK
  <2> QED BY <1>1, <2>1 DEF QueuesMoved, OldOrPresent
<1> QED BY <1>1, <1>2, <1>3, BarrierMoveCall DEF BarrierPhase

-----------------------------------------------------------------------------
(* The handlers *)

\* What is known of the first message of a channel
LEMMA HeadPresent ==
    ASSUME TypeInv, CallInv, NEW r \in Rank, NEW s \in Rank, chan[s][r] # <<>>,
           NEW m, m = Head(chan[s][r])
    PROVE  /\ m \in Message
           /\ m.op \in RequestOp => /\ Present(s, m.call, Caller(m.op))
                                    /\ Wire(s, r) # 0 /\ Open(s, r) # 0
           /\ m.op \in ResponseOp => /\ Present(r, m.call, Caller(m.op))
                                     /\ Open(r, s) # 0
<1>1. m \in Message
  BY HeadType
<1>2. 1 \in DOMAIN chan[s][r] /\ m = chan[s][r][1]
  BY HeadType, EmptySeq
<1>3. m.op \in RequestOp => Present(s, m.call, Caller(m.op)) /\ Wire(s, r) # 0 /\ Open(s, r) # 0
  BY <1>2, OpenTrace DEF CallInv, MessagesPresent
<1>4. m.op \in ResponseOp => Present(r, m.call, Caller(m.op)) /\ Open(r, s) # 0
  BY <1>2, OpenTrace DEF CallInv, MessagesPresent
<1> QED BY <1>1, <1>3, <1>4

\* A handler that leaves all traces, and does not touch what r waits for
LEMMA HandlerCall ==
    ASSUME TypeInv, CallInv, NEW r \in Rank,
           UNCHANGED <<control, gets, notify, todo, resps>>, OpenSame,
           QueuesMoved, QueuedOnce',
           NEW s \in Rank, NEW d \in Rank, NEW N, ChanMoved(s, d, N),
           \A m \in N : Proper(s, d, m)
    PROVE  CallInv'
<1>1. prog' = prog /\ \A q : Steady(q)
  BY MovedNot
<1>2. \A q \in Rank : Unmoved(q)
  BY DEF Unmoved, OpenSame, control
<1>3. PhaseAt(r)' /\ Counted(r)'
  BY <1>1, <1>2, UnmovedPhase, UnmovedCounted DEF CallInv
<1> QED BY <1>1, <1>2, <1>3, CallFrame DEF Others

\* A message that concerns no call
LEMMA StoreHandlerCall ==
    ASSUME TypeInv, CallInv, NEW r \in Rank, NEW s \in Rank, chan[s][r] # <<>>,
           Consume(r, s), Head(chan[s][r]).op \in WriteOp, QueuesSame,
           UNCHANGED <<control, gets, notify, todo, resps>>
    PROVE  CallInv'
<1>1. Head(chan[s][r]).op \notin RequestOp \cup ResponseOp
  BY OpDisjoint
<1>2. OpenSame /\ ChanMoved(s, r, {})
  BY <1>1, OtherReceived, ConsumeShift
<1>3. QueuesMoved /\ QueuedOnce'
  BY SameQueues DEF QueuesSame, CallInv, QueuedOnce
<1> QED BY <1>2, <1>3, HandlerCall

LEMMA PutHandlerCall ==
    ASSUME TypeInv, CallInv, NEW r \in Rank, NEW s \in Rank, PutHandler(r, s)
    PROVE  CallInv'
  BY StoreHandlerCall DEF PutHandler, Receives, WriteOp, waiting, issuing, barriers, locks, QueuesSame

LEMMA AccHandlerCall ==
    ASSUME TypeInv, CallInv, NEW r \in Rank, NEW s \in Rank, AccHandler(r, s)
    PROVE  CallInv'
  BY StoreHandlerCall DEF AccHandler, Receives, WriteOp, waiting, issuing, barriers, locks, QueuesSame

\* A request is answered at once.
LEMMA ReplyCall ==
    ASSUME TypeInv, CallInv, NEW r \in Rank, NEW s \in Rank, chan[s][r] # <<>>,
           NEW h, h = Head(chan[s][r]), h.op \in RequestOp,
           NEW m \in Message, m.call = h.call, m.op \in ResponseOp,
           Caller(m.op) = Caller(h.op), Answer(r, s, s, m), QueuesSame,
           UNCHANGED <<control, gets, notify, todo, resps>>
    PROVE  CallInv'
<1>1. Present(s, h.call, Caller(h.op))
  BY HeadPresent
<1>2. PresentNext(s, m.call, Caller(m.op))
  BY <1>1, MovedNot, PresentKept
<1>3. \A n \in {m} : Proper(r, s, n)
  BY <1>2, OpDisjoint DEF Proper
<1>4. OpenSame /\ ChanMoved(r, s, {m})
  BY Replied, AnswerShift
<1>5. QueuesMoved /\ QueuedOnce'
  BY SameQueues DEF QueuesSame, CallInv, QueuedOnce
<1> QED BY <1>3, <1>4, <1>5, HandlerCall

LEMMA GetRequestHandlerCall ==
    ASSUME TypeInv, CallInv, NEW r \in Rank, NEW s \in Rank, GetRequestHandler(r, s)
    PROVE  CallInv'
<1>1. PICK h : h = Head(chan[s][r])
  OBVIOUS
<1>2. chan[s][r] # <<>> /\ h.op = "OP_GET_REQUEST" /\ h \in Message /\ h.loc \in Cell
  BY <1>1, HeadType DEF GetRequestHandler, Receives, Message, CellOp
<1> DEFINE m == [h EXCEPT !.op = "OP_GET_RESPONSE", !.val = mem[r][h.loc]]
<1>3. mem[r][h.loc] \in Int
  BY <1>1, CellType DEF GetRequestHandler, CellOp
<1>4. m \in Message /\ m.op = "OP_GET_RESPONSE" /\ m.call = h.call
  BY <1>2, <1>3 DEF Message, OpCode, CellOp
<1>5. Answer(r, s, s, m)
  BY <1>1 DEF GetRequestHandler
<1> HIDE DEF m
<1>6. /\ h.op \in RequestOp /\ m.op \in ResponseOp
      /\ Caller(h.op) = {"get"} /\ Caller(m.op) = {"get"}
  BY <1>2, <1>4 DEF RequestOp, ResponseOp, Caller, RmwRequest, RmwResponse
<1> QED BY <1>1, <1>2, <1>4, <1>5, <1>6, ReplyCall
        DEF GetRequestHandler, waiting, issuing, barriers, locks, QueuesSame

LEMMA RmwHandlerCall ==
    ASSUME TypeInv, CallInv, NEW r \in Rank, NEW s \in Rank,
           NEW op \in RmwRequest, NEW to \in RmwResponse, Receives(r, s, op),
           NEW h, h = Head(chan[s][r]),
           Answer(r, s, s, [h EXCEPT !.op = to, !.val = mem[r][h.loc]]),
           QueuesSame, UNCHANGED <<control, gets, notify, todo, resps>>
    PROVE  CallInv'
<1> DEFINE m == [h EXCEPT !.op = to, !.val = mem[r][h.loc]]
<1>1. chan[s][r] # <<>> /\ h \in Message /\ h.op = op /\ mem[r][h.loc] \in Int
  BY CellType DEF Receives, RmwRequest, CellOp
<1>2. m \in Message /\ m.op = to /\ m.call = h.call
  BY <1>1 DEF Message, OpCode, CellOp, RmwResponse
<1>3. Answer(r, s, s, m)
  OBVIOUS
<1> HIDE DEF m
<1>4. h.op \in RequestOp /\ Caller(h.op) = RmwOp
  BY <1>1 DEF RequestOp, Caller, RmwRequest, RmwResponse
<1>5. m.op \in ResponseOp /\ Caller(m.op) = RmwOp
  BY <1>2 DEF ResponseOp, Caller, RmwRequest, RmwResponse
<1> QED BY <1>1, <1>2, <1>3, <1>4, <1>5, ReplyCall

LEMMA FetchAndAddRequestHandlerCall ==
    ASSUME TypeInv, CallInv, NEW r \in Rank, NEW s \in Rank, FetchAndAddRequestHandler(r, s)
    PROVE  CallInv'
<1>1. /\ "OP_FETCH_AND_ADD_REQUEST" \in RmwRequest
      /\ "OP_FETCH_AND_ADD_RESPONSE" \in RmwResponse
  BY DEF RmwRequest, RmwResponse
<1> QED BY <1>1, RmwHandlerCall
        DEF FetchAndAddRequestHandler, waiting, issuing, barriers, locks, QueuesSame

LEMMA SwapRequestHandlerCall ==
    ASSUME TypeInv, CallInv, NEW r \in Rank, NEW s \in Rank, SwapRequestHandler(r, s)
    PROVE  CallInv'
<1>1. "OP_SWAP_REQUEST" \in RmwRequest /\ "OP_SWAP_RESPONSE" \in RmwResponse
  BY DEF RmwRequest, RmwResponse
<1> QED BY <1>1, RmwHandlerCall
        DEF SwapRequestHandler, waiting, issuing, barriers, locks, QueuesSame

LEMMA FenceRequestHandlerCall ==
    ASSUME TypeInv, CallInv, NEW r \in Rank, NEW s \in Rank, FenceRequestHandler(r, s)
    PROVE  CallInv'
<1>1. PICK h : h = Head(chan[s][r])
  OBVIOUS
<1>2. chan[s][r] # <<>> /\ h.op = "OP_FENCE_REQUEST" /\ h \in Message
  BY <1>1, HeadType DEF FenceRequestHandler, Receives
<1> DEFINE m == [h EXCEPT !.op = "OP_FENCE_RESPONSE"]
<1>3. m \in Message /\ m.op = "OP_FENCE_RESPONSE" /\ m.call = h.call
  BY <1>2 DEF Message, OpCode, CellOp
<1>4. Answer(r, s, s, m)
  BY <1>1 DEF FenceRequestHandler
<1> HIDE DEF m
<1>5. /\ h.op \in RequestOp /\ m.op \in ResponseOp
      /\ Caller(h.op) = {"fence"} /\ Caller(m.op) = {"fence"}
  BY <1>2, <1>3 DEF RequestOp, ResponseOp, Caller, RmwRequest, RmwResponse
<1> QED BY <1>1, <1>2, <1>3, <1>4, <1>5, ReplyCall
        DEF FenceRequestHandler, waiting, issuing, barriers, locks, QueuesSame

\* A response takes a trace of the call it is for.
LEMMA ResponseCall ==
    ASSUME TypeInv, CallInv, NEW r \in Rank, NEW s \in Rank, chan[s][r] # <<>>,
           Consume(r, s), Head(chan[s][r]).op \in ResponseOp, QueuesSame,
           UNCHANGED <<control, todo>>, AloneWaiting(r),
           OpenLess(r, s) => Counted(r)'
    PROVE  CallInv'
<1>1. /\ Alone(r) /\ prog' = prog /\ Cur(r)' = Cur(r)
      /\ phase' = phase /\ pc' = pc /\ busy' = busy
      /\ \A q : Steady(q)
  BY MovedNot
<1>2. OpenLess(r, s) /\ ChanMoved(s, r, {})
  BY ResponseReceived, ConsumeShift
<1>3. Others(r)
  BY <1>1, <1>2, OthersAlone DEF OpenAlone
<1>4. PhaseAt(r)'
  BY <1>1 DEF CallInv, PhaseAt, In, Cur
<1>5. QueuesMoved /\ QueuedOnce'
  BY SameQueues DEF QueuesSame, CallInv, QueuedOnce
<1> QED BY <1>1, <1>2, <1>3, <1>4, <1>5, CallFrame

LEMMA GetResponseHandlerCall ==
    ASSUME TypeInv, CallInv, NEW r \in Rank, NEW s \in Rank, GetResponseHandler(r, s)
    PROVE  CallInv'
<1>1. /\ chan[s][r] # <<>> /\ Head(chan[s][r]).op = "OP_GET_RESPONSE"
      /\ Consume(r, s) /\ QueuesSame /\ UNCHANGED <<control, notify, todo, resps>>
      /\ gets' = [gets EXCEPT ![r] = @ - 1]
  BY DEF GetResponseHandler, Receives, issuing, barriers, locks, QueuesSame
<1>2. Head(chan[s][r]).op \in ResponseOp /\ Caller(Head(chan[s][r]).op) = {"get"}
  BY <1>1 DEF ResponseOp, Caller, RmwRequest, RmwResponse
<1>3. Present(r, Head(chan[s][r]).call, {"get"}) /\ Open(r, s) # 0
  BY <1>1, <1>2, HeadPresent
<1>4. In(r, {"get"}) /\ Cur(r).op = "get"
  BY <1>3 DEF Present, In
<1>5. /\ \A p \in Rank : Open(r, p) = IF p = Cur(r).to THEN gets[r] ELSE 0
      /\ Cur(r).to = r => gets[r] = 0
  BY <1>4 DEF CallInv, Counted, GetCounted
<1>6. s = Cur(r).to /\ s # r
  BY <1>3, <1>5
<1>7. gets'[r] = gets[r] - 1 /\ gets[r] \in Int /\ AloneWaiting(r)
  BY <1>1, CallVars DEF AloneWaiting
<1>8. Cur(r)' = Cur(r) /\ phase' = phase
  BY <1>1, MovedNot
<1>9. ASSUME OpenLess(r, s) PROVE Counted(r)'
  <2>1. \A p \in Rank : Open(r, p)' = IF p = Cur(r).to THEN gets'[r] ELSE 0
    <3> TAKE p \in Rank
    <3>1. Open(r, p)' = Open(r, p) - Unit(r = r /\ p = s)
      BY <1>9 DEF OpenLess
    <3> QED BY <1>5, <1>6, <1>7, <3>1 DEF Unit
  <2>2. GetCounted(r)'
    BY <1>4, <1>6, <1>8, <2>1 DEF GetCounted, In
  <2>3. NobodyAsked(r)' /\ NotifyCounted(r)' /\ FenceCounted(r)' /\ MasksCounted(r)'
    BY <1>4, <1>8 DEF In, NobodyAsked, NotifyCounted, FenceCounted, MasksCounted,
       AskingOp, RmwOp, BarrierOp
  <2> QED BY <2>2, <2>3 DEF Counted
<1> QED BY <1>1, <1>2, <1>7, <1>9, ResponseCall

\* The response a lock or rmw waits for
LEMMA AnsweredCall ==
    ASSUME TypeInv, CallInv, NEW r \in Rank, NEW s \in Rank, chan[s][r] # <<>>,
           NEW ops, ops = {"lock"} \/ ops = RmwOp, Caller(Head(chan[s][r]).op) = ops,
           Consume(r, s), Head(chan[s][r]).op \in ResponseOp, QueuesSame,
           UNCHANGED <<control, gets, todo, resps>>,
           notify' = [notify EXCEPT ![r] = IF Notified(r, Head(chan[s][r])) THEN 0 ELSE @]
    PROVE  CallInv'
<1>1. Present(r, Head(chan[s][r]).call, ops) /\ Open(r, s) # 0
  BY HeadPresent
<1>2. In(r, {"lock"} \cup RmwOp) /\ Notified(r, Head(chan[s][r]))
  BY <1>1 DEF Present, In, Notified
<1>3. /\ \A p \in Rank : Open(r, p) = IF p = Cur(r).to THEN notify[r] ELSE 0
      /\ notify[r] \in {0, 1}
  BY <1>2 DEF CallInv, Counted, NotifyCounted
<1>4. s = Cur(r).to /\ notify[r] = 1 /\ notify'[r] = 0 /\ AloneWaiting(r)
  BY <1>1, <1>2, <1>3, CallVars DEF AloneWaiting
<1>5. Cur(r)' = Cur(r) /\ phase' = phase
  BY MovedNot
<1>6. gets'[r] = 0
  <2>1. ~In(r, {"get"})
    BY <1>2 DEF In, RmwOp
  <2> QED BY <2>1 DEF CallInv, Counted, GetCounted
<1>7. ASSUME OpenLess(r, s) PROVE Counted(r)'
  <2>1. \A p \in Rank : Open(r, p)' = 0
    <3> TAKE p \in Rank
    <3>1. Open(r, p)' = Open(r, p) - Unit(r = r /\ p = s)
      BY <1>7 DEF OpenLess
    <3> QED BY <1>3, <1>4, <3>1 DEF Unit
  <2>2. NotifyCounted(r)' /\ NobodyAsked(r)'
    BY <1>4, <2>1 DEF NotifyCounted, NobodyAsked
  <2>3. GetCounted(r)'
    BY <1>2, <1>5, <1>6 DEF GetCounted, In, RmwOp
  <2>4. FenceCounted(r)' /\ MasksCounted(r)'
    BY <1>2, <1>5 DEF In, FenceCounted, MasksCounted, RmwOp, BarrierOp
  <2> QED BY <2>2, <2>3, <2>4 DEF Counted
<1> QED BY <1>4, <1>7, ResponseCall

LEMMA RmwResponseHandlerCall ==
    ASSUME TypeInv, CallInv, NEW r \in Rank, NEW s \in Rank, RmwResponseHandler(r, s)
    PROVE  CallInv'
<1>1. chan[s][r] # <<>> /\ Head(chan[s][r]).op \in RmwResponse
  BY DEF RmwResponseHandler, Receives, RmwResponse
<1>2. Caller(Head(chan[s][r]).op) = RmwOp /\ Head(chan[s][r]).op \in ResponseOp
  BY <1>1 DEF Caller, RmwResponse, ResponseOp
<1> QED BY <1>1, <1>2, AnsweredCall
        DEF RmwResponseHandler, issuing, barriers, locks, QueuesSame

LEMMA LockResponseHandlerCall ==
    ASSUME TypeInv, CallInv, NEW r \in Rank, NEW s \in Rank, LockResponseHandler(r, s)
    PROVE  CallInv'
<1>1. chan[s][r] # <<>> /\ Head(chan[s][r]).op = "OP_LOCK_RESPONSE"
  BY DEF LockResponseHandler, Receives
<1>2. Caller(Head(chan[s][r]).op) = {"lock"} /\ Head(chan[s][r]).op \in ResponseOp
  BY <1>1 DEF Caller, RmwRequest, RmwResponse, ResponseOp
<1> QED BY <1>1, <1>2, AnsweredCall
        DEF LockResponseHandler, issuing, barriers, locks, QueuesSame

LEMMA FenceResponseHandlerCall ==
    ASSUME TypeInv, CallInv, NEW r \in Rank, NEW s \in Rank, FenceResponseHandler(r, s)
    PROVE  CallInv'
<1>1. /\ chan[s][r] # <<>> /\ Head(chan[s][r]).op = "OP_FENCE_RESPONSE"
      /\ Consume(r, s) /\ QueuesSame /\ UNCHANGED <<control, gets, todo, resps>>
      /\ notify' = [notify EXCEPT ![r] = IF Notified(r, Head(chan[s][r])) THEN @ - 1 ELSE @]
  BY DEF FenceResponseHandler, Receives, issuing, barriers, locks, QueuesSame
<1>2. Head(chan[s][r]).op \in ResponseOp /\ Caller(Head(chan[s][r]).op) = {"fence"}
  BY <1>1 DEF ResponseOp, Caller, RmwRequest, RmwResponse
<1>3. Present(r, Head(chan[s][r]).call, {"fence"}) /\ Open(r, s) # 0
  BY <1>1, <1>2, HeadPresent
<1>4. In(r, {"fence"}) /\ Cur(r).op = "fence" /\ Notified(r, Head(chan[s][r]))
  BY <1>3 DEF Present, In, Notified
<1>5. /\ \A p \in Rank : Open(r, p) + Unit(p \in todo[r]) <= 1
      /\ notify[r] = Cardinality(Awaited(r))
      /\ gets[r] = 0
  <2>1. ~In(r, {"get"})
    BY <1>4 DEF In
  <2> QED BY <1>4, <2>1 DEF CallInv, Counted, FenceCounted, GetCounted
<1>6. Open(r, s) = 1 /\ s \notin todo[r]
  <2>1. Open(r, s) \in Nat /\ Open(r, s) + Unit(s \in todo[r]) <= 1
    BY <1>5, OpenType
  <2> HIDE DEF Open
  <2> QED BY <1>3, <2>1 DEF Unit
<1>7. notify'[r] = notify[r] - 1 /\ AloneWaiting(r) /\ todo'[r] = todo[r]
  BY <1>1, <1>4, CallVars DEF AloneWaiting
<1>8. Cur(r)' = Cur(r) /\ phase' = phase
  BY <1>1, MovedNot
<1>9. ASSUME OpenLess(r, s) PROVE Counted(r)'
  <2>1. \A p \in Rank : Open(r, p)' = IF p = s THEN 0 ELSE Open(r, p)
    <3> TAKE p \in Rank
    <3>1. Open(r, p)' = Open(r, p) - Unit(r = r /\ p = s)
      BY <1>9 DEF OpenLess
    <3>2. Open(r, p) \in Nat
      BY OpenType
    <3> HIDE DEF Open
    <3> QED BY <1>6, <3>1, <3>2 DEF Unit
  <2>2. \A p \in Rank : Open(r, p)' + Unit(p \in todo'[r]) <= 1
    <3> TAKE p \in Rank
    <3>1. Open(r, p) \in Nat /\ Open(r, p) + Unit(p \in todo[r]) <= 1
      BY <1>5, OpenType
    <3> HIDE DEF Open
    <3> QED BY <1>7, <2>1, <3>1 DEF Unit
  <2>3. Awaited(r)' = Awaited(r) \ {s} /\ s \in Awaited(r)
    <3>1. ASSUME NEW p \in Rank
          PROVE  p \in todo'[r] \/ Open(r, p)' # 0 <=>
                 (p \in todo[r] \/ Open(r, p) # 0) /\ p # s
      BY <1>6, <1>7, <2>1
    <3> HIDE DEF Open
    <3> QED BY <1>3, <3>1 DEF Awaited
  <2>4. notify'[r] = Cardinality(Awaited(r)')
    <3>1. IsFiniteSet(Awaited(r))
      BY RankAssumption, FS_Subset DEF Awaited
    <3>2. Cardinality(Awaited(r) \ {s}) = Cardinality(Awaited(r)) - 1
      BY <2>3, <3>1, FS_RemoveElement
    <3> QED BY <1>5, <1>7, <2>3, <3>2
  <2>5. FenceCounted(r)'
    <3>1. Awaited(r)' = Awaited(r)'
      OBVIOUS
    <3> QED BY <2>2, <2>4 DEF FenceCounted
  <2>6. NobodyAsked(r)' /\ NotifyCounted(r)' /\ MasksCounted(r)' /\ ~In(r, {"get"})'
    BY <1>4, <1>8 DEF In, NobodyAsked, NotifyCounted, MasksCounted,
       AskingOp, RmwOp, BarrierOp
  <2>7. GetCounted(r)'
    BY <1>1, <1>5, <2>6 DEF GetCounted
  <2> QED BY <2>5, <2>6, <2>7 DEF Counted
<1> QED BY <1>1, <1>2, <1>7, <1>9, ResponseCall

LEMMA BarrierResponseHandlerCall ==
    ASSUME TypeInv, CallInv, NEW r \in Rank, NEW s \in Rank, BarrierResponseHandler(r, s)
    PROVE  CallInv'
<1>1. /\ chan[s][r] # <<>> /\ Head(chan[s][r]).op = "OP_BARRIER_RESPONSE"
      /\ Consume(r, s) /\ QueuesSame /\ UNCHANGED <<control, gets, notify, todo>>
      /\ resps' = [resps EXCEPT ![r][s] = IF Notified(r, Head(chan[s][r])) THEN @ + 1 ELSE @]
  BY DEF BarrierResponseHandler, Receives, waiting, issuing, locks, QueuesSame
<1>2. Head(chan[s][r]).op \in ResponseOp /\ Caller(Head(chan[s][r]).op) = BarrierOp
  BY <1>1 DEF ResponseOp, Caller, RmwRequest, RmwResponse
<1>3. Present(r, Head(chan[s][r]).call, BarrierOp) /\ Open(r, s) # 0
  BY <1>1, <1>2, HeadPresent
<1>4. In(r, BarrierOp) /\ phase[r] \in BarrierPhase /\ Notified(r, Head(chan[s][r]))
  BY <1>3 DEF Present, In, Notified, CallInv, PhaseAt
<1>5. /\ Cur(r).op \in BarrierOp /\ gets[r] = 0
      /\ \A q \in Rank :
            IF q \in Cur(r).grp \ {r}
            THEN Open(r, q) + Unit(q \in todo[r]) + resps[r][q] = 1
            ELSE Open(r, q) = 0 /\ q \notin todo[r]
  BY <1>4, InBarrierCall
<1>6. s \in Cur(r).grp \ {r}
  BY <1>3, <1>5
<1>7. /\ \A q \in Rank : resps'[r][q] = IF q = s THEN resps[r][q] + 1 ELSE resps[r][q]
      /\ \A q \in Rank : resps[r][q] \in Nat
      /\ AloneWaiting(r) /\ todo'[r] = todo[r]
  BY <1>1, <1>4, CallVars DEF AloneWaiting
<1>8. Cur(r)' = Cur(r) /\ phase' = phase
  BY <1>1, MovedNot
<1>9. ASSUME OpenLess(r, s) PROVE Counted(r)'
  <2>1. \A q \in Rank :
           IF q \in Cur(r).grp \ {r}
           THEN Open(r, q)' + Unit(q \in todo'[r]) + resps'[r][q] = 1
           ELSE Open(r, q)' = 0 /\ q \notin todo'[r]
    <3> TAKE q \in Rank
    <3>1. Open(r, q)' = Open(r, q) - Unit(r = r /\ q = s)
      BY <1>9 DEF OpenLess
    <3>2. Open(r, q) \in Nat /\ resps[r][q] \in Nat
      BY <1>7, OpenType
    <3> HIDE DEF Open
    <3> QED BY <1>5, <1>6, <1>7, <3>1, <3>2 DEF Unit
  <2>2. phase'[r] # "idle" /\ gets'[r] = 0
    BY <1>1, <1>4, <1>5, <1>8 DEF In
  <2> QED BY <1>5, <1>8, <2>1, <2>2, BarrierCounted
<1> QED BY <1>1, <1>2, <1>7, <1>9, ResponseCall

LEMMA BarrierRequestHandlerCall ==
    ASSUME TypeInv, CallInv, NEW r \in Rank, NEW s \in Rank, BarrierRequestHandler(r, s)
    PROVE  CallInv'
<1> DEFINE w == [rank |-> s, call |-> Head(chan[s][r]).call]
<1>1. /\ chan[s][r] # <<>> /\ Head(chan[s][r]).op = "OP_BARRIER_REQUEST"
      /\ Consume(r, s) /\ UNCHANGED <<kept, lq>>
      /\ UNCHANGED <<control, gets, notify, todo, resps>>
      /\ bq' = [bq EXCEPT ![r] = Append(@, w)]
  BY DEF BarrierRequestHandler, Receives, waiting, issuing, locks
<1>2. /\ Head(chan[s][r]).op \in RequestOp
      /\ Caller(Head(chan[s][r]).op) = BarrierOp
  BY <1>1 DEF RequestOp, Caller, RmwRequest, RmwResponse
<1>3. w \in Waiter /\ w.rank = s /\ Head(chan[s][r]).call = w.call
  BY <1>1, HeadType DEF Waiter, Message
<1> HIDE DEF w
<1>4. Present(s, w.call, BarrierOp)
  BY <1>1, <1>2, <1>3, HeadPresent
<1>5. PresentNext(w.rank, w.call, BarrierOp)
  BY <1>1, <1>3, <1>4, MovedNot, PresentKept
<1>6. OpenSame /\ ChanMoved(s, r, {})
  BY <1>1, <1>3, BarrierQueued, ConsumeShift
<1>7. QueuesMoved
  <2>1. \A p \in Rank : bq'[p] = IF p = r THEN Append(bq[p], w) ELSE bq[p]
    BY <1>1 DEF TypeInv, TypeOK
  <2>2. \A i \in DOMAIN Append(bq[r], w) :
           \/ i \in DOMAIN bq[r] /\ Append(bq[r], w)[i] = bq[r][i]
           \/ Append(bq[r], w)[i] = w
    BY QueueTypes
  <2>3. ASSUME NEW p \in Rank, NEW i \in DOMAIN bq'[p]
        PROVE  OldOrPresent(bq'[p][i], bq[p], BarrierOp)
    <3>1. (i \in DOMAIN bq[p] /\ bq'[p][i] = bq[p][i]) \/ bq'[p][i] = w
      BY <2>1, <2>2
    <3> QED BY <1>5, <3>1 DEF OldOrPresent
  <2> QED BY <1>1, <2>3 DEF QueuesMoved, OldOrPresent
<1>8. QueuedOnce'
  BY <1>1 DEF CallInv, QueuedOnce
<1> QED BY <1>1, <1>6, <1>7, <1>8, HandlerCall

\* The end of an iteration that received a lock or unlock request: L is what
\* the queues of r are before the mutex is passed on.
LEMMA LqProgressCall ==
    ASSUME TypeInv, CallInv, NEW r \in Rank, NEW s \in Rank, chan[s][r] # <<>>,
           NEW id \in Mutex, NEW holder, NEW L \in [Mutex -> Seq(Waiter)], OnceIn(L),
           \A jd \in Mutex : jd # id => L[jd] = lq[r][jd],
           LqProgress(r, s, id, holder, L[id]), UNCHANGED <<bq, kept>>,
           UNCHANGED <<control, gets, notify, todo, resps>>,
           Head(chan[s][r]).op \notin ResponseOp,
           Head(chan[s][r]).op \in RequestOp => ~InLockQueue(s, r),
           \A x : WaitsIn(L, x) <=>
              WaitsIn(lq[r], x) \/ (Head(chan[s][r]).op \in RequestOp /\ x = s),
           \A jd \in Mutex : \A i \in DOMAIN L[jd] :
              OldOrPresent(L[jd][i], lq[r][jd], {"lock"})
    PROVE  CallInv'
<1>1. QueuedOnce
  BY DEF CallInv
<1>2. OpenSame
  BY <1>1, LqProgressOpen
<1>3. /\ QueuedOnce'
      /\ \/ /\ Consume(r, s)
            /\ lq' = [lq EXCEPT ![r] = L]
         \/ \E w \in Waiter : Granted(r, s, id, L, w)
  BY <1>1, LqProgressQueues
<1>4. ASSUME \A y \in Rank \ {r} : lq'[y] = lq[y],
             \A jd \in Mutex : \A i \in DOMAIN lq'[r][jd] :
                \E j \in DOMAIN L[jd] : lq'[r][jd][i] = L[jd][j]
      PROVE  QueuesMoved
  <2>1. ASSUME NEW p \in Rank, NEW jd \in Mutex, NEW i \in DOMAIN lq'[p][jd]
        PROVE  OldOrPresent(lq'[p][jd][i], lq[p][jd], {"lock"})
    <3>1. CASE p = r
      <4>1. PICK j \in DOMAIN L[jd] : lq'[r][jd][i] = L[jd][j]
        BY <1>4, <3>1
      <4> QED BY <3>1, <4>1
    <3>2. CASE p # r
      BY <1>4, <3>2 DEF OldOrPresent
    <3> QED BY <3>1, <3>2
  <2> QED BY <2>1 DEF QueuesMoved, OldOrPresent
<1>5. CASE Consume(r, s) /\ lq' = [lq EXCEPT ![r] = L]
  <2>1. (\A y \in Rank \ {r} : lq'[y] = lq[y]) /\ lq'[r] = L
    BY <1>5 DEF TypeInv, TypeOK
  <2>2. QueuesMoved
    BY <1>4, <2>1
  <2>3. ChanMoved(s, r, {})
    BY <1>5, ConsumeShift
  <2> QED BY <1>2, <1>3, <2>2, <2>3, HandlerCall
<1>6. ASSUME NEW w \in Waiter, Granted(r, s, id, L, w)
      PROVE  CallInv'
  <2> DEFINE m == Msg("OP_LOCK_RESPONSE", -1, 0, w.call)
  <2>1. /\ w.rank \in Rank /\ w.call \in Nat
        /\ m \in Message /\ m.op = "OP_LOCK_RESPONSE" /\ m.call = w.call
    <3>1. w.rank \in Rank /\ w.call \in Nat
      BY DEF Waiter
    <3> QED BY <3>1, MessageType DEF CellOp, Msg, OpCode
  <2>2. Answer(r, s, w.rank, m)
    BY <1>6 DEF Granted
  <2> HIDE DEF m
  <2>3. QueuesMoved
    BY <1>4, <1>6 DEF Granted
  <2>4. PICK i \in DOMAIN L[id] : L[id][i] = w
    BY <1>6 DEF Granted
  <2>5. OldOrPresent(w, lq[r][id], {"lock"})
    BY <2>4
  <2>6. PresentNext(w.rank, w.call, {"lock"})
    <3>1. ASSUME NEW j \in DOMAIN lq[r][id], w = lq[r][id][j]
          PROVE  PresentNext(w.rank, w.call, {"lock"})
      <4>1. Present(w.rank, w.call, {"lock"})
        BY <3>1 DEF CallInv, QueuesPresent, EntriesPresent
      <4> QED BY <4>1, MovedNot, PresentKept
    <3> QED BY <2>5, <3>1 DEF OldOrPresent
  <2>7. \A n \in {m} : Proper(r, w.rank, n)
    <3>1. m.op \notin RequestOp /\ Caller(m.op) = {"lock"}
      BY <2>1 DEF RequestOp, Caller, RmwRequest, RmwResponse
    <3> QED BY <2>1, <2>6, <3>1 DEF Proper
  <2>8. ChanMoved(r, w.rank, {m})
    BY <2>1, <2>2, AnswerShift
  <2> QED BY <1>2, <1>3, <2>1, <2>3, <2>7, <2>8, HandlerCall
<1> QED BY <1>3, <1>5, <1>6

LEMMA LockRequestHandlerCall ==
    ASSUME TypeInv, CallInv, NEW r \in Rank, NEW s \in Rank, LockRequestHandler(r, s)
    PROVE  CallInv'
<1>1. PICK h : h = Head(chan[s][r])
  OBVIOUS
<1>2. chan[s][r] # <<>> /\ h.op = "OP_LOCK_REQUEST" /\ h \in Message
  BY <1>1, HeadType DEF LockRequestHandler, Receives
<1>3. CASE NoSuchMutex(r, h.loc)
  BY <1>1, <1>3, AbortCall DEF LockRequestHandler
<1>4. CASE ~NoSuchMutex(r, h.loc)
  <2> DEFINE id == h.loc
             w == [rank |-> s, call |-> h.call]
             L == [lq[r] EXCEPT ![id] = Append(@, w)]
  <2>1. /\ LqProgress(r, s, id, mutexes[r][id], Append(lq[r][id], w))
        /\ UNCHANGED <<bq, kept>>
        /\ UNCHANGED <<control, gets, notify, todo, resps>>
    BY <1>1, <1>4 DEF LockRequestHandler, waiting, issuing, barriers
  <2>2. id \in Mutex /\ w \in Waiter /\ w.rank = s /\ w.call = h.call
    <3>1. h.loc \in Nat /\ h.call \in Nat
      BY <1>2 DEF Message
    <3>2. nmutex[r] \in 0 .. NumMutexes
      BY DEF TypeInv, TypeOK
    <3> QED BY <1>4, <3>1, <3>2, BoundAssumption DEF NoSuchMutex, Mutex, Waiter
  <2>3. lq[r] \in [Mutex -> Seq(Waiter)] /\ OnceIn(lq[r])
    BY DEF TypeInv, TypeOK, CallInv, QueuedOnce, OnceIn
  <2>4. /\ L \in [Mutex -> Seq(Waiter)] /\ L[id] = Append(lq[r][id], w)
        /\ \A jd \in Mutex : jd # id => L[jd] = lq[r][jd]
    BY <2>2, <2>3
  <2> HIDE DEF w, L, id
  <2>5. h.op \in RequestOp /\ h.op \notin ResponseOp /\ Caller(h.op) = {"lock"}
    BY <1>2 DEF RequestOp, ResponseOp, Caller, RmwRequest, RmwResponse
  <2>6. Present(s, h.call, {"lock"}) /\ Wire(s, r) # 0
    BY <1>1, <1>2, <2>5, HeadPresent
  <2>7. ~InLockQueue(s, r)
    <3>1. In(s, {"lock"} \cup RmwOp)
      BY <2>6 DEF Present, In
    <3>2. Open(s, r) \in {0, 1}
      BY <3>1 DEF CallInv, Counted, NotifyCounted
    <3>3. Wire(s, r) \in Nat /\ Parked(s, r) \in Nat
      BY OpenType
    <3>4. Parked(s, r) = 0
      BY <2>6, <3>2, <3>3 DEF Open
    <3> QED BY <3>4, OpenTrace
  <2>8. ~WaitsIn(lq[r], s)
    BY <2>7 DEF InLockQueue, WaitsIn
  <2>9. /\ OnceIn(L)
        /\ \A x : WaitsIn(L, x) <=> WaitsIn(lq[r], x) \/ x = s
    <3>1. PICK Q : Q = lq[r]
      OBVIOUS
    <3>2. /\ Q \in [Mutex -> Seq(Waiter)] /\ OnceIn(Q) /\ ~WaitsIn(Q, w.rank)
          /\ L[id] = Append(Q[id], w)
          /\ \A jd \in Mutex : jd # id => L[jd] = Q[jd]
      BY <2>2, <2>3, <2>4, <2>8, <3>1
    <3>3. /\ OnceIn(L)
          /\ \A x : WaitsIn(L, x) <=> WaitsIn(Q, x) \/ x = w.rank
      BY <2>2, <3>2, JoinQueue
    <3> QED BY <2>2, <3>1, <3>3
  <2>10. PresentNext(w.rank, w.call, {"lock"})
    BY <2>1, <2>2, <2>6, MovedNot, PresentKept
  <2>11. \A jd \in Mutex : \A i \in DOMAIN L[jd] :
            OldOrPresent(L[jd][i], lq[r][jd], {"lock"})
    <3> TAKE jd \in Mutex
    <3> TAKE i \in DOMAIN L[jd]
    <3>1. (i \in DOMAIN lq[r][jd] /\ L[jd][i] = lq[r][jd][i]) \/ L[jd][i] = w
      <4>1. CASE jd = id
        BY <2>3, <2>4, <4>1
      <4> QED BY <2>4, <4>1
    <3> QED BY <2>10, <3>1 DEF OldOrPresent
  <2>12. LqProgress(r, s, id, mutexes[r][id], L[id])
    BY <2>1, <2>4
  <2>13. \A x : WaitsIn(L, x) <=>
            WaitsIn(lq[r], x) \/ (Head(chan[s][r]).op \in RequestOp /\ x = s)
    BY <1>1, <2>5, <2>9
  <2>14. Head(chan[s][r]).op \notin ResponseOp
    BY <1>1, <2>5
  <2> QED BY <1>2, <2>1, <2>2, <2>4, <2>7, <2>9, <2>11, <2>12, <2>13, <2>14, LqProgressCall
<1> QED BY <1>3, <1>4

LEMMA UnlockRequestHandlerCall ==
    ASSUME TypeInv, CallInv, NEW r \in Rank, NEW s \in Rank, UnlockRequestHandler(r, s)
    PROVE  CallInv'
<1>1. PICK h : h = Head(chan[s][r])
  OBVIOUS
<1>2. chan[s][r] # <<>> /\ h.op = "OP_UNLOCK" /\ h \in Message
  BY <1>1, HeadType DEF UnlockRequestHandler, Receives
<1>3. CASE NoSuchMutex(r, h.loc) \/ mutexes[r][h.loc] # s
  BY <1>1, <1>3, AbortCall DEF UnlockRequestHandler
<1>4. CASE ~(NoSuchMutex(r, h.loc) \/ mutexes[r][h.loc] # s)
  <2>1. /\ LqProgress(r, s, h.loc, Nobody, lq[r][h.loc])
        /\ UNCHANGED <<bq, kept>>
        /\ UNCHANGED <<control, gets, notify, todo, resps>>
    BY <1>1, <1>4 DEF UnlockRequestHandler, waiting, issuing, barriers
  <2>2. h.loc \in Mutex
    <3>1. h.loc \in Nat
      BY <1>2 DEF Message
    <3>2. nmutex[r] \in 0 .. NumMutexes
      BY DEF TypeInv, TypeOK
    <3> QED BY <1>4, <3>1, <3>2, BoundAssumption DEF NoSuchMutex, Mutex
  <2>3. lq[r] \in [Mutex -> Seq(Waiter)] /\ OnceIn(lq[r])
    BY DEF TypeInv, TypeOK, CallInv, QueuedOnce, OnceIn
  <2>4. h.op \notin RequestOp /\ h.op \notin ResponseOp
    BY <1>2, OpDisjoint
  <2>5. \A jd \in Mutex : \A i \in DOMAIN lq[r][jd] :
            OldOrPresent(lq[r][jd][i], lq[r][jd], {"lock"})
    BY DEF OldOrPresent
  <2> QED BY <1>1, <1>2, <2>1, <2>2, <2>3, <2>4, <2>5, LqProgressCall
<1> QED BY <1>3, <1>4

-----------------------------------------------------------------------------
(* The traces of every call, at every step *)

LEMMA InitCall == Init => CallInv
<1> SUFFICES ASSUME Init PROVE CallInv
  OBVIOUS
<1>1. /\ phase = [r \in Rank |-> "idle"]
      /\ chan = [s \in Rank |-> [d \in Rank |-> <<>>]]
      /\ gets = [r \in Rank |-> 0]
      /\ todo = [r \in Rank |-> {}]
      /\ bq = [r \in Rank |-> <<>>]
      /\ kept = [r \in Rank |-> <<>>]
      /\ lq = [r \in Rank |-> [m \in Mutex |-> <<>>]]
  BY DEF Init
<1>2. \A ops, r : Num(<<>>, ops) = 0 /\ From(<<>>, r) = 0
  BY FS_EmptySet DEF Num, From
<1>3. \A r, p \in Rank : Open(r, p) = 0
  BY <1>1, <1>2 DEF Open, Wire, Parked, LockEntries, InLockQueue
<1>4. \A r \in Rank : PhaseAt(r)
  BY <1>1 DEF PhaseAt, In, BarrierPhase
<1>5. \A r \in Rank : Counted(r)
  <2> HIDE DEF Open
  <2> QED BY <1>1, <1>3 DEF Counted, NobodyAsked, GetCounted, NotifyCounted, FenceCounted,
          MasksCounted, In
<1>6. MessagesPresent
  BY <1>1 DEF MessagesPresent
<1>7. QueuesPresent
  BY <1>1 DEF QueuesPresent, EntriesPresent
<1>8. QueuedOnce
  BY <1>1 DEF QueuedOnce
<1> QED BY <1>4, <1>5, <1>6, <1>7, <1>8 DEF CallInv

LEMMA LocalStepCall ==
    ASSUME TypeInv, CallInv, NEW r \in Rank, LocalStep(r)
    PROVE  CallInv'
<1>1. CASE DataStep(r)
  BY <1>1, PutSelfCall, PutRemoteCall, AccSelfCall, AccRemoteCall, GetSelfCall,
     GetRemoteCall, WaitStartCall, RmwStartCall, FenceNothingCall,
     FenceStartCall, FenceNextCall, FenceReturnCall, CallReturnCall DEF DataStep
<1>2. CASE BarrierStep(r)
  BY <1>2, BarrierStartCall, BarrierSendCall, BarrierGatheredCall, BarrierAnswerCall,
     BarrierKeepCall, BarrierScannedCall, BarrierReturnCall DEF BarrierStep
<1>3. CASE MutexStep(r)
  BY <1>3, CreateMutexesCall, LockCall, LockReturnCall, UnlockCall, DestroyReturnCall
     DEF MutexStep
<1>4. CASE MemoryStep(r)
  BY <1>4, LocalSegmentCall, GatherStartCall, GatherReturnCall DEF MemoryStep
<1> QED BY <1>1, <1>2, <1>3, <1>4 DEF LocalStep

LEMMA ReceiveCall ==
    ASSUME TypeInv, CallInv, NEW r \in Rank, NEW s \in Rank, Receive(r, s)
    PROVE  CallInv'
<1>1. CASE DataReceive(r, s)
  BY <1>1, PutHandlerCall, AccHandlerCall, GetRequestHandlerCall, GetResponseHandlerCall,
     FetchAndAddRequestHandlerCall, SwapRequestHandlerCall, RmwResponseHandlerCall,
     FenceRequestHandlerCall, FenceResponseHandlerCall DEF DataReceive
<1>2. CASE BarrierReceive(r, s)
  BY <1>2, BarrierRequestHandlerCall, BarrierResponseHandlerCall DEF BarrierReceive
<1>3. CASE MutexReceive(r, s)
  BY <1>3, LockRequestHandlerCall, UnlockRequestHandlerCall, LockResponseHandlerCall
     DEF MutexReceive
<1> QED BY <1>1, <1>2, <1>3 DEF Receive

LEMMA NextCall == TypeInv /\ CallInv /\ [Next]_vars => CallInv'
<1> SUFFICES ASSUME TypeInv, CallInv, [Next]_vars PROVE CallInv'
  OBVIOUS
<1>1. CASE UNCHANGED vars
  <2>1. /\ UNCHANGED <<control, chan, gets, notify, todo, resps>>
        /\ QueuesSame
    BY <1>1 DEF vars, waiting, issuing, barriers, locks, QueuesSame
  <2>2. CASE Rank = {}
    BY <2>2 DEF CallInv, MessagesPresent, QueuesPresent, QueuedOnce
  <2>3. CASE Rank # {}
    BY <2>1, <2>3, SameCall
  <2> QED BY <2>2, <2>3
<1>2. ASSUME NEW r \in Rank, LocalStep(r) PROVE CallInv'
  BY <1>2, LocalStepCall
<1>3. ASSUME NEW r \in Rank, NEW s \in Rank, Receive(r, s) PROVE CallInv'
  BY <1>3, ReceiveCall
<1> QED BY <1>1, <1>2, <1>3 DEF Next, ReceiveStep, Over

\* Each call has exactly the traces it waits for: requests, queue entries and
\* responses together are counted by gets, *notify, the masks of a barrier.
THEOREM CallTraces == Spec => []CallInv
<1>1. Spec => [](TypeInv /\ CallInv)
  BY InitType, NextType, InitCall, NextCall, PTL DEF Spec
<1> QED BY <1>1, PTL

LEMMA PresentResponses ==
    ASSUME TypeInv, CallInv
    PROVE  NoStaleResponse
<1> SUFFICES ASSUME NEW s \in Rank, NEW r \in Rank, NEW i \in DOMAIN chan[s][r],
                    chan[s][r][i].op \in ResponseOp
             PROVE  chan[s][r][i].call = pc[r] /\ phase[r] # "idle"
  BY DEF NoStaleResponse, InFlight
<1> QED BY DEF CallInv, MessagesPresent, Present, In

\* A response is never under way for a call that has returned: no handler
\* writes through a notify_address or into a get buffer that is gone.
THEOREM ResponsesCurrent == Spec => []NoStaleResponse
<1>1. Spec => [](TypeInv /\ CallInv)
  BY InitType, NextType, InitCall, NextCall, PTL DEF Spec
<1> QED BY <1>1, PresentResponses, PTL

LEMMA CountedRequests ==
    ASSUME TypeInv, CallInv
    PROVE  OneRequestPerPeer
<1> SUFFICES ASSUME NEW p \in Rank, NEW q \in Rank
             PROVE  From(bq[q], p) + From(kept[q], p) +
                       Cardinality({i \in DOMAIN chan[p][q] :
                                      chan[p][q][i].op = "OP_BARRIER_REQUEST"}) <= 1
  BY DEF OneRequestPerPeer, From
<1> DEFINE n == Cardinality({i \in DOMAIN chan[p][q] :
                               chan[p][q][i].op = "OP_BARRIER_REQUEST"})
<1>1. n \in Nat /\ n <= Num(chan[p][q], RequestOp)
      /\ (n # 0 => \E i \in DOMAIN chan[p][q] : chan[p][q][i].op = "OP_BARRIER_REQUEST")
  <2> DEFINE A == {i \in DOMAIN chan[p][q] : chan[p][q][i].op = "OP_BARRIER_REQUEST"}
             B == {i \in DOMAIN chan[p][q] : chan[p][q][i].op \in RequestOp}
  <2>1. A \subseteq B
    BY DEF RequestOp
  <2>2. IsFiniteSet(B)
    BY ChanType, IndexSet
  <2>3. Cardinality(A) \in Nat /\ Cardinality(A) <= Cardinality(B)
    BY <2>1, <2>2, FS_Subset, FS_CardinalityType
  <2>4. Cardinality(A) # 0 => A # {}
    BY FS_EmptySet
  <2> QED BY <2>3, <2>4 DEF Num
<1>2. /\ From(bq[q], p) \in Nat /\ From(kept[q], p) \in Nat
      /\ From(bq[q], p) # 0 => \E i \in DOMAIN bq[q] : bq[q][i].rank = p
      /\ From(kept[q], p) # 0 => \E i \in DOMAIN kept[q] : kept[q][i].rank = p
  BY QueueTypes, FromType
<1>3. From(bq[q], p) + From(kept[q], p) + n <= Open(p, q)
  <2>1. /\ Num(chan[p][q], RequestOp) \in Nat /\ Num(chan[q][p], ResponseOp) \in Nat
        /\ LockEntries(p, q) \in Nat
    BY OpenType
  <2> HIDE DEF n
  <2> QED BY <1>1, <1>2, <2>1 DEF Open, Wire, Parked
<1>4. CASE In(p, BarrierOp)
  <2>1. MasksCounted(p)
    BY DEF CallInv, Counted
  <2>2. resps[p][q] \in Nat /\ Open(p, q) \in Nat /\ Unit(q \in todo[p]) \in Nat
    BY CallVars, OpenType DEF Unit
  <2>3. Open(p, q) <= 1
    <3> HIDE DEF Open, Unit
    <3> QED BY <1>4, <2>1, <2>2 DEF MasksCounted
  <2>4. From(bq[q], p) + From(kept[q], p) + n <= 1
    <3> HIDE DEF n, From, Open
    <3> QED BY <1>1, <1>2, <1>3, <2>2, <2>3
  <2> QED BY <2>4
<1>5. CASE ~In(p, BarrierOp)
  <2>1. n = 0
    <3>1. ASSUME NEW i \in DOMAIN chan[p][q], chan[p][q][i].op = "OP_BARRIER_REQUEST"
          PROVE  In(p, BarrierOp)
      <4>1. chan[p][q][i].op \in RequestOp /\ Caller(chan[p][q][i].op) = BarrierOp
        BY <3>1 DEF RequestOp, Caller, RmwRequest, RmwResponse
      <4> QED BY <4>1 DEF CallInv, MessagesPresent, Present
    <3> QED BY <1>1, <1>5, <3>1
  <2>2. From(bq[q], p) = 0 /\ From(kept[q], p) = 0
    BY <1>2, <1>5 DEF CallInv, QueuesPresent, EntriesPresent, Present
  <2> QED BY <2>1, <2>2
<1> QED BY <1>4, <1>5

\* A rank never has two barrier requests at another, on the way or queued:
\* telling requests apart by their sender alone is enough, whatever barriers
\* of whatever groups the ranks are in.
THEOREM RequestsApart == Spec => []OneRequestPerPeer
<1>1. Spec => [](TypeInv /\ CallInv)
  BY InitType, NextType, InitCall, NextCall, PTL DEF Spec
<1> QED BY <1>1, CountedRequests, PTL

=============================================================================
