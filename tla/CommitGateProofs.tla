-------------------------- MODULE CommitGateProofs --------------------------
(***************************************************************************)
(* The commit gate for any buffer size, any holdback window and any number *)
(* of frames: its types, that a failed checkpoint closes it, that an       *)
(* attempt discarded by a buffered gate stays silent, the write-ahead rule *)
(* of a gate without a holdback window, and the order of the frames.       *)
(***************************************************************************)
EXTENDS CommitGate, TLAPS

\* The part of the types that the calls' common endings set.
TypeHeld ==
  /\ buffered \in BOOLEAN /\ holdbackMax \in Nat
  /\ checkpointed \in None..Terminal /\ durable \in None..Terminal
  /\ committed \in BOOLEAN /\ discarded \in BOOLEAN /\ blocked \in BOOLEAN
  /\ buffer \in Seq(Frame) /\ Len(buffer) <= MaxBuffer
  /\ Passing => buffer = <<>>
  /\ held \in 0..holdbackMax
  /\ window \in {"unopened", "open", "elapsed"}
  /\ aged \in BOOLEAN /\ first \in BOOLEAN /\ over \in BOOLEAN /\ gone \in BOOLEAN
  /\ op \in [at : {"idle", "hook", "wire"}, call : {"none", "write", "flush", "finish", "commit"},
            rank : None..Terminal, out : Seq(Frame)]
  /\ wire \in Seq(Frame)

\* The part that they leave to the calls.
TypeCall ==
  /\ state \in None..Terminal /\ finished \in BOOLEAN /\ sent \in 0..MaxFrames + 1
  /\ ~finished => sent <= MaxFrames

\* A failed checkpoint leaves no call under way.
BlockedIdle == blocked => op.at = "idle"

IInv == TypeHeld /\ TypeCall /\ BlockedIdle

LEMMA IInvType == IInv => TypeOK
  BY DEF IInv, TypeHeld, TypeCall, TypeOK

LEMMA RankType == \A c : Rank(c) \in None..Terminal
  BY DEF Rank, None, Metadata, Content, ToolCall, Terminal

LEMMA HigherType == \A a, b \in None..Terminal : Higher(a, b) \in None..Terminal
  BY DEF Higher, None, Terminal

LEMMA IdleType ==
  Idle \in [at : {"idle", "hook", "wire"}, call : {"none", "write", "flush", "finish", "commit"},
            rank : None..Terminal, out : Seq(Frame)]
  BY DEF Idle, None, Terminal

LEMMA InitIInv == Init => IInv
  <1> SUFFICES ASSUME Init PROVE IInv
    OBVIOUS
  <1>1. <<>> \in Seq(Frame) /\ Len(<<>>) = 0
    OBVIOUS
  <1>2. 0 \in None..Terminal /\ 0 <= MaxBuffer /\ 0 \in 0..holdbackMax /\ 0 \in 0..MaxFrames + 1 /\ 0 <= MaxFrames
    BY GateAssumption DEF Init, None, Terminal
  <1>3. TypeHeld
    BY <1>1, <1>2, IdleType, GateAssumption DEF Init, TypeHeld, None
  <1>4. TypeCall
    BY <1>2 DEF Init, TypeCall, None
  <1>5. BlockedIdle
    BY DEF Init, BlockedIdle
  <1> QED
    BY <1>3, <1>4, <1>5 DEF IInv

-----------------------------------------------------------------------------
\* The common endings keep the types.

LEMMA FailType ==
  ASSUME IInv, Fail PROVE TypeHeld' /\ BlockedIdle'
  BY IdleType DEF Fail, IInv, TypeHeld, BlockedIdle, Passing, bufVars, Idle

LEMMA AppendType ==
  ASSUME IInv, ~Passing, NEW f \in Frame, NEW h \in 0..holdbackMax,
         NEW w \in {"unopened", "open", "elapsed"}, appendBufferedLocked(f, h, w)
  PROVE  TypeHeld' /\ BlockedIdle'
  <1>1. CASE BufferFull
    BY <1>1, FailType DEF appendBufferedLocked
  <1>2. CASE ~BufferFull
    <2>1. Append1(f, h, w)
      BY <1>2 DEF appendBufferedLocked
    <2>2. Len(buffer') <= MaxBuffer /\ buffer' \in Seq(Frame)
      BY <1>2, <2>1, GateAssumption DEF Append1, BufferFull, IInv, TypeHeld
    <2> QED
      BY <2>1, <2>2, IdleType DEF Append1, IInv, TypeHeld, BlockedIdle, Passing, Idle
  <1> QED BY <1>1, <1>2

LEMMA UnlockedType ==
  ASSUME IInv, ~blocked, NEW frames \in Seq(Frame), NEW commit \in BOOLEAN, Unlocked(frames, commit)
  PROVE  TypeHeld' /\ BlockedIdle'
  BY GateAssumption DEF Unlocked, IInv, TypeHeld, BlockedIdle, Passing, None, Terminal

LEMMA RunHookType ==
  ASSUME IInv, ~blocked, NEW call \in {"write", "flush", "finish", "commit"}, NEW r \in None..Terminal,
         NEW f \in Seq(Frame), RunHook(call, r, f)
  PROVE  TypeHeld' /\ BlockedIdle'
  BY DEF RunHook, IInv, TypeHeld, BlockedIdle, Passing, bufVars

LEMMA TransmitType ==
  ASSUME IInv, NEW frames \in Seq(Frame), NEW trigger, Transmit(frames, trigger)
  PROVE  wire' \in Seq(Frame) /\ gone' \in BOOLEAN /\ over' \in BOOLEAN /\ first' \in BOOLEAN
  <1>1. PICK n \in 0..Len(frames) :
          /\ wire' = wire \o SubSeq(frames, 1, n)
          /\ gone' = (gone \/ n < Len(frames))
          /\ over' = (over \/ n < Len(frames))
          /\ first' = (first \/ (n = Len(frames) /\ MarksFirst(trigger)))
    BY DEF Transmit
  <1>2. SubSeq(frames, 1, n) \in Seq(Frame)
    OBVIOUS
  <1>3. wire' \in Seq(Frame)
    BY <1>1, <1>2 DEF IInv, TypeHeld
  <1> QED BY <1>1, <1>3

LEMMA WriteLockedType ==
  ASSUME IInv, ~blocked, NEW frames \in Seq(Frame), NEW trigger, WriteLocked(frames, trigger),
         checkpointed' \in None..Terminal, durable' \in None..Terminal, blocked' = blocked
  PROVE  TypeHeld' /\ BlockedIdle'
  <1>1. wire' \in Seq(Frame) /\ gone' \in BOOLEAN /\ over' \in BOOLEAN /\ first' \in BOOLEAN
    BY TransmitType DEF WriteLocked
  <1>2. committed' \in BOOLEAN
    BY DEF WriteLocked
  <1> QED
    BY <1>1, <1>2, IdleType, GateAssumption DEF WriteLocked, IInv, TypeHeld, BlockedIdle, Passing, Idle

-----------------------------------------------------------------------------
\* Every step keeps the types and BlockedIdle.

LEMMA NewFrame ==
  ASSUME IInv, ~finished, NEW c \in FrameClass, NEW w \in BOOLEAN
  PROVE  [id |-> sent + 1, class |-> c, whole |-> w] \in Frame
  BY GateAssumption DEF IInv, TypeCall, Frame

LEMMA ProceedType ==
  ASSUME IInv, ~blocked, NEW f \in Frame, Proceed(f) PROVE TypeHeld' /\ BlockedIdle'
  <1>1. CASE Passing
    <2>1. <<f>> \in Seq(Frame)
      OBVIOUS
    <2> QED BY <1>1, <2>1, UnlockedType DEF Proceed, IInv, TypeHeld
  <1>2. CASE ~Passing /\ isSemanticClass(f.class)
    <2>1. Append(buffer, f) \in Seq(Frame)
      BY DEF IInv, TypeHeld
    <2> QED BY <1>2, <2>1, UnlockedType DEF Proceed
  <1>3. CASE ~Passing /\ ~isSemanticClass(f.class)
    BY <1>3, AppendType DEF Proceed, IInv, TypeHeld
  <1> QED BY <1>1, <1>2, <1>3

LEMMA WriteFrameStep ==
  ASSUME IInv, NEW c \in FrameClass, WriteFrame(c) PROVE IInv'
  <1> DEFINE f == [id |-> sent + 1, class |-> c, whole |-> TRUE]
  <1>0. f \in Frame /\ f.class = c /\ <<f>> \in Seq(Frame)
    <2>1. f \in Frame
      BY NewFrame, TRUE \in BOOLEAN DEF WriteFrame
    <2>2. f.class = c
      OBVIOUS
    <2> HIDE DEF f
    <2> QED BY <2>1, <2>2
  <1>1. sent < MaxFrames /\ ~finished /\ finished' = finished
    BY DEF WriteFrame
  <1> HIDE DEF f
  <1>2. CASE Refused /\ Fail /\ UNCHANGED <<state, sent>>
    BY <1>1, <1>2, FailType DEF IInv, TypeCall
  <1>3. CASE /\ ~Refused /\ c = "keepalive"
             /\ IF Queues THEN appendBufferedLocked(f, held, window) ELSE Unlocked(<<f>>, committed)
             /\ Accept(Queues) /\ UNCHANGED state
    <2>1. TypeHeld' /\ BlockedIdle'
      BY <1>0, <1>3, AppendType, UnlockedType DEF Refused, Queues, Passing, IInv, TypeHeld
    <2>2. TypeCall'
      BY <1>1, <1>3, GateAssumption DEF Accept, IInv, TypeCall
    <2> QED BY <2>1, <2>2 DEF IInv
  <1>4. CASE /\ ~Refused /\ Holds(c)
             /\ appendBufferedLocked(f, held + 1, Opened(c))
             /\ Accept(TRUE) /\ UNCHANGED state
    <2>1. Opened(c) \in {"unopened", "open", "elapsed"} /\ held + 1 \in 0..holdbackMax /\ ~Passing
      BY <1>4, GateAssumption DEF Opened, Holds, IInv, TypeHeld, Passing
    <2>2. TypeHeld' /\ BlockedIdle'
      BY <1>0, <1>4, <2>1, AppendType
    <2>3. TypeCall'
      BY <1>1, <1>4, GateAssumption DEF Accept, IInv, TypeCall
    <2> QED BY <2>2, <2>3 DEF IInv
  <1>5. CASE /\ ~Refused
             /\ state' = Higher(state, Rank(c))
             /\ IF NeedsHook(c) THEN RunHook("write", Rank(c), <<f>>) ELSE Proceed(f)
             /\ Accept(~Passing /\ ~isSemanticClass(c))
    <2>1. TypeHeld' /\ BlockedIdle'
      BY <1>0, <1>5, RunHookType, ProceedType, RankType DEF Refused
    <2>2. TypeCall'
      <3>1. state \in None..Terminal /\ sent \in 0..MaxFrames + 1
        BY DEF IInv, TypeCall
      <3>2. state' \in None..Terminal
        BY <1>5, <3>1, RankType, HigherType
      <3>3. sent' \in {sent, sent + 1}
        BY <1>5 DEF Accept
      <3> QED BY <1>1, <3>1, <3>2, <3>3, GateAssumption DEF TypeCall, IInv
    <2> QED BY <2>1, <2>2 DEF IInv
  <1> QED BY <1>2, <1>3, <1>4, <1>5 DEF WriteFrame, f

LEMMA FlushHookType ==
  ASSUME IInv, ~blocked, flushHoldbackLocked
  PROVE  TypeHeld' /\ BlockedIdle' /\ state' \in None..Terminal
  <1>1. Content \in None..Terminal /\ <<>> \in Seq(Frame)
    BY DEF Content, None, Terminal
  <1> QED BY <1>1, RunHookType DEF flushHoldbackLocked

LEMMA FlushHoldbackStep ==
  ASSUME IInv, FlushHoldback PROVE IInv'
  BY FlushHookType DEF FlushHoldback, IInv, TypeCall

LEMMA WireDoneStep ==
  ASSUME IInv, WireDone PROVE IInv'
  <1>1. op.out \in Seq(Frame)
    BY DEF IInv, TypeHeld
  <1>2. wire' \in Seq(Frame) /\ gone' \in BOOLEAN /\ over' \in BOOLEAN /\ first' \in BOOLEAN
    BY <1>1, TransmitType DEF WireDone
  <1> QED
    BY <1>2, IdleType DEF WireDone, gateVars, bufVars, IInv, TypeHeld, TypeCall, BlockedIdle, Passing, Idle

LEMMA FinishAttemptStep ==
  ASSUME IInv, NEW p \in {"none", "partial", "terminal"}, NEW c \in FrameClass, FinishAttempt(p, c) PROVE IInv'
  <1> DEFINE f == [id |-> sent + 1, class |-> c, whole |-> p = "terminal"]
  <1>0. f \in Frame /\ <<f>> \in Seq(Frame)
    <2>1. f \in Frame
      BY NewFrame, (p = "terminal") \in BOOLEAN DEF FinishAttempt
    <2> HIDE DEF f
    <2> QED BY <2>1
  <1>1. ~finished /\ finished' = TRUE
    BY DEF FinishAttempt
  <1> HIDE DEF f
  <1>2. CASE Refused /\ Fail /\ UNCHANGED <<state, sent>>
    BY <1>1, <1>2, FailType DEF IInv, TypeCall
  <1>3. CASE /\ ~Refused
             /\ IF ~Passing /\ CanFlush THEN flushHoldbackLocked
                ELSE /\ op' = Idle
                     /\ UNCHANGED <<gateVars, bufVars, first, over, wire, durable, gone>>
             /\ UNCHANGED sent
    <2>1. CASE flushHoldbackLocked
      BY <1>1, <1>3, <2>1, FlushHookType DEF Refused, IInv, TypeCall
    <2>2. CASE /\ op' = Idle
               /\ UNCHANGED <<gateVars, bufVars, first, over, wire, durable, gone>>
      BY <1>1, <1>3, <2>2, IdleType DEF gateVars, bufVars, IInv, TypeHeld, TypeCall, BlockedIdle, Passing, Idle
    <2> QED BY <1>3, <2>1, <2>2
  <1>4. CASE /\ ~Refused /\ p = "partial"
             /\ IF Passing
                THEN /\ WriteLocked(<<f>>, <<f>>)
                     /\ UNCHANGED <<checkpointed, blocked, durable>>
                ELSE appendBufferedLocked(f, held, window)
             /\ Accept(~Passing) /\ UNCHANGED state
    <2>1. TypeHeld' /\ BlockedIdle'
      BY <1>0, <1>4, WriteLockedType, AppendType DEF Refused, IInv, TypeHeld
    <2>2. TypeCall'
      BY <1>1, <1>4, GateAssumption DEF Accept, IInv, TypeCall
    <2> QED BY <2>1, <2>2 DEF IInv
  <1>5. CASE /\ ~Refused /\ p = "terminal"
             /\ state' = Higher(state, Rank(c))
             /\ IF Rank(c) > state THEN RunHook("finish", Rank(c), <<f>>)
                ELSE /\ WriteLocked(Append(buffer, f), <<f>>)
                     /\ UNCHANGED <<checkpointed, blocked, durable>>
             /\ sent' = sent + 1
    <2>0. Append(buffer, f) \in Seq(Frame) /\ Rank(c) \in None..Terminal
      BY <1>0, <1>5, RankType DEF IInv, TypeHeld
    <2>1. TypeHeld' /\ BlockedIdle'
      BY <1>0, <1>5, <2>0, WriteLockedType, RunHookType DEF Refused, IInv, TypeHeld
    <2>2. TypeCall'
      BY <1>1, <1>5, <2>0, HigherType, GateAssumption DEF IInv, TypeCall
    <2> QED BY <2>1, <2>2 DEF IInv
  <1> QED BY <1>2, <1>3, <1>4, <1>5 DEF FinishAttempt, f

LEMMA GateCommitStep ==
  ASSUME IInv, Commit PROVE IInv'
  <1>1. CASE RunHook("commit", state, <<>>)
    <2>1. state \in None..Terminal /\ <<>> \in Seq(Frame)
      BY DEF IInv, TypeCall
    <2> QED BY <1>1, <2>1, RunHookType DEF Commit, IInv, TypeCall
  <1>2. CASE WriteLocked(buffer, <<>>) /\ UNCHANGED <<checkpointed, blocked, durable>>
    BY <1>2, WriteLockedType DEF Commit, IInv, TypeHeld, TypeCall
  <1> QED BY <1>1, <1>2 DEF Commit

LEMMA HookOkStep ==
  ASSUME IInv, HookOk PROVE IInv'
  <1>1. op.rank \in None..Terminal /\ op.out \in Seq(Frame) /\ ~blocked
    BY DEF HookOk, IInv, TypeHeld, BlockedIdle
  <1>2. durable' \in None..Terminal /\ checkpointed' \in None..Terminal /\ blocked' = blocked
    BY <1>1, HigherType DEF HookOk, IInv, TypeHeld
  <1>3. buffer \o op.out \in Seq(Frame)
    BY <1>1 DEF IInv, TypeHeld
  <1>4. TypeCall'
    BY DEF HookOk, IInv, TypeCall
  <1>5. CASE op.call # "write" /\ WriteLocked(buffer \o op.out, op.out)
    BY <1>1, <1>2, <1>3, <1>4, <1>5, WriteLockedType DEF IInv
  <1>6. CASE op.call = "write" /\ Passing
    <2>1. /\ op' = [at |-> "wire", call |-> "write", rank |-> None, out |-> op.out]
          /\ UNCHANGED <<buffered, holdbackMax, committed, buffer, discarded, held, window, aged, first, over, wire, gone>>
      BY <1>6 DEF HookOk
    <2>2. None \in None..Terminal
      BY DEF None, Terminal
    <2> QED BY <1>1, <1>2, <1>4, <2>1, <2>2 DEF IInv, TypeHeld, BlockedIdle, Passing
  <1>7. CASE op.call = "write" /\ ~Passing
    <2>1. /\ op' = [at |-> "wire", call |-> "write", rank |-> None, out |-> buffer \o op.out]
          /\ committed' = TRUE /\ buffer' = <<>>
          /\ UNCHANGED <<buffered, holdbackMax, discarded, held, window, aged, first, over, wire, gone>>
      BY <1>7 DEF HookOk
    <2>2. None \in None..Terminal
      BY DEF None, Terminal
    <2> QED BY <1>1, <1>2, <1>3, <1>4, <2>1, <2>2, GateAssumption DEF IInv, TypeHeld, BlockedIdle, Passing
  <1> QED BY <1>5, <1>6, <1>7 DEF HookOk

LEMMA HookLostStep ==
  ASSUME IInv, HookFails \/ HookDiscarded PROVE IInv'
  <1>1. op.rank \in None..Terminal
    BY DEF IInv, TypeHeld
  <1>2. durable' \in None..Terminal
    BY <1>1, HigherType DEF HookFails, HookDiscarded, IInv, TypeHeld
  <1>3. CASE HookFails
    BY <1>2, <1>3, IdleType DEF HookFails, Latches, bufVars, IInv, TypeHeld, TypeCall, BlockedIdle, Passing, Idle
  <1>4. CASE HookDiscarded
    BY <1>2, <1>4, IdleType DEF HookDiscarded, gateVars, bufVars, IInv, TypeHeld, TypeCall, BlockedIdle, Passing, Idle
  <1> QED BY <1>3, <1>4

LEMMA DiscardStep ==
  ASSUME IInv, Discard PROVE IInv'
  <1>1. None \in None..Terminal /\ <<>> \in Seq(Frame) /\ Len(<<>>) = 0
    BY DEF None, Terminal
  <1>2. TypeHeld'
    <2>1. buffer' = <<>> /\ aged' = FALSE /\ discarded' = TRUE /\ blocked' = FALSE
      BY DEF Discard
    <2>2. Len(buffer') <= MaxBuffer /\ buffer' \in Seq(Frame)
      BY <1>1, <2>1, GateAssumption
    <2> QED BY <2>1, <2>2 DEF Discard, IInv, TypeHeld
  <1>3. TypeCall'
    BY <1>1 DEF Discard, IInv, TypeCall
  <1> QED BY <1>2, <1>3 DEF Discard, IInv, BlockedIdle

LEMMA ClockStep ==
  ASSUME IInv, Elapse \/ Age PROVE IInv'
  <1>1. CASE Elapse
    BY <1>1 DEF Elapse, gateVars, IInv, TypeHeld, TypeCall, BlockedIdle, Passing
  <1>2. CASE Age
    BY <1>2 DEF Age, gateVars, IInv, TypeHeld, TypeCall, BlockedIdle, Passing
  <1> QED BY <1>1, <1>2

LEMMA StutterStep ==
  ASSUME IInv, UNCHANGED vars PROVE IInv'
  BY DEF vars, gateVars, bufVars, IInv, TypeHeld, TypeCall, BlockedIdle, Passing

LEMMA NextIInv == IInv /\ [Next]_vars => IInv'
  BY WriteFrameStep, WireDoneStep, FlushHoldbackStep, FinishAttemptStep, GateCommitStep, HookOkStep,
     HookLostStep, DiscardStep, ClockStep, StutterStep DEF Next

LEMMA GateInvariance == Spec => []IInv
  BY InitIInv, NextIInv, PTL DEF Spec

\* Types of the gate for every size of its buffer and window: the buffer keeps
\* to its cap, and a gate that passes frames through holds none.
THEOREM GateTypes == Spec => []TypeOK
  BY GateInvariance, IInvType, PTL

\* Nothing reaches the client once a checkpoint has failed, whichever call
\* comes next and whatever was under way.
THEOREM GateFailsClosed == Spec => FailClosed
  <1>1. IInv /\ [Next]_vars => [blocked => wire' = wire]_vars
    <2> SUFFICES ASSUME IInv, Next, blocked PROVE wire' = wire
      BY DEF vars
    <2>1. op.at = "idle"
      BY DEF IInv, BlockedIdle
    <2> QED
      BY <2>1 DEF Next, WriteFrame, WireDone, FlushHoldback, FinishAttempt, Commit, HookOk, HookFails,
         HookDiscarded, Discard, Elapse, Age, Refused, Fail
  <1> QED BY <1>1, GateInvariance, PTL DEF Spec, FailClosed

-----------------------------------------------------------------------------
\* The silence of a discarded attempt.

AllKeep(s) == \A i \in 1..Len(s) : s[i].class = "keepalive"

\* Nothing but keepalives leaves a gate that is not committed; a hook other
\* than Commit's has taken the gate past the state that Discard accepts.
Unseen ==
  /\ discarded => ~committed
  /\ ~committed => AllKeep(wire)
  /\ (~committed /\ op.at = "wire") => AllKeep(op.out)
  /\ (op.at = "hook" /\ op.call # "commit") => (~discarded /\ (committed \/ state >= Content))

LEMMA KeepJoin ==
  ASSUME NEW s \in Seq(Frame), NEW t \in Seq(Frame), AllKeep(s), AllKeep(t), NEW n \in 0..Len(t)
  PROVE  AllKeep(s \o SubSeq(t, 1, n))
  <1>1. SubSeq(t, 1, n) \in Seq(Frame) /\ Len(SubSeq(t, 1, n)) = n
    OBVIOUS
  <1>2. \A i \in 1..n : SubSeq(t, 1, n)[i] = t[i]
    OBVIOUS
  <1> DEFINE u == SubSeq(t, 1, n)
  <1> HIDE DEF u
  <1>3. u \in Seq(Frame) /\ Len(u) = n /\ \A i \in 1..n : u[i].class = "keepalive"
    BY <1>1, <1>2 DEF u, AllKeep
  <1>4. AllKeep(s \o u)
    BY <1>3 DEF AllKeep
  <1> QED BY <1>4 DEF u

LEMMA UnseenInit == buffered /\ Init => Unseen
  <1>1. AllKeep(<<>>)
    BY DEF AllKeep
  <1> QED BY <1>1 DEF Init, Unseen, Idle

LEMMA UnseenKept ==
  ASSUME Unseen, op' = Idle, wire' = wire, committed' = committed, discarded' = discarded
  PROVE  Unseen'
  BY DEF Unseen, Idle

LEMMA UnseenCommitted ==
  ASSUME ~discarded, committed' = TRUE, discarded' = discarded, op'.at # "hook"
  PROVE  Unseen'
  BY DEF Unseen

LEMMA UnseenFail == ASSUME Unseen, Fail PROVE Unseen'
  BY UnseenKept DEF Fail

LEMMA UnseenAppend == ASSUME Unseen, NEW f, NEW h, NEW w, appendBufferedLocked(f, h, w) PROVE Unseen'
  BY UnseenKept, UnseenFail DEF appendBufferedLocked, Append1

LEMMA UnseenHook ==
  ASSUME Unseen, ~discarded, NEW call, NEW r, NEW f, RunHook(call, r, f),
         call = "commit" \/ committed \/ state' >= Content
  PROVE  Unseen'
  BY DEF Unseen, RunHook

LEMMA UnseenWriteFrame ==
  ASSUME buffered, IInv, Unseen, NEW c \in FrameClass, WriteFrame(c) PROVE Unseen'
  <1> DEFINE f == [id |-> sent + 1, class |-> c, whole |-> TRUE]
  <1>0. f.class = c /\ (c = "keepalive" => AllKeep(<<f>>))
    BY DEF AllKeep
  <1> HIDE DEF f
  <1>1. CASE Refused /\ Fail /\ UNCHANGED <<state, sent>>
    BY <1>1, UnseenFail
  <1>2. CASE /\ ~Refused /\ c = "keepalive"
             /\ IF Queues THEN appendBufferedLocked(f, held, window) ELSE Unlocked(<<f>>, committed)
             /\ UNCHANGED state
    <2>1. CASE appendBufferedLocked(f, held, window)
      BY <2>1, UnseenAppend
    <2>2. CASE Unlocked(<<f>>, committed)
      BY <1>0, <1>2, <2>2 DEF Unlocked, Unseen
    <2> QED BY <1>2, <2>1, <2>2
  <1>3. CASE appendBufferedLocked(f, held + 1, Opened(c))
    BY <1>3, UnseenAppend
  <1>4. CASE /\ ~Refused
             /\ state' = Higher(state, Rank(c))
             /\ IF NeedsHook(c) THEN RunHook("write", Rank(c), <<f>>) ELSE Proceed(f)
    <2>1. ~discarded /\ state \in None..Terminal
      BY <1>4 DEF Refused, IInv, TypeCall
    <2>2. CASE NeedsHook(c)
      <3>1. committed \/ state' >= Content
        BY <1>4, <2>1, <2>2 DEF NeedsHook, Passing, isSemanticClass, Rank, Higher, None, Metadata, Content,
           ToolCall, Terminal
      <3> QED BY <1>4, <2>1, <2>2, <3>1, UnseenHook
    <2>3. CASE Proceed(f) /\ Passing
      BY <2>1, <2>3, UnseenCommitted DEF Proceed, Passing, Unlocked
    <2>4. CASE Proceed(f) /\ ~Passing
      <3>1. CASE Unlocked(Append(buffer, f), TRUE)
        BY <2>1, <3>1, UnseenCommitted DEF Unlocked
      <3>2. CASE appendBufferedLocked(f, held, window)
        BY <3>2, UnseenAppend
      <3> QED BY <2>4, <3>1, <3>2 DEF Proceed
    <2> QED BY <1>4, <2>2, <2>3, <2>4
  <1> QED BY <1>1, <1>2, <1>3, <1>4 DEF WriteFrame, f

LEMMA UnseenWireDone == ASSUME IInv, Unseen, WireDone PROVE Unseen'
  <1>1. PICK n \in 0..Len(op.out) : wire' = wire \o SubSeq(op.out, 1, n)
    BY DEF WireDone, Transmit
  <1>2. ASSUME ~committed PROVE AllKeep(wire')
    <2>1. wire \in Seq(Frame) /\ op.out \in Seq(Frame)
      BY DEF IInv, TypeHeld
    <2>2. AllKeep(wire) /\ AllKeep(op.out)
      BY <1>2 DEF Unseen, WireDone
    <2> QED BY <1>1, <2>1, <2>2, KeepJoin
  <1> QED BY <1>2 DEF WireDone, gateVars, Unseen, Idle

LEMMA UnseenWriteLocked ==
  ASSUME buffered, ~discarded, NEW frames, NEW trigger, WriteLocked(frames, trigger) PROVE Unseen'
  BY UnseenCommitted DEF WriteLocked, Passing, Idle

LEMMA UnseenFlush == ASSUME Unseen, ~discarded, flushHoldbackLocked PROVE Unseen'
  BY UnseenHook DEF flushHoldbackLocked, Content

LEMMA UnseenFinishAttempt ==
  ASSUME buffered, IInv, Unseen, NEW p, NEW c \in FrameClass, FinishAttempt(p, c) PROVE Unseen'
  <1> DEFINE f == [id |-> sent + 1, class |-> c, whole |-> p = "terminal"]
  <1> HIDE DEF f
  <1>1. CASE Refused /\ Fail
    BY <1>1, UnseenFail
  <1>2. CASE /\ ~Refused
             /\ IF ~Passing /\ CanFlush THEN flushHoldbackLocked
                ELSE /\ op' = Idle
                     /\ UNCHANGED <<gateVars, bufVars, first, over, wire, durable, gone>>
    BY <1>2, UnseenFlush, UnseenKept DEF Refused, gateVars
  <1>3. CASE ~Refused /\ WriteLocked(<<f>>, <<f>>)
    BY <1>3, UnseenWriteLocked DEF Refused
  <1>4. CASE appendBufferedLocked(f, held, window)
    BY <1>4, UnseenAppend
  <1>5. CASE /\ ~Refused /\ c \in TerminalLine
             /\ state' = Higher(state, Rank(c))
             /\ RunHook("finish", Rank(c), <<f>>)
    <2>1. state' >= Content
      BY <1>5 DEF TerminalLine, Rank, Higher, Terminal, Content, IInv, TypeCall, None
    <2> QED BY <1>5, <2>1, UnseenHook DEF Refused
  <1>6. CASE ~Refused /\ WriteLocked(Append(buffer, f), <<f>>)
    BY <1>6, UnseenWriteLocked DEF Refused
  <1> QED BY <1>1, <1>2, <1>3, <1>4, <1>5, <1>6 DEF FinishAttempt, f

LEMMA UnseenHookOk == ASSUME buffered, IInv, Unseen, HookOk PROVE Unseen'
  <1>1. ~discarded
    BY DEF HookOk, LostToDiscard, Unseen
  <1>2. CASE op.call # "write" /\ WriteLocked(buffer \o op.out, op.out)
    BY <1>1, <1>2, UnseenWriteLocked
  <1>3. CASE op.call = "write"
    <2>1. committed' = TRUE /\ discarded' = discarded /\ op'.at # "hook"
      BY <1>3 DEF HookOk, Passing, IInv, TypeHeld
    <2> QED BY <1>1, <2>1, UnseenCommitted
  <1> QED BY <1>2, <1>3 DEF HookOk

LEMMA UnseenNext == buffered /\ IInv /\ Unseen /\ [Next]_vars => Unseen'
  <1> SUFFICES ASSUME buffered, IInv, Unseen, [Next]_vars PROVE Unseen'
    OBVIOUS
  <1>1. CASE FlushHoldback
    BY <1>1, UnseenFlush DEF FlushHoldback, CanFlush
  <1>2. CASE Commit
    <2>1. CASE RunHook("commit", state, <<>>)
      BY <1>2, <2>1, UnseenHook DEF Commit
    <2>2. CASE WriteLocked(buffer, <<>>)
      BY <1>2, <2>2, UnseenWriteLocked DEF Commit
    <2> QED BY <1>2, <2>1, <2>2 DEF Commit
  <1>3. CASE HookFails \/ HookDiscarded
    BY <1>3, UnseenKept DEF HookFails, HookDiscarded, gateVars
  <1>4. CASE Discard
    BY <1>4 DEF Discard, Discardable, Unseen, IInv, TypeCall, None, Content, Terminal
  <1>5. CASE Elapse \/ Age \/ UNCHANGED vars
    <2>1. UNCHANGED <<discarded, committed, wire, op, state>>
      BY <1>5 DEF Elapse, Age, vars, gateVars
    <2> QED BY <2>1 DEF Unseen
  <1> QED
    BY <1>1, <1>2, <1>3, <1>4, <1>5, UnseenWriteFrame, UnseenWireDone, UnseenFinishAttempt, UnseenHookOk DEF Next

\* The settings of a gate are fixed when it is built.
LEMMA SettingsFixed == [Next]_vars => buffered' = buffered /\ holdbackMax' = holdbackMax
  <1> SUFFICES ASSUME [Next]_vars PROVE buffered' = buffered /\ holdbackMax' = holdbackMax
    OBVIOUS
  <1>1. ASSUME Fail PROVE buffered' = buffered /\ holdbackMax' = holdbackMax
    BY <1>1 DEF Fail, bufVars
  <1>2. ASSUME NEW f, NEW h, NEW w, appendBufferedLocked(f, h, w)
        PROVE  buffered' = buffered /\ holdbackMax' = holdbackMax
    BY <1>1, <1>2 DEF appendBufferedLocked, Append1
  <1>3. ASSUME NEW g, NEW commit, Unlocked(g, commit) PROVE buffered' = buffered /\ holdbackMax' = holdbackMax
    BY <1>3 DEF Unlocked
  <1>4. ASSUME NEW call, NEW r, NEW g, RunHook(call, r, g) PROVE buffered' = buffered /\ holdbackMax' = holdbackMax
    BY <1>4 DEF RunHook, bufVars
  <1>5. ASSUME NEW g, NEW t, WriteLocked(g, t) PROVE buffered' = buffered /\ holdbackMax' = holdbackMax
    BY <1>5 DEF WriteLocked
  <1>6. ASSUME NEW c \in FrameClass, WriteFrame(c) PROVE buffered' = buffered /\ holdbackMax' = holdbackMax
    BY <1>1, <1>2, <1>3, <1>4, <1>6 DEF WriteFrame, Proceed
  <1>7. ASSUME NEW p \in {"none", "partial", "terminal"}, NEW c \in FrameClass, FinishAttempt(p, c)
        PROVE  buffered' = buffered /\ holdbackMax' = holdbackMax
    BY <1>1, <1>2, <1>4, <1>5, <1>7 DEF FinishAttempt, flushHoldbackLocked, bufVars
  <1>8. CASE FlushHoldback \/ Commit
    BY <1>4, <1>5, <1>8 DEF FlushHoldback, flushHoldbackLocked, Commit
  <1>9. CASE HookOk
    BY <1>5, <1>9 DEF HookOk
  <1>10. CASE WireDone \/ HookFails \/ HookDiscarded \/ Discard \/ Elapse \/ Age \/ UNCHANGED vars
    BY <1>10 DEF WireDone, HookFails, HookDiscarded, Discard, Elapse, Age, vars, bufVars
  <1> QED BY <1>6, <1>7, <1>8, <1>9, <1>10 DEF Next

\* An attempt that a buffered gate discards has shown the client nothing but
\* keepalives and is never committed, whatever call Discard came between.
THEOREM DiscardSilent == Spec => []DiscardedIsSilent
  <1> DEFINE Inv == buffered => Unseen
  <1>1. Inv => DiscardedIsSilent
    BY DEF Unseen, DiscardedIsSilent, AllKeep
  <1>2. Init => Inv
    BY UnseenInit
  <1>3. IInv /\ Inv /\ [Next]_vars => Inv'
    BY UnseenNext, SettingsFixed
  <1> HIDE DEF Inv
  <1> QED BY <1>1, <1>2, <1>3, GateInvariance, PTL DEF Spec

-----------------------------------------------------------------------------
\* The write-ahead rule of a gate without a holdback window.

RanksUpTo(s, r) == \A i \in 1..Len(s) : Owed(s[i]) <= r

\* A state is in the store before its bytes leave: a gate that passes frames
\* through has its whole state there, unless a hook is under way or failed; a
\* gate that holds frames back holds metadata and no state beyond it.
Ahead ==
  /\ window = "unopened"
  /\ checkpointed <= durable
  /\ RanksUpTo(wire, durable)
  /\ op.at = "wire" => RanksUpTo(op.out, durable)
  /\ op.at = "hook" => (op.rank >= state /\ RanksUpTo(op.out, op.rank))
  /\ RanksUpTo(buffer, state)
  /\ discarded => state = None
  /\ (op.at # "hook" /\ ~blocked) => (IF Passing THEN state <= durable ELSE state <= Metadata)

\* What the endings of a call need of the call.
AheadCall ==
  /\ window = "unopened"
  /\ checkpointed <= durable
  /\ RanksUpTo(wire, durable)
  /\ RanksUpTo(buffer, state)
  /\ ~discarded /\ ~blocked

LEMMA RankNat == \A c : Rank(c) \in Nat
  BY DEF Rank, None, Metadata, Content, ToolCall, Terminal

LEMMA OwedNat == \A f : Owed(f) \in Nat
  BY RankNat DEF Owed, None

LEMMA RanksGrow ==
  ASSUME NEW s \in Seq(Frame), NEW a \in Nat, NEW b \in Nat, a <= b, RanksUpTo(s, a) PROVE RanksUpTo(s, b)
  BY OwedNat DEF RanksUpTo

LEMMA RanksJoin ==
  ASSUME NEW s \in Seq(Frame), NEW t \in Seq(Frame), NEW r \in Nat, RanksUpTo(s, r), RanksUpTo(t, r)
  PROVE  RanksUpTo(s \o t, r)
  <1> DEFINE R(x) == Owed(x)
  <1>1. \A i \in 1..Len(s) : R(s[i]) <= r
    BY DEF RanksUpTo
  <1>2. \A i \in 1..Len(t) : R(t[i]) <= r
    BY DEF RanksUpTo
  <1> HIDE DEF R
  <1>3. \A i \in 1..Len(s \o t) : R((s \o t)[i]) <= r
    BY <1>1, <1>2
  <1> QED BY <1>3 DEF RanksUpTo, R

LEMMA RanksPrefix ==
  ASSUME NEW t \in Seq(Frame), NEW r \in Nat, RanksUpTo(t, r), NEW n \in 0..Len(t)
  PROVE  RanksUpTo(SubSeq(t, 1, n), r)
  <1>1. Len(SubSeq(t, 1, n)) = n /\ \A i \in 1..n : SubSeq(t, 1, n)[i] = t[i]
    OBVIOUS
  <1> DEFINE u == SubSeq(t, 1, n)
  <1> HIDE DEF u
  <1>2. Len(u) = n /\ \A i \in 1..n : u[i] = t[i]
    BY <1>1 DEF u
  <1>3. RanksUpTo(u, r)
    BY <1>2 DEF RanksUpTo
  <1> QED BY <1>3 DEF u

LEMMA RanksOne == ASSUME NEW f \in Frame, NEW r \in Nat, Owed(f) <= r PROVE RanksUpTo(<<f>>, r)
  BY DEF RanksUpTo

LEMMA RanksEmpty == ASSUME NEW r \in Nat PROVE RanksUpTo(<<>>, r)
  BY DEF RanksUpTo

LEMMA RanksAppend ==
  ASSUME NEW s \in Seq(Frame), NEW f \in Frame, NEW r \in Nat, RanksUpTo(s, r), Owed(f) <= r
  PROVE  RanksUpTo(Append(s, f), r)
  <1> DEFINE R(x) == Owed(x)
  <1>1. (\A i \in 1..Len(s) : R(s[i]) <= r) /\ R(f) <= r
    BY DEF RanksUpTo
  <1> HIDE DEF R
  <1>2. \A i \in 1..Len(Append(s, f)) : R(Append(s, f)[i]) <= r
    BY <1>1
  <1> QED BY <1>2 DEF RanksUpTo, R

\* What a transmission delivers.
LEMMA AheadTransmit ==
  ASSUME IInv, NEW frames \in Seq(Frame), NEW trigger, Transmit(frames, trigger), NEW r \in Nat,
         RanksUpTo(wire, r), RanksUpTo(frames, r)
  PROVE  RanksUpTo(wire', r)
  <1>1. PICK n \in 0..Len(frames) : wire' = wire \o SubSeq(frames, 1, n)
    BY DEF Transmit
  <1>2. SubSeq(frames, 1, n) \in Seq(Frame) /\ wire \in Seq(Frame)
    BY DEF IInv, TypeHeld
  <1> QED BY <1>1, <1>2, RanksPrefix, RanksJoin

LEMMA GateNats == IInv => /\ state \in Nat /\ durable \in Nat /\ checkpointed \in Nat /\ op.rank \in Nat
                          /\ buffer \in Seq(Frame) /\ wire \in Seq(Frame) /\ op.out \in Seq(Frame)
  BY DEF IInv, TypeHeld, TypeCall, None, Terminal

-----------------------------------------------------------------------------
\* The endings of a call; state' is what the call made of the state.

LEMMA AheadFail ==
  ASSUME IInv, Ahead, Fail, op = Idle, blocked \/ discarded, state' = state PROVE Ahead'
  BY DEF Ahead, Fail, Idle, bufVars, Passing

LEMMA AheadAppend ==
  ASSUME IInv, AheadCall, ~Passing, NEW f \in Frame, NEW h, appendBufferedLocked(f, h, window),
         state' \in Nat, state <= state', state' <= Metadata, Owed(f) <= state'
  PROVE  Ahead'
  <1>1. RanksUpTo(buffer, state')
    BY GateNats, RanksGrow DEF AheadCall
  <1>2. CASE BufferFull
    BY <1>1, <1>2 DEF appendBufferedLocked, Fail, AheadCall, Ahead, bufVars, Idle, Passing
  <1>3. CASE ~BufferFull
    <2>1. Append1(f, h, window)
      BY <1>3 DEF appendBufferedLocked
    <2>2. RanksUpTo(buffer', state')
      BY <1>1, <2>1, GateNats, RanksAppend DEF Append1
    <2> QED BY <2>1, <2>2 DEF Append1, AheadCall, Ahead, Idle, Passing
  <1> QED BY <1>2, <1>3

LEMMA AheadUnlocked ==
  ASSUME IInv, AheadCall, NEW frames \in Seq(Frame), NEW commit, Unlocked(frames, commit), commit = committed,
         RanksUpTo(frames, durable), state' \in Nat, IF Passing THEN state' <= durable ELSE state' <= Metadata
  PROVE  Ahead'
  <1>1. RanksUpTo(<<>>, state')
    BY RanksEmpty
  <1> QED BY <1>1 DEF Unlocked, AheadCall, Ahead, Passing

LEMMA AheadHook ==
  ASSUME IInv, AheadCall, NEW call, NEW r \in Nat, NEW f \in Seq(Frame), RunHook(call, r, f),
         state' \in Nat, state <= state', state' <= r, RanksUpTo(f, r)
  PROVE  Ahead'
  <1>1. RanksUpTo(buffer, state')
    BY GateNats, RanksGrow DEF AheadCall
  <1> QED BY <1>1 DEF RunHook, AheadCall, Ahead, bufVars

LEMMA AheadLocked ==
  ASSUME IInv, AheadCall, NEW frames \in Seq(Frame), NEW trigger, WriteLocked(frames, trigger),
         blocked' = blocked, durable' \in Nat, durable <= durable', checkpointed' <= durable',
         RanksUpTo(frames, durable'), state' \in Nat, state' <= durable'
  PROVE  Ahead'
  <1>1. RanksUpTo(wire, durable')
    BY GateNats, RanksGrow DEF AheadCall
  <1>2. RanksUpTo(wire', durable')
    BY <1>1, AheadTransmit DEF WriteLocked
  <1>3. RanksUpTo(<<>>, state')
    BY RanksEmpty
  <1>4. Passing'
    BY DEF WriteLocked, Passing
  <1> QED BY <1>2, <1>3, <1>4 DEF WriteLocked, AheadCall, Ahead, Idle

-----------------------------------------------------------------------------
\* Every step keeps Ahead.

LEMMA AheadInit == Init => Ahead
  <1>1. RanksUpTo(<<>>, None)
    BY RanksEmpty DEF None
  <1> QED BY <1>1 DEF Init, Ahead, Idle, None, Metadata

\* What a call that is not refused starts from.
LEMMA AheadStart ==
  ASSUME IInv, Ahead, op = Idle, ~blocked, ~discarded
  PROVE  AheadCall /\ (IF Passing THEN state <= durable ELSE state <= Metadata)
  BY DEF Ahead, AheadCall, Idle

LEMMA AheadWriteFrame ==
  ASSUME holdbackMax = 0, IInv, Ahead, NEW c \in FrameClass, WriteFrame(c) PROVE Ahead'
  <1> DEFINE f == [id |-> sent + 1, class |-> c, whole |-> TRUE]
  <1>0. f \in Frame /\ f.class = c /\ Owed(f) = Rank(c) /\ <<f>> \in Seq(Frame)
    <2>1. f \in Frame
      BY NewFrame, TRUE \in BOOLEAN DEF WriteFrame
    <2>2. f.class = c /\ f.whole
      OBVIOUS
    <2> HIDE DEF f
    <2> QED BY <2>1, <2>2 DEF Owed
  <1> HIDE DEF f
  <1>1. op = Idle /\ state \in Nat /\ durable \in Nat /\ Rank(c) \in Nat
    BY GateNats, RankNat DEF WriteFrame
  <1>2. CASE Refused /\ Fail /\ UNCHANGED <<state, sent>>
    BY <1>1, <1>2, AheadFail DEF Refused
  <1>3. ASSUME ~Refused
        PROVE  AheadCall /\ (IF Passing THEN state <= durable ELSE state <= Metadata)
    BY <1>1, <1>3, AheadStart DEF Refused
  <1>4. CASE /\ ~Refused /\ c = "keepalive"
             /\ IF Queues THEN appendBufferedLocked(f, held, window) ELSE Unlocked(<<f>>, committed)
             /\ UNCHANGED state
    <2>1. Owed(f) = 0
      BY <1>0, <1>4 DEF Rank, None
    <2>2. CASE Queues /\ appendBufferedLocked(f, held, window)
      <3>1. ~Passing
        BY <2>2 DEF Queues, Passing
      <3> QED BY <1>0, <1>1, <1>3, <1>4, <2>1, <2>2, <3>1, AheadAppend
    <2>3. CASE Unlocked(<<f>>, committed)
      <3>1. RanksUpTo(<<f>>, durable)
        BY <1>0, <1>1, <2>1, RanksOne
      <3> QED BY <1>0, <1>1, <1>3, <1>4, <2>3, <3>1, AheadUnlocked
    <2> QED BY <1>4, <2>2, <2>3
  <1>5. CASE /\ ~Refused
             /\ state' = Higher(state, Rank(c))
             /\ IF NeedsHook(c) THEN RunHook("write", Rank(c), <<f>>) ELSE Proceed(f)
    <2>1. state' \in Nat /\ state <= state' /\ Rank(c) <= state'
      BY <1>1, <1>5 DEF Higher
    <2>2. CASE NeedsHook(c)
      <3>1. state' <= Rank(c)
        BY <1>1, <1>5, <2>2 DEF NeedsHook, Higher
      <3>2. RanksUpTo(<<f>>, Rank(c))
        BY <1>0, <1>1, RanksOne
      <3> QED BY <1>0, <1>1, <1>3, <1>5, <2>1, <2>2, <3>1, <3>2, AheadHook
    <2>3. CASE ~NeedsHook(c) /\ Passing
      <3>1. Rank(c) <= state /\ state' = state
        BY <1>1, <1>5, <2>3 DEF NeedsHook, Higher
      <3>2. RanksUpTo(<<f>>, durable)
        BY <1>0, <1>1, <1>3, <1>5, <2>3, <3>1, RanksOne
      <3> QED BY <1>0, <1>1, <1>3, <1>5, <2>3, <3>1, <3>2, AheadUnlocked DEF Proceed
    <2>4. CASE ~NeedsHook(c) /\ ~Passing
      <3>1. state <= Metadata
        BY <1>3, <1>5, <2>4
      <3>2. ~isSemanticClass(c)
        BY <1>1, <2>4, <3>1 DEF NeedsHook, isSemanticClass, Rank, Metadata, Content, ToolCall, Terminal
      <3>3. Rank(c) <= Metadata
        BY <3>2 DEF isSemanticClass, Rank, None, Metadata, FrameClass
      <3>4. state' <= Metadata
        BY <1>1, <1>5, <3>1, <3>3 DEF Higher
      <3> QED BY <1>0, <1>3, <1>5, <2>1, <2>4, <3>2, <3>4, AheadAppend DEF Proceed
    <2> QED BY <2>2, <2>3, <2>4
  <1>6. ~Holds(c)
    BY DEF Holds
  <1> QED BY <1>2, <1>4, <1>5, <1>6 DEF WriteFrame, f

LEMMA AheadWireDone == ASSUME IInv, Ahead, WireDone PROVE Ahead'
  <1>1. RanksUpTo(wire', durable)
    BY GateNats, AheadTransmit DEF WireDone, Ahead
  <1> QED BY <1>1 DEF WireDone, gateVars, bufVars, Ahead, Idle, Passing

LEMMA AheadFinishAttempt ==
  ASSUME IInv, Ahead, NEW p \in {"none", "partial", "terminal"}, NEW c \in FrameClass, FinishAttempt(p, c) PROVE Ahead'
  <1> DEFINE f == [id |-> sent + 1, class |-> c, whole |-> p = "terminal"]
  <1>0. /\ f \in Frame /\ <<f>> \in Seq(Frame)
        /\ Owed(f) = IF p = "terminal" THEN Rank(c) ELSE 0
    <2>1. f \in Frame
      BY NewFrame, (p = "terminal") \in BOOLEAN DEF FinishAttempt
    <2>2. f.class = c /\ (f.whole <=> p = "terminal")
      OBVIOUS
    <2> HIDE DEF f
    <2> QED BY <2>1, <2>2 DEF Owed, None
  <1> HIDE DEF f
  <1>1. op = Idle /\ state \in Nat /\ durable \in Nat /\ checkpointed \in Nat /\ Rank(c) \in Nat
    BY GateNats, RankNat DEF FinishAttempt
  <1>2. CASE Refused /\ Fail /\ UNCHANGED <<state, sent>>
    BY <1>1, <1>2, AheadFail DEF Refused
  <1>3. ASSUME ~Refused
        PROVE  AheadCall /\ (IF Passing THEN state <= durable ELSE state <= Metadata)
    BY <1>1, <1>3, AheadStart DEF Refused
  <1>4. CASE /\ ~Refused
             /\ IF ~Passing /\ CanFlush THEN flushHoldbackLocked
                ELSE /\ op' = Idle
                     /\ UNCHANGED <<gateVars, bufVars, first, over, wire, durable, gone>>
    <2>1. ~CanFlush
      BY DEF CanFlush, Ahead
    <2>2. UNCHANGED <<buffered, state, committed, discarded, checkpointed, blocked, buffer, window, wire, durable, op>>
      BY <1>1, <1>4, <2>1 DEF gateVars, bufVars
    <2> QED BY <2>2 DEF Ahead, Passing
  <1>5. CASE /\ ~Refused /\ p = "partial" /\ Passing
             /\ WriteLocked(<<f>>, <<f>>)
             /\ UNCHANGED <<checkpointed, blocked, durable, state>>
    <2>1. RanksUpTo(<<f>>, durable)
      BY <1>0, <1>1, <1>5, RanksOne
    <2>2. AheadCall /\ state <= durable /\ checkpointed <= durable
      BY <1>3, <1>5 DEF AheadCall
    <2>3. <<f>> \in Seq(Frame) /\ durable <= durable
      BY <1>0, <1>1, <1>5
    <2> QED BY <1>1, <1>5, <2>1, <2>2, <2>3, AheadLocked
  <1>6. CASE /\ ~Refused /\ p = "partial" /\ ~Passing
             /\ appendBufferedLocked(f, held, window) /\ UNCHANGED state
    <2>1. Owed(f) = 0
      BY <1>0, <1>6
    <2> QED BY <1>0, <1>1, <1>3, <1>6, <2>1, AheadAppend
  <1>7. CASE /\ ~Refused /\ p = "terminal" /\ Rank(c) > state
             /\ state' = Higher(state, Rank(c)) /\ RunHook("finish", Rank(c), <<f>>)
    <2>1. state' = Rank(c)
      BY <1>1, <1>7 DEF Higher
    <2>2. RanksUpTo(<<f>>, Rank(c))
      BY <1>0, <1>1, <1>7, RanksOne
    <2>3. AheadCall /\ <<f>> \in Seq(Frame) /\ state <= state' /\ state' <= Rank(c)
      BY <1>0, <1>1, <1>3, <1>7, <2>1
    <2> QED BY <1>1, <1>7, <2>1, <2>2, <2>3, AheadHook
  <1>8. CASE /\ ~Refused /\ p = "terminal" /\ c \in TerminalLine /\ ~(Rank(c) > state)
             /\ state' = Higher(state, Rank(c)) /\ WriteLocked(Append(buffer, f), <<f>>)
             /\ UNCHANGED <<checkpointed, blocked, durable>>
    <2>1. state' = state /\ Rank(c) <= state
      BY <1>1, <1>8 DEF Higher
    <2>2. Passing
      <3>1. Rank(c) > Metadata
        BY <1>8 DEF TerminalLine, Rank, Content, Terminal, Metadata
      <3> QED BY <1>1, <1>3, <1>8, <2>1, <3>1 DEF Metadata
    <2>3. buffer = <<>> /\ buffer \in Seq(Frame)
      BY <2>2 DEF IInv, TypeHeld
    <2>4. Append(buffer, f) \in Seq(Frame)
      BY <1>0, <1>8, <2>3
    <2>5. Owed(f) <= durable
      BY <1>0, <1>1, <1>3, <1>8, <2>1, <2>2
    <2>6. RanksUpTo(Append(buffer, f), durable)
      BY <1>0, <1>1, <1>8, <2>3, <2>5, RanksEmpty, RanksAppend
    <2>7. AheadCall /\ state <= durable /\ checkpointed <= durable /\ durable <= durable
      BY <1>1, <1>3, <1>8, <2>2 DEF AheadCall
    <2> QED BY <1>1, <1>8, <2>1, <2>4, <2>6, <2>7, AheadLocked
  <1> QED BY <1>2, <1>4, <1>5, <1>6, <1>7, <1>8 DEF FinishAttempt, f

LEMMA AheadCommit == ASSUME IInv, Ahead, Commit PROVE Ahead'
  <1>1. AheadCall
    BY AheadStart DEF Commit
  <1>2. state \in Nat /\ durable \in Nat /\ checkpointed \in Nat /\ state' = state /\ <<>> \in Seq(Frame)
    BY GateNats DEF Commit
  <1>3. CASE RunHook("commit", state, <<>>)
    <2>1. RanksUpTo(<<>>, state) /\ state <= state
      BY <1>2, RanksEmpty
    <2> QED BY <1>1, <1>2, <1>3, <2>1, AheadHook
  <1>4. CASE /\ ~(state > checkpointed) /\ WriteLocked(buffer, <<>>)
             /\ UNCHANGED <<checkpointed, blocked, durable>>
    <2>1. state <= durable
      BY <1>1, <1>2, <1>4 DEF AheadCall
    <2>2. RanksUpTo(buffer, durable)
      BY <1>1, <1>2, <2>1, GateNats, RanksGrow DEF AheadCall
    <2> QED BY <1>1, <1>2, <1>4, <2>1, <2>2, GateNats, AheadLocked DEF AheadCall
  <1> QED BY <1>3, <1>4 DEF Commit

LEMMA AheadHookOk == ASSUME IInv, Ahead, HookOk PROVE Ahead'
  <1>1. /\ op.at = "hook" /\ state' = state /\ blocked' = blocked
        /\ durable' = Higher(durable, op.rank) /\ checkpointed' = Higher(checkpointed, op.rank)
    BY DEF HookOk
  <1>2. /\ durable' \in Nat /\ durable <= durable' /\ op.rank <= durable' /\ checkpointed' <= durable'
        /\ state <= op.rank /\ state \in Nat
    BY <1>1, GateNats DEF Higher, Ahead
  <1>3. RanksUpTo(op.out, durable') /\ RanksUpTo(buffer, durable') /\ RanksUpTo(wire, durable')
    BY <1>1, <1>2, GateNats, RanksGrow DEF Ahead
  <1>4. RanksUpTo(buffer \o op.out, durable') /\ buffer \o op.out \in Seq(Frame)
    BY <1>2, <1>3, GateNats, RanksJoin
  <1>5. RanksUpTo(<<>>, state')
    BY <1>1, <1>2, RanksEmpty
  <1>6. CASE op.call = "write" /\ Passing
    <2>1. /\ op' = [at |-> "wire", call |-> "write", rank |-> None, out |-> op.out]
          /\ UNCHANGED <<buffered, holdbackMax, committed, buffer, discarded, window, wire>>
      BY <1>6 DEF HookOk
    <2>2. RanksUpTo(buffer', state') /\ RanksUpTo(op'.out, durable') /\ op'.at = "wire"
      BY <1>1, <1>3, <2>1 DEF Ahead
    <2>3. state' <= durable' /\ Passing'
      BY <1>1, <1>2, <1>6, <2>1, GateNats DEF Passing
    <2> QED BY <1>1, <1>2, <1>3, <2>1, <2>2, <2>3 DEF Ahead
  <1>7. CASE op.call = "write" /\ ~Passing
    <2>1. /\ op' = [at |-> "wire", call |-> "write", rank |-> None, out |-> buffer \o op.out]
          /\ committed' = TRUE /\ buffer' = <<>>
          /\ UNCHANGED <<buffered, discarded, window, wire>>
      BY <1>7 DEF HookOk
    <2>2. RanksUpTo(buffer', state') /\ RanksUpTo(op'.out, durable') /\ op'.at = "wire"
      BY <1>4, <1>5, <2>1
    <2>3. state' <= durable' /\ Passing'
      BY <1>1, <1>2, <2>1, GateNats DEF Passing
    <2> QED BY <1>1, <1>2, <1>3, <2>1, <2>2, <2>3 DEF Ahead
  <1>8. CASE op.call # "write" /\ WriteLocked(buffer \o op.out, op.out)
    <2>1. RanksUpTo(wire', durable')
      BY <1>2, <1>3, <1>4, <1>8, AheadTransmit DEF WriteLocked
    <2>2. Passing'
      BY <1>8 DEF WriteLocked, Passing
    <2>3. window' = window /\ discarded' = discarded /\ buffer' = <<>> /\ op' = Idle
      BY <1>8 DEF WriteLocked
    <2>4. state' <= durable' /\ op'.at = "idle" /\ RanksUpTo(buffer', state')
      BY <1>1, <1>2, <1>5, <2>3, GateNats DEF Idle
    <2> QED BY <1>1, <1>2, <2>1, <2>2, <2>3, <2>4 DEF Ahead
  <1> QED BY <1>6, <1>7, <1>8 DEF HookOk

LEMMA AheadHookLost == ASSUME IInv, Ahead, HookFails \/ HookDiscarded PROVE Ahead'
  <1>1. /\ durable' \in {durable, Higher(durable, op.rank)} /\ op' = Idle
        /\ UNCHANGED <<buffered, state, committed, discarded, checkpointed, buffer, window, wire>>
    BY DEF HookFails, HookDiscarded, gateVars, bufVars
  <1>2. durable' \in Nat /\ durable <= durable'
    BY <1>1, GateNats DEF Higher
  <1>3. RanksUpTo(wire', durable')
    BY <1>1, <1>2, GateNats, RanksGrow DEF Ahead
  <1>4. blocked' \/ state = None
    BY DEF HookFails, Latches, HookDiscarded, LostToDiscard, Ahead
  <1>5. checkpointed' <= durable'
    BY <1>1, <1>2, GateNats DEF Ahead
  <1> QED BY <1>1, <1>2, <1>3, <1>4, <1>5 DEF Ahead, Idle, None, Metadata

LEMMA AheadDiscard == ASSUME IInv, Ahead, Discard PROVE Ahead'
  <1>1. RanksUpTo(<<>>, None) /\ None \in Nat
    BY RanksEmpty DEF None
  <1>2. op.rank >= None /\ None <= durable /\ None <= Metadata
    BY GateNats DEF None, Metadata
  <1> QED BY <1>1, <1>2 DEF Discard, Ahead, Passing

LEMMA AheadNext == holdbackMax = 0 /\ IInv /\ Ahead /\ [Next]_vars => Ahead'
  <1> SUFFICES ASSUME holdbackMax = 0, IInv, Ahead, [Next]_vars PROVE Ahead'
    OBVIOUS
  <1>1. ~FlushHoldback /\ ~Elapse
    BY DEF FlushHoldback, CanFlush, Elapse, Ahead
  <1>2. CASE Age
    BY <1>2 DEF Age, gateVars, Ahead, Passing
  <1>3. CASE UNCHANGED vars
    BY <1>3 DEF vars, gateVars, bufVars, Ahead, Passing
  <1> QED
    BY <1>1, <1>2, <1>3, AheadWriteFrame, AheadWireDone, AheadFinishAttempt, AheadCommit, AheadHookOk,
       AheadHookLost, AheadDiscard DEF Next

\* Without a holdback window the client never has a frame of a commit state
\* that the durable store does not have, in both modes of the gate and with
\* Discard, failed hooks and broken connections at any point.
THEOREM GateWriteAhead == Spec => []WriteAhead
  <1> DEFINE Inv == holdbackMax = 0 => Ahead
  <1>1. Inv => WriteAhead
    BY DEF Ahead, WriteAhead, RanksUpTo
  <1>2. Init => Inv
    BY AheadInit
  <1>3. IInv /\ Inv /\ [Next]_vars => Inv'
    BY AheadNext, SettingsFixed
  <1> HIDE DEF Inv
  <1> QED BY <1>1, <1>2, <1>3, GateInvariance, PTL DEF Spec

-----------------------------------------------------------------------------
\* The order of the frames.

\* The frames of s are numbered one after the other from k + 1.
From(s, k) == \A i \in 1..Len(s) : s[i].id = k + i

\* What the client has is numbered from 1; what a call has under way goes on
\* where the client's frames end, after the buffer if the call waits for its
\* hook; and unless frames were given up none is missing.
Line ==
  /\ From(wire, 0)
  /\ op.at = "idle" => op.out = <<>>
  /\ op.at = "wire" => buffer = <<>>
  /\ (op.at = "wire" /\ ~gone) => From(op.out, Len(wire))
  /\ (op.at = "hook" /\ ~LostToDiscard /\ ~gone) =>
       From(buffer, Len(wire)) /\ From(op.out, Len(wire) + Len(buffer))
  /\ (~discarded /\ ~blocked /\ ~gone) =>
       From(buffer, Len(wire)) /\ Len(wire) + Len(buffer) + Len(op.out) = sent

\* What a call that is not refused starts from.
LineStart ==
  /\ From(wire, 0)
  /\ ~gone => From(buffer, Len(wire)) /\ Len(wire) + Len(buffer) = sent

LEMMA FromEmpty == \A k : From(<<>>, k)
  BY DEF From

LEMMA FromJoin ==
  ASSUME NEW s \in Seq(Frame), NEW t \in Seq(Frame), NEW k \in Nat, From(s, k), From(t, k + Len(s))
  PROVE  From(s \o t, k) /\ s \o t \in Seq(Frame) /\ Len(s \o t) = Len(s) + Len(t)
  <1>1. s \o t \in Seq(Frame) /\ Len(s \o t) = Len(s) + Len(t) /\ Len(s) \in Nat /\ Len(t) \in Nat
    OBVIOUS
  <1>2. ASSUME NEW i \in 1..Len(s \o t) PROVE (s \o t)[i].id = k + i
    <2>1. CASE i <= Len(s)
      <3>1. (s \o t)[i] = s[i] /\ i \in 1..Len(s)
        BY <1>1, <2>1
      <3> QED BY <3>1 DEF From
    <2>2. CASE i > Len(s)
      <3>1. (s \o t)[i] = t[i - Len(s)] /\ i - Len(s) \in 1..Len(t)
        BY <1>1, <2>2
      <3>2. t[i - Len(s)].id = (k + Len(s)) + (i - Len(s))
        BY <3>1 DEF From
      <3> QED BY <1>1, <3>1, <3>2
    <2> QED BY <1>1, <2>1, <2>2
  <1> QED BY <1>1, <1>2 DEF From

LEMMA FromPrefix ==
  ASSUME NEW t \in Seq(Frame), NEW k \in Nat, From(t, k), NEW n \in 0..Len(t)
  PROVE  From(SubSeq(t, 1, n), k) /\ SubSeq(t, 1, n) \in Seq(Frame) /\ Len(SubSeq(t, 1, n)) = n
  <1>1. SubSeq(t, 1, n) \in Seq(Frame) /\ Len(SubSeq(t, 1, n)) = n
    OBVIOUS
  <1>2. \A i \in 1..n : SubSeq(t, 1, n)[i] = t[i] /\ i \in 1..Len(t)
    OBVIOUS
  <1> QED BY <1>1, <1>2 DEF From

LEMMA FromAppend ==
  ASSUME NEW s \in Seq(Frame), NEW f \in Frame, NEW k \in Nat, From(s, k), f.id = k + Len(s) + 1
  PROVE  From(Append(s, f), k) /\ Len(Append(s, f)) = Len(s) + 1
  <1>1. Len(Append(s, f)) = Len(s) + 1 /\ Len(s) \in Nat
    OBVIOUS
  <1>2. ASSUME NEW i \in 1..Len(s) + 1 PROVE Append(s, f)[i].id = k + i
    <2>1. CASE i = Len(s) + 1
      <3>1. Append(s, f)[i] = f
        BY <2>1
      <3> QED BY <1>1, <2>1, <3>1
    <2>2. CASE i \in 1..Len(s)
      <3>1. Append(s, f)[i] = s[i]
        BY <2>2
      <3> QED BY <2>2, <3>1 DEF From
    <2> QED BY <1>1, <2>1, <2>2
  <1> QED BY <1>1, <1>2 DEF From

LEMMA FromOne ==
  ASSUME NEW f \in Frame, NEW k \in Nat, f.id = k + 1
  PROVE  From(<<f>>, k) /\ Len(<<f>>) = 1 /\ <<f>> \in Seq(Frame)
  BY DEF From

\* The client receives a prefix of frames that go on where it is.
LEMMA LineTransmit ==
  ASSUME IInv, From(wire, 0), NEW frames \in Seq(Frame), ~gone => From(frames, Len(wire)),
         NEW trigger, Transmit(frames, trigger)
  PROVE  From(wire', 0) /\ (~gone' => ~gone /\ Len(wire') = Len(wire) + Len(frames))
  <1>1. PICK n \in 0..Len(frames) :
          /\ gone => n = 0
          /\ wire' = wire \o SubSeq(frames, 1, n)
          /\ gone' = (gone \/ n < Len(frames))
    BY DEF Transmit
  <1>5. (gone => gone') /\ (n < Len(frames) => gone')
    BY <1>1, Zenon
  <1>2. wire \in Seq(Frame) /\ Len(wire) \in Nat /\ gone \in BOOLEAN /\ Len(frames) \in Nat
    BY DEF IInv, TypeHeld
  <1>3. CASE gone
    <2>1. SubSeq(frames, 1, 0) = <<>>
      OBVIOUS
    <2>2. wire' = wire /\ gone'
      BY <1>1, <1>5, <1>2, <1>3, <2>1
    <2> QED BY <2>2
  <1>4. CASE ~gone
    <2>1. From(SubSeq(frames, 1, n), 0 + Len(wire)) /\ SubSeq(frames, 1, n) \in Seq(Frame) /\ Len(SubSeq(frames, 1, n)) = n
      BY <1>2, <1>4, FromPrefix
    <2>2. From(wire', 0) /\ Len(wire') = Len(wire) + n
      BY <1>1, <1>2, <2>1, FromJoin
    <2>3. ~gone' => n = Len(frames)
      BY <1>5, <1>2
    <2> QED BY <1>4, <2>2, <2>3
  <1> QED BY <1>3, <1>4

-----------------------------------------------------------------------------
\* The endings of a call.

LEMMA LineFail == ASSUME Line, op = Idle, Fail, sent' = sent PROVE Line'
  BY DEF Line, Fail, Idle, bufVars

LEMMA LineAppend ==
  ASSUME IInv, Line, op = Idle, LineStart, NEW f \in Frame, f.id = sent + 1, NEW h, NEW w,
         appendBufferedLocked(f, h, w), Accept(TRUE)
  PROVE  Line'
  <1>1. CASE BufferFull
    BY <1>1, LineFail DEF appendBufferedLocked, Accept
  <1>2. CASE ~BufferFull
    <2>1. Append1(f, h, w) /\ sent' = sent + 1
      BY <1>2 DEF appendBufferedLocked, Accept
    <2>2. buffer \in Seq(Frame) /\ wire \in Seq(Frame) /\ Len(wire) \in Nat /\ Len(buffer) \in Nat /\ sent \in Nat
      BY DEF IInv, TypeHeld, TypeCall
    <2>3. ASSUME ~gone PROVE From(buffer', Len(wire)) /\ Len(wire) + Len(buffer') = sent'
      <3>1. From(buffer, Len(wire)) /\ f.id = Len(wire) + Len(buffer) + 1 /\ Len(wire) + Len(buffer) = sent
        BY <2>3 DEF LineStart
      <3>2. From(Append(buffer, f), Len(wire)) /\ Len(Append(buffer, f)) = Len(buffer) + 1
        BY <2>2, <3>1, FromAppend
      <3> QED BY <2>1, <2>2, <3>1, <3>2 DEF Append1
    <2>4. op'.at = "idle" /\ op'.out = <<>> /\ wire' = wire /\ gone' = gone /\ Len(<<>>) = 0
      BY <2>1 DEF Append1, Idle
    <2>5. buffer' \in Seq(Frame) /\ Len(buffer') \in Nat
      BY <2>1, <2>2 DEF Append1
    <2>6. ~gone' => From(buffer', Len(wire')) /\ Len(wire') + Len(buffer') + Len(op'.out) = sent'
      BY <2>2, <2>3, <2>4, <2>5
    <2> QED BY <2>4, <2>6 DEF Line, LineStart
  <1> QED BY <1>1, <1>2

LEMMA LineUnlocked ==
  ASSUME IInv, LineStart, NEW frames \in Seq(Frame), NEW commit, Unlocked(frames, commit),
         ~gone => From(frames, Len(wire)) /\ Len(wire) + Len(frames) = sent'
  PROVE  Line'
  <1>1. /\ op'.at = "wire" /\ op'.out = frames /\ buffer' = <<>> /\ wire' = wire /\ gone' = gone
        /\ discarded' = discarded /\ blocked' = blocked
    BY DEF Unlocked
  <1>2. From(<<>>, Len(wire)) /\ Len(<<>>) = 0 /\ Len(wire) \in Nat /\ Len(frames) \in Nat
    BY FromEmpty DEF IInv, TypeHeld
  <1>3. ~gone' => Len(wire') + Len(buffer') + Len(op'.out) = sent' /\ From(buffer', Len(wire')) /\ From(op'.out, Len(wire'))
    BY <1>1, <1>2
  <1> QED BY <1>1, <1>3 DEF Line, LineStart

LEMMA LineHook ==
  ASSUME IInv, LineStart, NEW call, NEW r, NEW f \in Seq(Frame), RunHook(call, r, f),
         From(f, sent), sent' = sent + Len(f)
  PROVE  Line'
  <1>1. /\ op'.at = "hook" /\ op'.out = f /\ buffer' = buffer /\ wire' = wire /\ gone' = gone
        /\ discarded' = discarded /\ blocked' = blocked
    BY DEF RunHook, bufVars
  <1>2. Len(wire) \in Nat /\ Len(buffer) \in Nat /\ Len(f) \in Nat
    BY DEF IInv, TypeHeld
  <1>3. ~gone' => /\ Len(wire') + Len(buffer') + Len(op'.out) = sent'
                  /\ From(buffer', Len(wire')) /\ From(op'.out, Len(wire') + Len(buffer'))
    BY <1>1, <1>2 DEF LineStart
  <1> QED BY <1>1, <1>3 DEF Line, LineStart

LEMMA LineLocked ==
  ASSUME IInv, From(wire, 0), NEW frames \in Seq(Frame), NEW trigger, WriteLocked(frames, trigger), blocked' = blocked,
         ~gone => From(frames, Len(wire)),
         (~gone /\ ~discarded /\ ~blocked) => Len(wire) + Len(frames) = sent'
  PROVE  Line'
  <1>1. From(wire', 0) /\ (~gone' => ~gone /\ Len(wire') = Len(wire) + Len(frames))
    BY LineTransmit DEF WriteLocked
  <1>2. op'.at = "idle" /\ op'.out = <<>> /\ buffer' = <<>> /\ discarded' = discarded /\ Len(<<>>) = 0
    BY DEF WriteLocked, Idle
  <1>3. Len(wire) \in Nat /\ Len(frames) \in Nat /\ From(<<>>, Len(wire'))
    BY FromEmpty DEF IInv, TypeHeld
  <1>4. (~discarded' /\ ~blocked' /\ ~gone') => From(buffer', Len(wire')) /\ Len(wire') + Len(buffer') + Len(op'.out) = sent'
    BY <1>1, <1>2, <1>3
  <1> QED BY <1>1, <1>2, <1>4 DEF Line

-----------------------------------------------------------------------------
\* Every step keeps Line.

LEMMA LineInit == Init => Line
  <1>1. From(<<>>, 0) /\ Len(<<>>) = 0
    BY FromEmpty
  <1> QED BY <1>1 DEF Init, Line, Idle

LEMMA LineStarts == ASSUME IInv, Line, op = Idle, ~blocked, ~discarded PROVE LineStart
  <1>1. Len(op.out) = 0 /\ Len(wire) \in Nat /\ Len(buffer) \in Nat
    BY DEF Idle, IInv, TypeHeld
  <1> QED BY <1>1 DEF Line, LineStart

\* A frame the call writes at once: nothing is held back before it.
LEMMA LineThrough ==
  ASSUME IInv, LineStart, buffer = <<>>, NEW f \in Frame, f.id = sent + 1
  PROVE  /\ <<f>> \in Seq(Frame)
         /\ ~gone => From(<<f>>, Len(wire)) /\ Len(wire) + Len(<<f>>) = sent + 1
  <1>1. Len(buffer) = 0 /\ Len(wire) \in Nat
    BY DEF IInv, TypeHeld
  <1>2. ~gone => Len(wire) = sent
    BY <1>1 DEF LineStart
  <1>3. <<f>> \in Seq(Frame) /\ Len(<<f>>) = 1
    OBVIOUS
  <1> QED BY <1>1, <1>2, <1>3, FromOne

\* A frame that takes the buffer along.
LEMMA LineAfterBuffer ==
  ASSUME IInv, LineStart, NEW f \in Frame, f.id = sent + 1
  PROVE  /\ Append(buffer, f) \in Seq(Frame)
         /\ ~gone => From(Append(buffer, f), Len(wire)) /\ Len(wire) + Len(Append(buffer, f)) = sent + 1
  <1>1. buffer \in Seq(Frame) /\ Len(buffer) \in Nat /\ Len(wire) \in Nat
    BY DEF IInv, TypeHeld
  <1>2. ASSUME ~gone PROVE From(buffer, Len(wire)) /\ Len(wire) + Len(buffer) = sent
    BY <1>2 DEF LineStart
  <1>3. ASSUME ~gone PROVE From(Append(buffer, f), Len(wire)) /\ Len(Append(buffer, f)) = Len(buffer) + 1
    <2>1. f.id = Len(wire) + Len(buffer) + 1
      BY <1>2, <1>3
    <2> QED BY <1>1, <1>2, <1>3, <2>1, FromAppend
  <1> QED BY <1>1, <1>2, <1>3

LEMMA LineWriteFrame ==
  ASSUME IInv, Line, NEW c \in FrameClass, WriteFrame(c) PROVE Line'
  <1> DEFINE f == [id |-> sent + 1, class |-> c, whole |-> TRUE]
  <1>0. f \in Frame /\ f.class = c /\ f.id = sent + 1
    BY NewFrame DEF WriteFrame
  <1> HIDE DEF f
  <1>1. op = Idle /\ sent \in Nat
    BY DEF WriteFrame, IInv, TypeCall
  <1>2. CASE Refused /\ Fail /\ UNCHANGED <<state, sent>>
    BY <1>1, <1>2, LineFail
  <1>3. ASSUME ~Refused PROVE LineStart
    BY <1>1, <1>3, LineStarts DEF Refused
  <1>4. CASE /\ ~Refused /\ c = "keepalive"
             /\ IF Queues THEN appendBufferedLocked(f, held, window) ELSE Unlocked(<<f>>, committed)
             /\ Accept(Queues)
    <2>1. CASE Queues
      <3>1. Accept(TRUE)
        BY <1>4, <2>1 DEF Accept
      <3> QED BY <1>0, <1>1, <1>3, <1>4, <2>1, <3>1, LineAppend
    <2>2. CASE ~Queues
      <3>1. buffer = <<>> /\ sent' = sent + 1
        BY <1>4, <2>2 DEF Queues, Passing, Accept, IInv, TypeHeld
      <3> QED BY <1>0, <1>3, <1>4, <2>2, <3>1, LineThrough, LineUnlocked
    <2> QED BY <2>1, <2>2
  <1>5. CASE ~Refused /\ appendBufferedLocked(f, held + 1, Opened(c)) /\ Accept(TRUE)
    BY <1>0, <1>1, <1>3, <1>5, LineAppend
  <1>6. CASE /\ ~Refused
             /\ IF NeedsHook(c) THEN RunHook("write", Rank(c), <<f>>) ELSE Proceed(f)
             /\ Accept(~Passing /\ ~isSemanticClass(c))
    <2>1. CASE NeedsHook(c)
      <3>1. sent' = sent + 1
        BY <1>6, <2>1 DEF NeedsHook, Accept
      <3>2. From(<<f>>, sent) /\ Len(<<f>>) = 1 /\ <<f>> \in Seq(Frame)
        BY <1>0, <1>1, FromOne
      <3> QED BY <1>3, <1>6, <2>1, <3>1, <3>2, LineHook
    <2>2. CASE ~NeedsHook(c) /\ Passing
      <3>1. Unlocked(<<f>>, committed) /\ sent' = sent + 1 /\ buffer = <<>>
        BY <1>6, <2>2 DEF Proceed, Accept, IInv, TypeHeld
      <3> QED BY <1>0, <1>3, <1>6, <3>1, LineThrough, LineUnlocked
    <2>3. CASE ~NeedsHook(c) /\ ~Passing /\ isSemanticClass(c)
      <3>1. Unlocked(Append(buffer, f), TRUE) /\ sent' = sent + 1
        BY <1>0, <1>6, <2>3 DEF Proceed, Accept
      <3> QED BY <1>0, <1>3, <1>6, <3>1, LineAfterBuffer, LineUnlocked
    <2>4. CASE ~NeedsHook(c) /\ ~Passing /\ ~isSemanticClass(c)
      <3>1. appendBufferedLocked(f, held, window) /\ Accept(TRUE)
        BY <1>0, <1>6, <2>4 DEF Proceed, Accept
      <3> QED BY <1>0, <1>1, <1>3, <1>6, <3>1, LineAppend
    <2> QED BY <2>1, <2>2, <2>3, <2>4
  <1> QED BY <1>2, <1>4, <1>5, <1>6 DEF WriteFrame, f

LEMMA LineWireDone == ASSUME IInv, Line, WireDone PROVE Line'
  <1>1. /\ op.at = "wire" /\ op' = Idle /\ buffer = <<>> /\ op.out \in Seq(Frame)
        /\ UNCHANGED <<buffer, discarded, blocked, sent>>
    BY DEF WireDone, gateVars, bufVars, Line, IInv, TypeHeld
  <1>2. From(wire', 0) /\ (~gone' => ~gone /\ Len(wire') = Len(wire) + Len(op.out))
    BY <1>1, LineTransmit DEF WireDone, Line
  <1>3. From(<<>>, Len(wire')) /\ Len(<<>>) = 0 /\ Len(wire) \in Nat /\ Len(op.out) \in Nat
    BY <1>1, FromEmpty DEF IInv, TypeHeld
  <1>4. op'.at = "idle" /\ op'.out = <<>>
    BY <1>1 DEF Idle
  <1>5. (~discarded' /\ ~blocked' /\ ~gone') =>
          From(buffer', Len(wire')) /\ Len(wire') + Len(buffer') + Len(op'.out) = sent'
    BY <1>1, <1>2, <1>3, <1>4 DEF Line
  <1> QED BY <1>2, <1>4, <1>5 DEF Line

LEMMA LineFlush == ASSUME IInv, LineStart, flushHoldbackLocked, sent' = sent PROVE Line'
  <1>1. From(<<>>, sent) /\ Len(<<>>) = 0 /\ <<>> \in Seq(Frame) /\ sent \in Nat
    BY FromEmpty DEF IInv, TypeCall
  <1>2. sent' = sent + Len(<<>>)
    BY <1>1
  <1> QED BY <1>1, <1>2, LineHook DEF flushHoldbackLocked

LEMMA LineFinishAttempt ==
  ASSUME IInv, Line, NEW p \in {"none", "partial", "terminal"}, NEW c \in FrameClass, FinishAttempt(p, c) PROVE Line'
  <1> DEFINE f == [id |-> sent + 1, class |-> c, whole |-> p = "terminal"]
  <1>0. f \in Frame /\ f.id = sent + 1
    BY NewFrame DEF FinishAttempt
  <1> HIDE DEF f
  <1>1. op = Idle /\ sent \in Nat
    BY DEF FinishAttempt, IInv, TypeCall
  <1>2. CASE Refused /\ Fail /\ UNCHANGED <<state, sent>>
    BY <1>1, <1>2, LineFail
  <1>3. ASSUME ~Refused PROVE LineStart
    BY <1>1, <1>3, LineStarts DEF Refused
  <1>4. CASE ~Refused /\ flushHoldbackLocked /\ sent' = sent
    BY <1>3, <1>4, LineFlush
  <1>5. CASE op' = Idle /\ UNCHANGED <<gateVars, bufVars, first, over, wire, durable, gone>> /\ sent' = sent
    BY <1>1, <1>5 DEF Line, gateVars, bufVars, Idle
  <1>6. CASE /\ ~Refused /\ p = "partial" /\ Passing /\ WriteLocked(<<f>>, <<f>>)
             /\ blocked' = blocked /\ Accept(~Passing)
    <2>1. sent' = sent + 1 /\ buffer = <<>> /\ f \in Frame /\ f.id = sent + 1 /\ LineStart
      BY <1>0, <1>3, <1>6 DEF Accept, IInv, TypeHeld
    <2>2. <<f>> \in Seq(Frame) /\ (~gone => From(<<f>>, Len(wire)) /\ Len(wire) + Len(<<f>>) = sent')
      BY <2>1, LineThrough
    <2> QED BY <1>6, <2>1, <2>2, LineLocked DEF LineStart
  <1>7. CASE ~Refused /\ p = "partial" /\ ~Passing /\ appendBufferedLocked(f, held, window) /\ Accept(~Passing)
    <2>1. Accept(TRUE)
      BY <1>7 DEF Accept
    <2> QED BY <1>0, <1>1, <1>3, <1>7, <2>1, LineAppend
  <1>8. CASE ~Refused /\ p = "terminal" /\ RunHook("finish", Rank(c), <<f>>) /\ sent' = sent + 1
    <2>1. From(<<f>>, sent) /\ Len(<<f>>) = 1 /\ <<f>> \in Seq(Frame)
      BY <1>0, <1>1, <1>8, FromOne
    <2> QED BY <1>3, <1>8, <2>1, LineHook
  <1>9. CASE /\ ~Refused /\ p = "terminal" /\ WriteLocked(Append(buffer, f), <<f>>)
             /\ blocked' = blocked /\ sent' = sent + 1
    <2>1. /\ Append(buffer, f) \in Seq(Frame)
          /\ ~gone => From(Append(buffer, f), Len(wire)) /\ Len(wire) + Len(Append(buffer, f)) = sent'
      BY <1>0, <1>3, <1>9, LineAfterBuffer
    <2> QED BY <1>3, <1>9, <2>1, LineLocked DEF LineStart
  <1> QED BY <1>2, <1>4, <1>5, <1>6, <1>7, <1>8, <1>9 DEF FinishAttempt, f

LEMMA LineCommit == ASSUME IInv, Line, Commit PROVE Line'
  <1>1. LineStart /\ sent' = sent /\ sent \in Nat
    BY LineStarts DEF Commit, IInv, TypeCall
  <1>2. CASE RunHook("commit", state, <<>>)
    <2>1. From(<<>>, sent) /\ Len(<<>>) = 0 /\ <<>> \in Seq(Frame)
      BY FromEmpty
    <2>2. sent' = sent + Len(<<>>)
      BY <1>1, <2>1
    <2> QED BY <1>1, <1>2, <2>1, <2>2, LineHook
  <1>3. CASE WriteLocked(buffer, <<>>) /\ blocked' = blocked
    <2>1. buffer \in Seq(Frame)
      BY DEF IInv, TypeHeld
    <2> QED BY <1>1, <1>3, <2>1, LineLocked DEF LineStart
  <1> QED BY <1>2, <1>3 DEF Commit

LEMMA LineHookOk == ASSUME IInv, Line, HookOk PROVE Line'
  <1>1. /\ op.at = "hook" /\ ~LostToDiscard /\ blocked' = blocked /\ sent' = sent
        /\ op.out \in Seq(Frame) /\ buffer \in Seq(Frame) /\ wire \in Seq(Frame)
    BY DEF HookOk, IInv, TypeHeld
  <1>2. Len(wire) \in Nat /\ Len(buffer) \in Nat /\ Len(op.out) \in Nat
    BY <1>1
  <1> DEFINE frames == buffer \o op.out
  <1>3. frames \in Seq(Frame) /\ Len(frames) = Len(buffer) + Len(op.out)
    BY <1>1
  <1>4. ASSUME ~gone PROVE From(frames, Len(wire))
    <2>1. From(buffer, Len(wire)) /\ From(op.out, Len(wire) + Len(buffer))
      BY <1>1, <1>4 DEF Line
    <2> QED BY <1>1, <1>2, <2>1, FromJoin
  <1> HIDE DEF frames
  <1>5. ASSUME ~discarded, ~blocked, ~gone PROVE Len(wire) + Len(frames) = sent
    <2>1. Len(wire) + Len(buffer) + Len(op.out) = sent
      BY <1>5 DEF Line
    <2>2. \A a, b, c \in Nat : a + b + c = a + (b + c)
      OBVIOUS
    <2>3. Len(wire) + Len(buffer) + Len(op.out) = Len(wire) + (Len(buffer) + Len(op.out))
      BY <1>2, <2>2
    <2> QED BY <1>3, <2>1, <2>3, Zenon
  <1>6. CASE op.call # "write" /\ WriteLocked(frames, op.out)
    BY <1>1, <1>3, <1>4, <1>5, <1>6, LineLocked DEF Line
  <1>7. CASE /\ op' = [at |-> "wire", call |-> "write", rank |-> None, out |-> frames]
             /\ buffer' = <<>> /\ UNCHANGED <<discarded, wire, gone>>
    <2>1. From(<<>>, Len(wire')) /\ Len(<<>>) = 0
      BY FromEmpty
    <2>2. op'.at = "wire" /\ op'.out = frames
      BY <1>7
    <2>3. ASSUME ~discarded', ~blocked', ~gone'
          PROVE  From(buffer', Len(wire')) /\ Len(wire') + Len(buffer') + Len(op'.out) = sent'
      <3>1. Len(wire) + Len(frames) = sent
        BY <1>1, <1>5, <1>7, <2>3
      <3>2. Len(buffer') = 0 /\ Len(wire') = Len(wire) /\ Len(op'.out) = Len(frames)
        BY <1>7, <2>1, <2>2
      <3>3. \A a, b \in Nat : a + 0 + b = a + b
        OBVIOUS
      <3>4. Len(frames) \in Nat
        BY <1>3
      <3>5. Len(wire') + Len(buffer') + Len(op'.out) = Len(wire) + Len(frames)
        BY <1>2, <3>2, <3>3, <3>4
      <3> QED BY <1>1, <1>7, <2>1, <3>1, <3>5
    <2> QED BY <1>4, <1>7, <2>2, <2>3 DEF Line
  <1>8. CASE op.call = "write" /\ Passing
    <2>1. buffer = <<>>
      BY <1>8 DEF IInv, TypeHeld
    <2>2. <<>> \o op.out = op.out
      BY <1>1
    <2>3. frames = op.out
      BY <2>1, <2>2 DEF frames
    <2> QED BY <1>7, <1>8, <2>1, <2>3 DEF HookOk
  <1>9. CASE op.call = "write" /\ ~Passing
    BY <1>7, <1>9 DEF HookOk, frames
  <1> QED BY <1>6, <1>8, <1>9 DEF HookOk, frames

LEMMA LineHookLost == ASSUME Line, IInv, HookFails \/ HookDiscarded PROVE Line'
  <1>1. op' = Idle /\ UNCHANGED <<buffer, discarded, wire, sent, gone>> /\ (blocked' \/ discarded')
    BY DEF HookFails, HookDiscarded, LostToDiscard, Latches, gateVars, bufVars
  <1> QED BY <1>1 DEF Line, Idle

\* Discard empties the buffer under a hook only where that hook's call gives
\* up or the buffer was empty.
LEMMA LineDiscard == ASSUME IInv, Line, buffered => Unseen, Discard PROVE Line'
  <1>1. discarded' /\ buffer' = <<>> /\ ~committed /\ ~discarded /\ UNCHANGED <<op, wire, sent, gone>>
    BY DEF Discard, Discardable
  <1>2. ASSUME op.at = "hook", ~LostToDiscard' PROVE buffer = <<>> /\ ~LostToDiscard
    <2>1. op.call # "commit" /\ state < Content
      BY <1>1, <1>2 DEF LostToDiscard, Discard, Discardable
    <2>2. ~buffered
      BY <1>1, <1>2, <2>1 DEF Unseen, IInv, TypeCall, None, Content, Terminal
    <2> QED BY <2>1, <2>2 DEF Passing, LostToDiscard, IInv, TypeHeld
  <1> QED BY <1>1, <1>2 DEF Line

LEMMA LineNext == IInv /\ (buffered => Unseen) /\ Line /\ [Next]_vars => Line'
  <1> SUFFICES ASSUME IInv, buffered => Unseen, Line, [Next]_vars PROVE Line'
    OBVIOUS
  <1>1. CASE FlushHoldback
    BY <1>1, LineStarts, LineFlush DEF FlushHoldback, CanFlush
  <1>2. CASE Elapse \/ Age \/ UNCHANGED vars
    BY <1>2 DEF Elapse, Age, vars, gateVars, bufVars, Line, LostToDiscard
  <1> QED
    BY <1>1, <1>2, LineWriteFrame, LineWireDone, LineFinishAttempt, LineCommit, LineHookOk, LineHookLost,
       LineDiscard DEF Next

LEMMA LineOrder == ASSUME IInv, Line PROVE InOrder
  <1>1. \A i \in 1..Len(wire) : wire[i].id = i
    BY DEF Line, From, IInv, TypeHeld
  <1>2. ASSUME ~discarded, ~gone, ~blocked PROVE Len(Pending) = sent /\ \A i \in 1..sent : Pending[i].id = i
    <2>1. /\ wire \in Seq(Frame) /\ buffer \in Seq(Frame) /\ op.out \in Seq(Frame) /\ sent \in Nat
          /\ op.at \in {"idle", "hook", "wire"}
      BY DEF IInv, TypeHeld, TypeCall
    <2>2. Len(wire) \in Nat /\ Len(buffer) \in Nat /\ Len(op.out) \in Nat
      BY <2>1
    <2>0. 0 + Len(wire) = Len(wire)
      BY <2>2
    <2>3. From(wire, 0) /\ From(buffer, 0 + Len(wire)) /\ Len(wire) + Len(buffer) + Len(op.out) = sent
      BY <1>2, <2>0 DEF Line
    <2>4. ASSUME NEW s \in Seq(Frame), From(s, 0), Len(s) = sent, Pending = s
          PROVE  Len(Pending) = sent /\ \A i \in 1..sent : Pending[i].id = i
      BY <2>1, <2>4 DEF From
    <2>5. CASE op.at = "wire"
      <3>1. buffer = <<>> /\ From(op.out, 0 + Len(wire)) /\ Len(buffer) = 0
        BY <1>2, <2>0, <2>5 DEF Line
      <3>2. From(wire \o op.out, 0) /\ wire \o op.out \in Seq(Frame) /\ Len(wire \o op.out) = Len(wire) + Len(op.out)
        BY <2>1, <2>3, <3>1, FromJoin
      <3>3. (wire \o op.out) \o <<>> = wire \o op.out
        BY <3>2
      <3>4. Pending = wire \o op.out
        BY <2>5, <3>1, <3>3 DEF Pending
      <3>5. Len(wire \o op.out) = sent
        BY <2>2, <2>3, <3>1, <3>2
      <3> QED BY <2>4, <3>2, <3>4, <3>5
    <2>6. CASE op.at # "wire"
      <3>1. From(op.out, Len(wire) + Len(buffer))
        <4>1. CASE op.at = "idle"
          BY <4>1, FromEmpty DEF Line
        <4>2. CASE op.at = "hook"
          BY <1>2, <4>2 DEF Line, LostToDiscard
        <4> QED BY <2>1, <2>6, <4>1, <4>2
      <3>2. From(wire \o buffer, 0) /\ wire \o buffer \in Seq(Frame) /\ Len(wire \o buffer) = Len(wire) + Len(buffer)
        BY <2>1, <2>3, FromJoin
      <3>3. From(op.out, 0 + Len(wire \o buffer))
        BY <2>2, <3>1, <3>2
      <3>4. /\ From((wire \o buffer) \o op.out, 0) /\ (wire \o buffer) \o op.out \in Seq(Frame)
            /\ Len((wire \o buffer) \o op.out) = Len(wire \o buffer) + Len(op.out)
        BY <2>1, <3>2, <3>3, FromJoin
      <3> QED BY <2>2, <2>3, <2>4, <2>6, <3>2, <3>4 DEF Pending
    <2> QED BY <2>5, <2>6
  <1> QED BY <1>1, <1>2 DEF InOrder

\* The client receives the frames in the order the bridge wrote them, none
\* left out and none twice, and what it does not have yet the gate still has:
\* for every mode, window and buffer size, through holdback, flush, commit and
\* trailing frames, with Discard at any point.
THEOREM GateInOrder == Spec => []InOrder
  <1> DEFINE Silent == buffered => Unseen
  <1>1. Init => Silent /\ Line
    BY UnseenInit, LineInit
  <1>2. IInv /\ Silent /\ Line /\ [Next]_vars => Silent' /\ Line'
    BY UnseenNext, SettingsFixed, LineNext
  <1>3. IInv /\ Line => InOrder
    BY LineOrder
  <1> HIDE DEF Silent
  <1> QED BY <1>1, <1>2, <1>3, GateInvariance, PTL DEF Spec
=============================================================================
