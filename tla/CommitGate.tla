----------------------------- MODULE CommitGate -----------------------------
(***************************************************************************)
(* One attempt's commit gate (domains/streaming/attempt_commit_gate.go).   *)
(* The bridge writes client frames through the gate; in buffered mode they *)
(* stay in the attempt's buffer until the first semantic frame commits the *)
(* attempt, and until then the coordinator may discard it and retry.       *)
(* Before bytes of a new commit state reach the network a hook writes that *)
(* state to the durable store (write-ahead checkpoint).                    *)
(*                                                                         *)
(* Two locks: writeMu covers a whole WriteFrame, FlushHoldback, Commit or  *)
(* FinishAttempt, so at most one is under way (op); mu covers the fields   *)
(* and is released while the hook runs and while WriteFrame writes to the  *)
(* connection.  Discard takes mu only: it runs at any state of the model.  *)
(* The aligned replay of a gate (ReplayAlignment) is in SurvivalLoop.      *)
(***************************************************************************)
EXTENDS Naturals, Sequences

CONSTANTS
  Windows,      \* the values of HoldbackMaxChunks; 0: no holdback window
  MaxBuffer,    \* buffer capacity in frames (MaxMetadataBufferBytes)
  MaxFrames     \* bound: frames the bridge writes

ASSUME GateAssumption ==
  /\ Windows \subseteq Nat
  /\ MaxBuffer \in Nat \ {0}
  /\ MaxFrames \in Nat \ {0}

VARIABLES
  buffered,      \* GateModeBuffered, else GateModeImmediate
  holdbackMax,   \* HoldbackMaxChunks; like the mode fixed when the gate is built
  state,         \* commit state
  committed,
  discarded,
  checkpointed,  \* checkpointedState
  blocked,       \* checkpointBlocked: a hook failed
  buffer,        \* frames held back in the attempt
  held,          \* holdbackHeld
  window,        \* holdback window: unopened, open, elapsed
  aged,          \* the buffer is older than maxMetadataAge
  first,         \* firstSemanticSeen
  op,            \* the call that holds writeMu, parked where mu is free
  finished,      \* FinishAttempt was called
  over,          \* a call of the bridge or of FinishAttempt reported an error
  wire,          \* frames the client received
  durable,       \* commit state in the durable store
  sent,          \* frames accepted so far
  gone           \* the connection is broken

gateVars == <<state, committed, discarded, checkpointed, blocked>>
bufVars == <<buffered, holdbackMax, buffer, held, window, aged>>
vars == <<gateVars, bufVars, first, op, finished, over, wire, durable, sent, gone>>

-----------------------------------------------------------------------------
None == 0
Metadata == 1
Content == 2
ToolCall == 3
Terminal == 4

FrameClass == {"keepalive", "metadata", "error", "content", "tool_call", "terminal"}

\* The commit state a class advances to; frames nobody knows count as content.
Rank(c) ==
  IF c = "metadata" THEN Metadata
  ELSE IF c = "content" THEN Content
  ELSE IF c = "tool_call" THEN ToolCall
  ELSE IF c = "terminal" THEN Terminal
  ELSE None

isSemanticClass(c) == c \in {"content", "tool_call", "terminal"}

\* whole: a complete frame, or a last line that ends the stream.
Frame == [id : 1..MaxFrames + 1, class : FrameClass, whole : BOOLEAN]

Idle == [at |-> "idle", call |-> "none", rank |-> None, out |-> <<>>]

Init ==
  /\ buffered \in BOOLEAN /\ holdbackMax \in Windows
  /\ state = None /\ checkpointed = None /\ durable = None
  /\ committed = FALSE /\ discarded = FALSE /\ blocked = FALSE
  /\ buffer = <<>> /\ held = 0 /\ window = "unopened" /\ aged = FALSE
  /\ first = FALSE
  /\ op = Idle
  /\ finished = FALSE /\ over = FALSE
  /\ wire = <<>> /\ sent = 0 /\ gone = FALSE

Higher(a, b) == IF a > b THEN a ELSE b

Passing == ~buffered \/ committed

-----------------------------------------------------------------------------
\* What a call does once it has mu; each sets every variable a call may set
\* but sent, state and finished.

Fail ==
  /\ over' = TRUE
  /\ op' = Idle
  /\ UNCHANGED <<committed, discarded, checkpointed, blocked, bufVars, first, wire, durable, gone>>

BufferFull == aged \/ Len(buffer) + 1 > MaxBuffer

\* appendBufferedLocked
Append1(f, h, w) ==
  /\ buffer' = Append(buffer, f)
  /\ held' = h
  /\ window' = w
  /\ op' = Idle
  /\ UNCHANGED <<buffered, holdbackMax, committed, discarded, checkpointed, blocked, aged, first, over, wire, durable, gone>>

appendBufferedLocked(f, h, w) == IF BufferFull THEN Fail ELSE Append1(f, h, w)

\* mu is released for the write; commit is the value of committed by then.
Unlocked(frames, commit) ==
  /\ op' = [at |-> "wire", call |-> "write", rank |-> None, out |-> frames]
  /\ committed' = commit
  /\ buffer' = <<>>
  /\ UNCHANGED <<buffered, holdbackMax, discarded, checkpointed, blocked, held, window, aged, first, over, wire, durable, gone>>

\* mu is released for the hook of state r.
RunHook(call, r, f) ==
  /\ op' = [at |-> "hook", call |-> call, rank |-> r, out |-> f]
  /\ UNCHANGED <<committed, discarded, checkpointed, blocked, bufVars, first, over, wire, durable, gone>>

LastClass(f) == f[Len(f)].class
MarksFirst(f) == f # <<>> /\ LastClass(f) \in {"content", "tool_call"}

\* The connection takes all the frames, or some and then reports an error.
Transmit(frames, trigger) ==
  \E n \in 0..Len(frames) :
    /\ gone => n = 0
    /\ wire' = wire \o SubSeq(frames, 1, n)
    /\ gone' = (gone \/ n < Len(frames))
    /\ over' = (over \/ n < Len(frames))
    /\ first' = (first \/ (n = Len(frames) /\ MarksFirst(trigger)))

\* Frames written while mu stays held: commitLocked with the trailing frame
\* of FinishAttempt, or that frame alone.  A gate that passes frames through
\* is committed by its trailing frame once that is written.
WriteLocked(frames, trigger) ==
  /\ Transmit(frames, trigger)
  /\ committed' = (~Passing \/ committed \/ trigger = <<>> \/ ~gone')
  /\ buffer' = <<>>
  /\ op' = Idle
  /\ UNCHANGED <<buffered, holdbackMax, discarded, held, window, aged>>

-----------------------------------------------------------------------------
\* WriteFrame after the checkpoint of f's class: write it through, commit the
\* buffer with it, or hold it.
Proceed(f) ==
  IF Passing THEN Unlocked(<<f>>, committed)
  ELSE IF isSemanticClass(f.class) THEN Unlocked(Append(buffer, f), TRUE)
  ELSE appendBufferedLocked(f, held, window)

\* Mutant: only semantic frames are checkpointed.
NeedsHook_Semantic(c) == Rank(c) > state /\ isSemanticClass(c)

\* checkpointStateAdvanceUnderWriteLock: the state advances, and the hook runs
\* unless the frame stays in the buffer.
NeedsHook(c) == Rank(c) > state /\ (Passing \/ isSemanticClass(c))

\* holdbackTryHoldLocked
Holds(c) ==
  /\ buffered /\ ~committed /\ isSemanticClass(c)
  /\ holdbackMax > 0 /\ held < holdbackMax /\ window # "elapsed"

Refused == blocked \/ discarded

Opened(c) ==
  IF buffered /\ ~committed /\ isSemanticClass(c) /\ holdbackMax > 0 /\ window = "unopened" THEN "open" ELSE window

\* Mutant: keepalives always pass.
Queues_Never == FALSE

\* A keepalive waits behind frames that are held.
Queues == buffered /\ ~committed /\ buffer # <<>>

\* A frame that finds the buffer full is refused.
Accept(appending) == sent' = IF appending /\ BufferFull THEN sent ELSE sent + 1

\* WriteFrame; a bridge may try again after an error, to render its ending.
WriteFrame(c) ==
  /\ op = Idle /\ ~finished
  /\ sent < MaxFrames
  /\ LET f == [id |-> sent + 1, class |-> c, whole |-> TRUE] IN
     \/ /\ Refused
        /\ Fail
        /\ UNCHANGED <<state, sent>>
     \/ /\ ~Refused /\ c = "keepalive"
        /\ IF Queues
           THEN appendBufferedLocked(f, held, window)
           ELSE Unlocked(<<f>>, committed)
        /\ Accept(Queues)
        /\ UNCHANGED state
     \/ /\ ~Refused /\ Holds(c)
        /\ appendBufferedLocked(f, held + 1, Opened(c))
        /\ Accept(TRUE)
        /\ UNCHANGED state
     \/ /\ ~Refused /\ c # "keepalive" /\ ~Holds(c)
        /\ state' = Higher(state, Rank(c))
        /\ IF NeedsHook(c) THEN RunHook("write", Rank(c), <<f>>) ELSE Proceed(f)
        /\ Accept(~Passing /\ ~isSemanticClass(c))
  /\ UNCHANGED finished

\* The write of WriteFrame.
WireDone ==
  /\ op.at = "wire"
  /\ Transmit(op.out, op.out)
  /\ op' = Idle
  /\ UNCHANGED <<gateVars, bufVars, finished, durable, sent>>

-----------------------------------------------------------------------------
\* flushHoldbackLocked: the held frames are committed under a checkpoint of
\* the content state, which the gate, not being committed, has not reached.
CanFlush == ~discarded /\ ~committed /\ window # "unopened" /\ buffer # <<>>

flushHoldbackLocked ==
  /\ state < Content
  /\ state' = Content
  /\ RunHook("flush", Content, <<>>)

\* FlushHoldback, by a bridge whose stream ended well.
FlushHoldback ==
  /\ op = Idle /\ ~finished
  /\ ~blocked /\ CanFlush
  /\ flushHoldbackLocked
  /\ UNCHANGED <<sent, finished>>

\* What isPartialTerminalFrame takes for the end is of the terminal class, or
\* unknown for want of its event line.
TerminalLine == {"terminal", "content"}

\* FinishAttempt: no trailing bytes; a trailing partial frame, which has a
\* class but follows the state of the attempt, without a checkpoint; or a
\* terminal line without its blank line.
FinishAttempt(p, c) ==
  /\ op = Idle /\ ~finished
  /\ ~over \/ committed
  /\ p = "terminal" => c \in TerminalLine
  /\ finished' = TRUE
  /\ LET f == [id |-> sent + 1, class |-> c, whole |-> p = "terminal"] IN
     \/ /\ Refused
        /\ Fail
        /\ UNCHANGED <<state, sent>>
     \/ /\ ~Refused /\ p = "none"
        /\ IF ~Passing /\ CanFlush THEN flushHoldbackLocked
           ELSE /\ op' = Idle
                /\ UNCHANGED <<gateVars, bufVars, first, over, wire, durable, gone>>
        /\ UNCHANGED sent
     \/ /\ ~Refused /\ p = "partial"
        /\ IF Passing
           THEN /\ WriteLocked(<<f>>, <<f>>)
                /\ UNCHANGED <<checkpointed, blocked, durable>>
           ELSE appendBufferedLocked(f, held, window)
        /\ Accept(~Passing)
        /\ UNCHANGED state
     \/ /\ ~Refused /\ p = "terminal"
        /\ state' = Higher(state, Rank(c))
        /\ IF Rank(c) > state THEN RunHook("finish", Rank(c), <<f>>)
           ELSE /\ WriteLocked(Append(buffer, f), <<f>>)
                /\ UNCHANGED <<checkpointed, blocked, durable>>
        /\ sent' = sent + 1

\* Commit, by the coordinator after FinishAttempt of an attempt that succeeded.
Commit ==
  /\ op = Idle /\ finished /\ ~over
  /\ ~blocked /\ ~discarded
  /\ IF state > checkpointed THEN RunHook("commit", state, <<>>)
     ELSE /\ WriteLocked(buffer, <<>>)
          /\ UNCHANGED <<checkpointed, blocked, durable>>
  /\ UNCHANGED <<state, sent, finished>>

-----------------------------------------------------------------------------
\* Mutant: Commit does not look again whether Discard came in between.
LostToDiscard_Never == FALSE

LostToDiscard == op.call = "commit" /\ discarded

\* The hook reports success.
HookOk ==
  /\ op.at = "hook" /\ ~LostToDiscard
  /\ durable' = Higher(durable, op.rank)
  /\ checkpointed' = Higher(checkpointed, op.rank)
  /\ blocked' = blocked
  /\ \/ /\ op.call = "write"
        /\ IF Passing
           THEN /\ op' = [at |-> "wire", call |-> "write", rank |-> None, out |-> op.out]
                /\ UNCHANGED <<committed, buffer>>
           ELSE /\ op' = [at |-> "wire", call |-> "write", rank |-> None, out |-> buffer \o op.out]
                /\ committed' = TRUE
                /\ buffer' = <<>>
        /\ UNCHANGED <<buffered, holdbackMax, discarded, held, window, aged, first, over, wire, gone>>
     \/ /\ op.call # "write"
        /\ WriteLocked(buffer \o op.out, op.out)
  /\ UNCHANGED <<state, sent, finished>>

Latches == TRUE

\* The hook fails; the store may have written the state all the same.
HookFails ==
  /\ op.at = "hook" /\ ~LostToDiscard
  /\ blocked' = Latches
  /\ durable' \in {durable, Higher(durable, op.rank)}
  /\ over' = TRUE
  /\ op' = Idle
  /\ UNCHANGED <<state, committed, discarded, checkpointed, bufVars, first, finished, wire, sent, gone>>

\* The hook of a Commit returns and finds the attempt discarded.
HookDiscarded ==
  /\ op.at = "hook" /\ LostToDiscard
  /\ durable' \in {durable, Higher(durable, op.rank)}
  /\ over' = TRUE
  /\ op' = Idle
  /\ UNCHANGED <<gateVars, bufVars, first, finished, wire, sent, gone>>

Discardable == ~committed /\ state < Content

\* Discard succeeds; when it may not, it changes nothing.
Discard ==
  /\ ~discarded /\ Discardable
  /\ buffer' = <<>> /\ aged' = FALSE
  /\ state' = None
  /\ discarded' = TRUE
  /\ blocked' = FALSE
  /\ UNCHANGED <<buffered, holdbackMax, committed, checkpointed, held, window, first, op, finished, over, wire, durable, sent, gone>>

\* Time: the holdback window elapses, the buffer gets too old.
Elapse ==
  /\ window = "open"
  /\ window' = "elapsed"
  /\ UNCHANGED <<buffered, holdbackMax, gateVars, buffer, held, aged, first, op, finished, over, wire, durable, sent, gone>>

Age ==
  /\ buffer # <<>> /\ ~aged
  /\ aged' = TRUE
  /\ UNCHANGED <<buffered, holdbackMax, gateVars, buffer, held, window, first, op, finished, over, wire, durable, sent, gone>>

Next ==
  \/ \E c \in FrameClass : WriteFrame(c)
  \/ WireDone
  \/ FlushHoldback
  \/ \E p \in {"none", "partial", "terminal"}, c \in FrameClass : FinishAttempt(p, c)
  \/ Commit
  \/ HookOk \/ HookFails \/ HookDiscarded
  \/ Discard
  \/ Elapse
  \/ Age

Spec == Init /\ [][Next]_vars

-----------------------------------------------------------------------------
Pending == IF op.at = "wire" THEN wire \o op.out \o buffer ELSE wire \o buffer \o op.out

\* Types; the buffer keeps to its cap and a gate that is committed or passes
\* frames through holds none back.
TypeOK ==
  /\ buffered \in BOOLEAN /\ holdbackMax \in Nat
  /\ state \in None..Terminal /\ checkpointed \in None..Terminal /\ durable \in None..Terminal
  /\ committed \in BOOLEAN /\ discarded \in BOOLEAN /\ blocked \in BOOLEAN
  /\ buffer \in Seq(Frame) /\ Len(buffer) <= MaxBuffer
  /\ Passing => buffer = <<>>
  /\ held \in 0..holdbackMax
  /\ window \in {"unopened", "open", "elapsed"}
  /\ aged \in BOOLEAN /\ first \in BOOLEAN /\ finished \in BOOLEAN /\ over \in BOOLEAN /\ gone \in BOOLEAN
  /\ op \in [at : {"idle", "hook", "wire"}, call : {"none", "write", "flush", "finish", "commit"},
            rank : None..Terminal, out : Seq(Frame)]
  /\ wire \in Seq(Frame)
  /\ sent \in 0..MaxFrames + 1

\* The commit state the durable store must have before f is written.
Owed(f) == IF f.whole THEN Rank(f.class) ELSE None

\* The write-ahead rule of BeforeSemanticCommit for a gate without a holdback
\* window: the client has no frame of a commit state that the durable store
\* does not have.  Frames are whole here: trailing bytes "follow the attempt's
\* commit state instead" and are not checkpointed.
WriteAhead == holdbackMax = 0 => \A i \in 1..Len(wire) : Owed(wire[i]) <= durable

\* After a Discard of a buffered gate the client has nothing of the attempt but
\* keepalives, and the attempt is never committed, whatever call was under way.
DiscardedIsSilent ==
  (buffered /\ discarded) => /\ ~committed
               /\ \A i \in 1..Len(wire) : wire[i].class = "keepalive"

\* The client receives the frames the gate accepted in the order the bridge
\* wrote them, with none left out and none twice; what the client does not
\* have yet the gate still has, unless it was discarded, failed closed or
\* lost the connection.
InOrder ==
  /\ \A i \in 1..Len(wire) : wire[i].id = i
  /\ (~discarded /\ ~gone /\ ~blocked) => /\ Len(Pending) = sent
                                         /\ \A i \in 1..sent : Pending[i].id = i

\* Once a checkpoint has failed nothing more is written to the client.
FailClosed == [][blocked => wire' = wire]_vars

=============================================================================
