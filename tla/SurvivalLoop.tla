---------------------------- MODULE SurvivalLoop ----------------------------
(***************************************************************************)
(* SurvivalCoordinator.Run (domains/streaming/survival_coordinator.go) for *)
(* one request: attempts over one client connection, each behind a fresh   *)
(* buffered gate, with transparent retries while nothing is committed, the *)
(* L1 holdback window and the L2 aligned replay of a committed prefix.     *)
(*                                                                         *)
(* ExecuteAttempt is synchronous: only the bridge of the current attempt   *)
(* writes while it runs and only the loop after it, so the calls of the    *)
(* gate (module CommitGate) are single steps here, and the checkpoint hook *)
(* of a call succeeds or fails as one.  The response is a sequence of      *)
(* content units 1, 2, ... and its End; every attempt starts again at 1, a *)
(* frame carries one or more units, and a replay that says something else  *)
(* at place n carries -n there.                                            *)
(***************************************************************************)
EXTENDS Integers, Sequences, FiniteSets, SequencesExt

CONSTANTS
  MaxRetries,    \* retries after the first attempt
  MaxRecovery,   \* MaxRecoveryAttempts
  FrameSizes,    \* units per frame
  Settings       \* the settings a request may run under, of which it has one

ASSUME SurvivalAssumption ==
  /\ MaxRetries \in Nat /\ MaxRecovery \in Nat
  /\ FrameSizes \subseteq (Nat \ {0})
  /\ \A s \in Settings :
       /\ s.holdback \in Nat            \* frames the L1 window holds; 0: no window
       /\ s.l2 \in BOOLEAN              \* LLM_GATEWAY_RECOVERY_L2_MODE=enforce
       /\ s.threshold \in 1..10000      \* AlignmentThresholdBP
       /\ s.window \in Nat \ {0}        \* CommittedPrefixWindowBytes, in units
       /\ s.durable \in BOOLEAN         \* a checkpoint precedes commits, and may fail
       \* The bridge flushes the window at the end of the stream and latches
       \* the gate with its terminal (Responses), or not (Chat).
       /\ s.doneLatched \in BOOLEAN
       \* What the bridge does with a committed stream that broke off: nothing,
       \* render a terminal and latch the gate, or only render.
       /\ s.renders \subseteq {"none", "latched", "unlatched"}
       /\ s.units \in Nat \ {0}         \* bound: content units of an attempt

VARIABLES
  conf,       \* the settings of this request
  phase,      \* where Run is: top, attempt, judge, wait, done
  attempts,
  calls,      \* upstream calls taken from UpstreamAttempts
  gate,       \* the gate of the last attempt
  stream,     \* upstream: next unit, diverged from the prefix, over
  outcome,    \* of the attempt: ok, or the kind of its error
  client,     \* units the client received, 0 for an end of the stream
  observed,   \* committed-prefix cache: units folded in
  plan,       \* prefix the next attempt, or this one, replays; <<>>: none
  recoveryNo,
  ctxRetried,
  succeed,
  expired,    \* the interactive deadline has passed
  cancelled,  \* the request context is done
  gone        \* the connection is broken

vars == <<conf, phase, attempts, calls, gate, stream, outcome, client, observed, plan, recoveryNo,
          ctxRetried, succeed, expired, cancelled, gone>>

env == <<conf, expired, cancelled, gone>>
loop == <<attempts, calls, plan, recoveryNo, ctxRetried>>

End == 0
Content == 2
Terminal == 4

\* The kind that decides the attempt, by what the aggregator makes of it while
\* nothing is committed: retry (now or after a wait), give up, context too
\* long, unmapped.
Kinds == {"retry", "terminal", "context_length", "unmapped"}

\* buf: frames held by the window or by a replay that is not decided.
NewGate(replay) ==
  [state |-> 0, committed |-> FALSE, failed |-> FALSE, buf |-> <<>>, held |-> 0,
   replay |-> replay, decided |-> FALSE, aligned |-> FALSE, rendered |-> FALSE]

Init ==
  /\ conf \in Settings
  /\ phase = "top" /\ attempts = 0 /\ calls = 0
  /\ gate = NewGate(FALSE)
  /\ stream = [next |-> 1, diverged |-> FALSE, over |-> FALSE]
  /\ outcome = "none"
  /\ client = <<>> /\ observed = <<>> /\ plan = <<>>
  /\ recoveryNo = 0 /\ ctxRetried = FALSE /\ succeed = FALSE
  /\ expired = FALSE /\ cancelled = FALSE /\ gone = FALSE

-----------------------------------------------------------------------------
\* Bytes reach the client unless it is gone; those that did are observed, but
\* a request is not entered into the cache while the cache is full.
Send(us) ==
  /\ client' = IF gone THEN client ELSE client \o us
  /\ \/ observed' = IF gone \/ ~conf.l2 THEN observed ELSE observed \o us
     \/ conf.l2 /\ observed = <<>> /\ UNCHANGED observed

HookOk == IF conf.durable THEN BOOLEAN ELSE {TRUE}

Rank(us) == IF us = <<End>> THEN Terminal ELSE Content

Higher(a, b) == IF a > b THEN a ELSE b

\* A checkpoint fails: the state has advanced, the gate writes nothing more.
Blocked(r) ==
  /\ gate' = [gate EXCEPT !.state = Higher(@, r), !.failed = TRUE]
  /\ UNCHANGED <<client, observed>>

\* holdbackTryHoldLocked, while the window has not elapsed
Holds == ~gate.committed /\ conf.holdback > 0 /\ gate.held < conf.holdback

\* The frame, behind the frames held so far, under its checkpoint.
Commit(us, ok) ==
  IF Rank(us) > gate.state /\ ~ok THEN Blocked(Rank(us))
  ELSE /\ Send(FlattenSeq(gate.buf) \o us)
       /\ gate' = [gate EXCEPT !.state = Higher(@, Rank(us)), !.committed = TRUE,
                               !.buf = <<>>, !.failed = gone]

WriteFrame(us, elapsed, ok) ==
  IF Holds /\ ~elapsed
  THEN /\ gate' = [gate EXCEPT !.buf = Append(@, us), !.held = @ + 1]
       /\ UNCHANGED <<client, observed>>
  ELSE Commit(us, ok)

-----------------------------------------------------------------------------
\* PrefixAligner: how far the fresh units reproduce the head of the prefix.
CommonPrefixLen(a, b) ==
  CHOOSE n \in 0..Len(a) :
    /\ n <= Len(b) /\ SubSeq(a, 1, n) = SubSeq(b, 1, n)
    /\ n = Len(a) \/ n = Len(b) \/ a[n + 1] # b[n + 1]

HeadOf(p) == SubSeq(p, 1, IF Len(p) > conf.window THEN conf.window ELSE Len(p))

\* Mutant: the suffix starts one unit early.
Align_OffByOne(p, fresh) ==
  LET common == CommonPrefixLen(HeadOf(p), fresh) IN
  [aligned |-> (common * 10000) \div Len(HeadOf(p)) >= conf.threshold, offset |-> common - 1]

Align(p, fresh) ==
  LET common == CommonPrefixLen(HeadOf(p), fresh)
      whole == Len(fresh) >= Len(p) /\ SubSeq(fresh, 1, Len(p)) = p
  IN IF Len(p) <= conf.window
     THEN [aligned |-> (common * 10000) \div Len(p) >= conf.threshold, offset |-> common]
     ELSE [aligned |-> whole, offset |-> Len(p)]

StartOf(frames, i) == Len(FlattenSeq(SubSeq(frames, 1, i - 1)))

\* forwardReplaySuffixLocked: whole frames from the offset on.
Suffix(frames, offset) ==
  LET past == {i \in 1..Len(frames) : StartOf(frames, i) >= offset} IN
  IF past = {} THEN <<>> ELSE FlattenSeq(SubSeq(frames, Min(past), Len(frames)))

\* Each frame of the suffix has its checkpoint, but only the end of the stream
\* is above the content state that the verdict has checkpointed.
CutShort(suffix) == IF conf.durable /\ End \in Range(suffix) THEN BOOLEAN ELSE {FALSE}

\* writeFrameReplayAlignedLocked
WriteReplay(us, ok) ==
  LET frames == Append(gate.buf, us)
      fresh == FlattenSeq(frames)
      a == Align(plan, fresh)
      suffix == Suffix(frames, a.offset)
  IN IF gate.decided THEN Commit(us, ok)
     ELSE IF Len(fresh) < Len(plan)
     THEN /\ gate' = [gate EXCEPT !.buf = frames]
          /\ UNCHANGED <<client, observed>>
     ELSE IF ~a.aligned
     THEN /\ gate' = [gate EXCEPT !.decided = TRUE, !.failed = TRUE]
          /\ UNCHANGED <<client, observed>>
     ELSE IF ~ok
     THEN /\ gate' = [gate EXCEPT !.decided = TRUE, !.aligned = TRUE, !.failed = TRUE, !.state = Content]
          /\ UNCHANGED <<client, observed>>
     ELSE \E cut \in CutShort(suffix) :
            /\ Send(IF cut THEN Front(suffix) ELSE suffix)
            /\ gate' = [gate EXCEPT !.decided = TRUE, !.aligned = TRUE, !.buf = <<>>,
                                    !.state = IF End \in Range(suffix) THEN Terminal ELSE Content,
                                    !.committed = suffix # <<>>, !.failed = cut \/ (gone /\ suffix # <<>>)]

Write(us, elapsed, ok) == IF gate.replay THEN WriteReplay(us, ok) ELSE WriteFrame(us, elapsed, ok)

-----------------------------------------------------------------------------
\* The attempt: the bridge writes the upstream stream through the gate.

Frame(n) ==
  /\ phase = "attempt" /\ ~gate.failed /\ ~stream.over
  /\ stream.next + n - 1 <= conf.units
  /\ \E d, elapsed \in BOOLEAN, ok \in HookOk :
       /\ stream.diverged => d
       /\ d => gate.replay
       /\ Write([i \in 1..n |-> IF d THEN -(stream.next + i - 1) ELSE stream.next + i - 1], elapsed, ok)
       /\ stream' = [stream EXCEPT !.next = @ + n, !.diverged = d]
  /\ UNCHANGED <<phase, loop, outcome, succeed, env>>

\* FlushHoldback of a Responses bridge whose stream ended well.
FlushHeld ==
  /\ phase = "attempt" /\ conf.doneLatched
  /\ ~gate.failed /\ ~stream.over /\ stream.next > 1
  /\ ~gate.replay /\ ~gate.committed /\ gate.buf # <<>>
  /\ \E ok \in HookOk : Commit(<<>>, ok)
  /\ stream' = [stream EXCEPT !.over = gate'.failed]
  /\ UNCHANGED <<phase, loop, outcome, succeed, env>>

\* The terminal frame of a complete stream; a Responses bridge writes its
\* own, through a committed gate only, and latches the gate.
EndFrame ==
  /\ phase = "attempt" /\ ~gate.failed /\ ~stream.over /\ stream.next > 1
  /\ (conf.doneLatched /\ ~gate.replay) => gate.buf = <<>>
  /\ \E elapsed \in BOOLEAN, ok \in HookOk :
       IF ~conf.doneLatched THEN Write(<<End>>, elapsed, ok)
       ELSE IF ~gate.committed THEN UNCHANGED <<gate, client, observed>>
       ELSE IF Terminal > gate.state /\ ~ok THEN Blocked(Terminal)
       ELSE /\ Send(<<End>>)
            /\ gate' = [gate EXCEPT !.state = Terminal, !.failed = gone, !.rendered = ~gone]
  /\ stream' = [stream EXCEPT !.over = TRUE]
  /\ UNCHANGED <<phase, loop, outcome, succeed, env>>

\* Upstream calls of the attempt; without a candidate there is none.
TakeCalls(n) == calls' = IF calls + n > MaxRetries + 1 THEN MaxRetries + 1 ELSE calls + n

\* Mutant: the attempt is not counted.
Counted_Never == attempts

Counted == attempts + 1

\* The stream ended well, whatever the gate did with its last frames.
Complete ==
  /\ phase = "attempt" /\ stream.over
  /\ phase' = "judge" /\ outcome' = "ok"
  /\ attempts' = Counted
  /\ TakeCalls(1)
  /\ UNCHANGED <<gate, stream, client, observed, plan, recoveryNo, ctxRetried, succeed, env>>

\* The attempt fails; a bridge may end a committed stream itself.
Interrupt(kind, r) ==
  /\ phase = "attempt"
  /\ stream.over => gate.failed
  /\ r # "none" => gate.committed /\ ~gate.failed /\ ~gone /\ ~stream.over
  /\ IF r = "none" THEN UNCHANGED <<gate, client, observed>>
     ELSE /\ Send(<<End>>)
          /\ gate' = [gate EXCEPT !.state = Terminal, !.rendered = (r = "latched")]
  /\ phase' = "judge" /\ outcome' = kind
  /\ attempts' = Counted
  /\ \E n \in 0..1 : (stream.next > 1 => n = 1) /\ TakeCalls(n)
  /\ UNCHANGED <<stream, plan, recoveryNo, ctxRetried, succeed, env>>

-----------------------------------------------------------------------------
\* The loop.

\* Mutant: only a committed gate gets a terminal.
Suppressed_Uncommitted == ~gate.committed

\* Mutant: the coordinator always renders its terminal.
Suppressed_Never == FALSE

\* renderTerminal: not when the bridge already rendered one.
Suppressed == gate.rendered

renderTerminal(suppressed) ==
  /\ client' = IF suppressed \/ gone THEN client ELSE Append(client, End)
  /\ UNCHANGED observed

Armed == plan # <<>>

Done(suppressed) ==
  /\ phase' = "done"
  /\ renderTerminal(suppressed)
  /\ UNCHANGED <<loop, gate, stream, outcome, succeed, env>>

Silent ==
  /\ phase' = "done"
  /\ UNCHANGED <<loop, gate, stream, outcome, client, observed, succeed, env>>

StartAttempt ==
  /\ phase = "top"
  /\ \/ cancelled /\ Silent
     \/ ~cancelled /\ expired /\ Done(FALSE)
     \/ /\ ~cancelled /\ ~expired
        /\ phase' = "attempt"
        /\ gate' = NewGate(Armed)
        /\ stream' = [next |-> 1, diverged |-> FALSE, over |-> FALSE]
        /\ outcome' = "none"
        /\ UNCHANGED <<loop, client, observed, succeed, env>>

\* AggregateTaskOutcomeWithHistory
Aggregate ==
  IF outcome = "ok" THEN "succeed"
  ELSE IF outcome \in {"terminal", "context_length"} THEN "fail"
  ELSE IF gate.state >= Content THEN "blocked"
  ELSE IF outcome = "retry" THEN "retry" ELSE "fail"

\* One retry with a smaller body for a context that was too long.
Compress == outcome = "context_length" /\ ~ctxRetried /\ gate.state < Content

\* A replay without a verdict, or with a miss, is void whatever its outcome.
Missed == gate.replay /\ ~gate.aligned

Judging == phase = "judge" /\ ~cancelled /\ ~expired

RetriesLeft == calls < MaxRetries + 1 /\ attempts - 1 < MaxRetries

\* The request is cancelled or out of time when the attempt returns.
JudgeLate ==
  /\ phase = "judge"
  /\ \/ cancelled /\ Silent
     \/ ~cancelled /\ expired /\ Done(Suppressed)

\* Mutant: only a committed attempt is finished.
Unflushed_Never == FALSE

Unflushed == ~gate.committed /\ gate.buf # <<>>

\* GateWriter.Finish releases what is held, Commit the rest, both under a
\* checkpoint; when one fails, Run returns "client_disconnected" at once.
Succeed ==
  /\ Judging /\ ~Compress /\ ~Missed
  /\ Aggregate = "succeed"
  /\ phase' = "done"
  /\ \E ok \in HookOk :
       IF gate.failed \/ gone
       THEN UNCHANGED <<gate, client, observed, succeed>>
       ELSE IF ~Unflushed
       THEN succeed' = TRUE /\ UNCHANGED <<gate, client, observed>>
       ELSE /\ Commit(<<>>, ok)
            /\ succeed' = ~gate'.failed
  /\ UNCHANGED <<loop, stream, outcome, env>>

\* The body cannot be made smaller.
CompressFails ==
  /\ Judging /\ Compress
  /\ phase' = "done" /\ ctxRetried' = TRUE
  /\ renderTerminal(Suppressed)
  /\ UNCHANGED <<gate, attempts, calls, plan, recoveryNo, stream, outcome, succeed, env>>

\* The window's frames are discarded and the loop waits, behind a keepalive.
Retry ==
  /\ Judging /\ ~Missed
  /\ Compress \/ Aggregate = "retry"
  /\ IF ~RetriesLeft \/ gate.committed \/ gate.state >= Content
     THEN /\ phase' = "done"
          /\ renderTerminal(Suppressed)
          /\ UNCHANGED gate
     ELSE /\ phase' = IF gone THEN "done" ELSE "wait"
          /\ gate' = [gate EXCEPT !.buf = <<>>, !.state = 0]
          /\ UNCHANGED <<client, observed>>
  /\ plan' = <<>>
  /\ ctxRetried' = (ctxRetried \/ Compress)
  /\ UNCHANGED <<attempts, calls, recoveryNo, stream, outcome, succeed, env>>

\* waitWithKeepalive returns.
Wake ==
  /\ phase = "wait"
  /\ \/ (cancelled \/ gone) /\ Silent
     \/ ~cancelled /\ expired /\ Done(Suppressed)
     \/ /\ ~cancelled /\ ~expired
        /\ phase' = "top"
        /\ UNCHANGED <<loop, gate, stream, outcome, client, observed, succeed, env>>

\* l2AlignedReplayPlan, if the error is one that a stream recovers from.
MayReplay ==
  /\ conf.l2 /\ Aggregate = "blocked" /\ ~Missed
  /\ RetriesLeft /\ observed # <<>>
  /\ recoveryNo < MaxRecovery

Replay ==
  /\ Judging /\ ~Compress /\ MayReplay
  /\ phase' = "top"
  /\ plan' = observed
  /\ recoveryNo' = recoveryNo + 1
  /\ UNCHANGED <<attempts, calls, ctxRetried, gate, stream, outcome, client, observed, succeed, env>>

\* The envelope of ResumeBlocked, FailTerminal and FailClosed.
GiveUp ==
  /\ Judging /\ (Missed \/ (~Compress /\ Aggregate \in {"blocked", "fail"}))
  /\ Done(Suppressed)

-----------------------------------------------------------------------------
Expire == phase # "done" /\ ~expired /\ expired' = TRUE
          /\ UNCHANGED <<phase, loop, gate, stream, outcome, client, observed, succeed, conf, cancelled, gone>>

Cancel == phase # "done" /\ ~cancelled /\ cancelled' = TRUE
          /\ UNCHANGED <<phase, loop, gate, stream, outcome, client, observed, succeed, conf, expired, gone>>

Disconnect == phase # "done" /\ ~gone /\ gone' = TRUE
              /\ UNCHANGED <<phase, loop, gate, stream, outcome, client, observed, succeed, conf, expired, cancelled>>

AttemptEnds == Complete \/ \E kind \in Kinds, r \in conf.renders : Interrupt(kind, r)

Decide == StartAttempt \/ JudgeLate \/ Succeed \/ CompressFails \/ Retry \/ Wake \/ Replay \/ GiveUp

Next ==
  \/ \E n \in FrameSizes : Frame(n)
  \/ FlushHeld
  \/ EndFrame
  \/ AttemptEnds
  \/ Decide
  \/ Expire
  \/ Cancel
  \/ Disconnect

Spec == Init /\ [][Next]_vars

\* The loop runs on, and every attempt ends: the bridges read with a timeout
\* and the attempt's context has a deadline.
FairSpec == Spec /\ WF_vars(Decide) /\ WF_vars(AttemptEnds)

-----------------------------------------------------------------------------
Place(u) == IF u < 0 THEN -u ELSE u

\* Types; the holdback window keeps to its cap.
TypeOK ==
  /\ phase \in {"top", "attempt", "judge", "wait", "done"}
  /\ gate.state \in {0, Content, Terminal} /\ gate.held \in 0..conf.holdback
  /\ outcome \in Kinds \cup {"none", "ok"}
  /\ client \in Seq(-conf.units..conf.units) /\ observed \in Seq(-conf.units..conf.units)
  /\ recoveryNo \in 0..MaxRecovery

\* The red line of the commit gate: over all attempts the client never gets a
\* place of the answer twice, nor one out of order, as long as a replay has to
\* reproduce the whole of the committed prefix.
NoRepeat ==
  (~conf.l2 \/ conf.threshold = 10000) =>
    \A i, j \in 1..Len(client) :
      (i < j /\ client[i] # End /\ client[j] # End) => Place(client[i]) < Place(client[j])

\* One terminal per request, and nothing behind it.
EndsOnce == \A i \in 1..Len(client) - 1 : client[i] # End

\* Where every ending a bridge writes latches the gate, and no replay opens a
\* new one, the bridge and the coordinator never both end the stream.
LatchedEndsOnce == (conf.doneLatched /\ "unlatched" \notin conf.renders /\ ~conf.l2) => EndsOnce

\* A client that is still there when Run returns has its end of the stream.
\* Two settings are left out: a checkpoint that can fail while a finished
\* attempt is flushed, and a bridge that writes its terminal through a committed
\* gate only, which a replay that adds nothing to the prefix is not.
Answered ==
  (phase = "done" /\ ~gone /\ ~cancelled /\ ~conf.durable /\ ~(conf.doneLatched /\ conf.l2)) =>
    client # <<>> /\ client[Len(client)] = End

Has(s, p) == \E i \in 1..Len(s) : s[i] # End /\ Place(s[i]) = p

\* A frame that starts in the committed prefix is left out as a whole.
Straddling == IF gate.replay THEN FrameSizes \cup {1} ELSE {1}

\* A request reported as a success has delivered its end and every place of the
\* answer: nothing held in the window is swallowed, and a replay loses at most
\* the rest of the one frame that straddles the committed prefix.
WholeAnswer ==
  (succeed /\ ~gone /\ ~(conf.doneLatched /\ conf.l2)) =>
    /\ client # <<>> /\ client[Len(client)] = End
    /\ \E a \in 0..stream.next, n \in Straddling :
         \A p \in 1..stream.next - 1 : Has(client, p) \/ (a < p /\ p < a + n)

\* Run returns even when the deadline never passes.
RunEnds == <>(phase = "done")
=============================================================================
