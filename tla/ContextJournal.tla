--------------------------- MODULE ContextJournal ---------------------------
(***************************************************************************)
(* What a turn does to a conversation around the model's steps: the        *)
(* TurnRunner of src/src/runtime.rs, with                                  *)
(*   - src/src/context.rs: compaction records, the context derived from    *)
(*     them, and the journal held aside while the turn runs on it;         *)
(*   - src/src/memory/inject.rs: the recalled block spliced in and out;    *)
(*   - src/src/memory/capture.rs: what the turn said, kept for the dream.  *)
(*                                                                         *)
(* A message is its kind and a number: for a call and its result the same, *)
(* for the reasoning before a batch of calls that of the batch's first.    *)
(* Text, tokens and the summaries' words are left out: a summary is the    *)
(* set of journal positions it accounts for, and whether a context is over *)
(* the threshold is left open.  One turn at a time, as a busy chat admits  *)
(* no other and no /compact.                                               *)
(***************************************************************************)
EXTENDS Naturals, Sequences, SequencesExt, FiniteSetsExt

CONSTANTS
    KeepRecent,   \* keep_recent_messages
    MaxBatch,     \* bound: calls the model makes in one reply
    MaxMessages,  \* bound: messages of a conversation
    Reasons       \* whether a batch may, must or must not follow a reasoning item

JournalSizes ==
    /\ KeepRecent \in Nat \ {0} /\ {MaxBatch, MaxMessages} \subseteq Nat
    /\ Reasons \subseteq BOOLEAN
ASSUME KeepsSome == JournalSizes

VARIABLES
    journal,    \* the conversation as its owner holds it
    records,    \* compaction records: [first_kept_index, covers]
    stage,      \* "idle", "compacting" or "running"
    context,    \* the state the executor runs on
    held,       \* context_len of the held journal; None when it is not held
    injected,   \* a recalled block is in the context
    turnStart,  \* where the turn's own messages begin in the context
    known,      \* records there were when the turn began
    said,       \* history: everything said in this conversation
    opened,     \* history: how much was said before the turn
    captured    \* the last capture, and what it should have held

journalVars == <<journal, records, stage, context, held, injected, turnStart, known,
          said, opened, captured>>
runVars == <<context, held, injected, turnStart>>

None == 0
Msg(kind, n) == [kind |-> kind, n |-> n]
Kinds == {"user", "text", "think", "call", "result", "summary", "recalled"}
Summary == Msg("summary", 0)
Recalled == Msg("recalled", 0)
Is(m, kind) == m.kind = kind

-----------------------------------------------------------------------------
(* context.rs                                                              *)

Boundary(j, rs) ==
    IF rs = <<>> THEN 0 ELSE Min({Last(rs).first_kept_index, Len(j)})
Effective(j, rs) ==
    IF rs = <<>> THEN j
    ELSE <<Summary>> \o SubSeq(j, Boundary(j, rs) + 1, Len(j))

(* The last place, at or before the boundary, that is no tool result; and  *)
(* from a call back to the reasoning before its batch, when there is one.  *)
(* Positions count from 0, as in the code: m[i] is the message after i.    *)
NoResultAt(ms, from) == Max({i \in 0..from : i = 0 \/ ~Is(ms[i + 1], "result")})
BlockStart(ms, from) == Max({i \in 0..from : i = 0 \/ ~Is(ms[i + 1], "call")})
SafeSplit_Slip(ms) == IF Len(ms) <= KeepRecent THEN 0 ELSE Len(ms) - KeepRecent
SafeSplit(ms) ==
    IF Len(ms) <= KeepRecent THEN 0
    ELSE LET split == NoResultAt(ms, Len(ms) - KeepRecent)
             start == BlockStart(ms, split)
         IN IF split > 0 /\ Is(ms[split + 1], "call") /\ Is(ms[start + 1], "think")
            THEN start ELSE split

(* plan_compaction: from the last boundary on, never from what is new only.*)
SummarizeFrom(j) == Boundary(j, records)
FirstKept(j) == Boundary(j, records) + SafeSplit(SubSeq(j, Boundary(j, records) + 1, Len(j)))
Foldable(j) == FirstKept(j) > Boundary(j, records)
Covered == IF records = <<>> THEN {} ELSE Last(records).covers
Fold ==
    records' = Append(records,
        [first_kept_index |-> FirstKept(journal),
         covers |-> Covered \cup (SummarizeFrom(journal) + 1)..FirstKept(journal)])

-----------------------------------------------------------------------------
NoCapture == [got |-> <<>>, ought |-> <<>>]
JournalInit ==
    /\ journal = <<>> /\ records = <<>> /\ stage = "idle"
    /\ context = <<>> /\ held = None /\ injected = FALSE /\ turnStart = 0 /\ known = 0
    /\ said = <<>> /\ opened = 0 /\ captured = NoCapture

Room(n) == Len(said) + n <= MaxMessages

(* A message opens a turn.                                                 *)
OpenTurn ==
    /\ stage = "idle" /\ stage' = "compacting" /\ Room(1)
    /\ journal' = Append(journal, Msg("user", Len(said) + 1))
    /\ said' = Append(said, Msg("user", Len(said) + 1))
    /\ opened' = Len(said) /\ known' = Len(records)
    /\ captured' = NoCapture
    /\ UNCHANGED <<records, runVars>>

(* compact_if_needed, the summary written; it may fail, or not be due.     *)
(* Then the context is derived, and the journal held aside when it is not  *)
(* the context itself; then the recalled block goes before the last message*)
(* of the user.                                                            *)
HeldLen_Slip(ctx, recalls) == Len(ctx) + (IF recalls THEN 1 ELSE 0)
HeldLen(ctx, recalls) == Len(ctx)
LastUser(ctx) == Max({i \in 1..Len(ctx) : Is(ctx[i], "user")})
TurnStart_Slip(ctx) == Len(ctx)
TurnStart(ctx) == Len(ctx) - 1
EnterTurn ==
    /\ stage = "compacting" /\ stage' = "running"
    /\ \/ Foldable(journal) /\ Fold
       \/ UNCHANGED records
    /\ LET ctx == Effective(journal, records') IN
       \E recalls \in BOOLEAN :
        /\ held' = IF records' = <<>> THEN None ELSE HeldLen(ctx, recalls)
        /\ turnStart' = TurnStart(ctx)
        /\ injected' = recalls
        /\ context' = IF recalls THEN InsertAt(ctx, LastUser(ctx), Recalled) ELSE ctx
    /\ UNCHANGED <<journal, known, said, opened, captured>>

(* A step of the model: text, or a batch of calls and then their results,  *)
(* the whole of it behind a reasoning item or without one.                 *)
Says(ms) ==
    /\ stage = "running" /\ Room(Len(ms))
    /\ context' = context \o ms
    /\ said' = said \o ms
    /\ UNCHANGED <<journal, records, stage, held, injected, turnStart, known, opened, captured>>
SayText == Says(<<Msg("text", Len(said) + 1)>>)
CallTools ==
    \E n \in 1..MaxBatch, thinks \in Reasons :
        LET batch(kind) == [k \in 1..n |-> Msg(kind, Len(said) + k)] IN
        Says((IF thinks THEN <<Msg("think", Len(said) + 1)>> ELSE <<>>) \o batch("call") \o batch("result"))
(* A message of the person, taken in between two steps.                    *)
TakeMailbox == Says(<<Msg("user", Len(said) + 1)>>)

(* The turn is over, in whatever way: the block comes out, the turn is     *)
(* captured, the journal comes back with what was appended.                *)
WithoutKinds(ms, kinds) ==
    LET kept[i \in 0..Len(ms)] ==
            IF i = 0 THEN <<>>
            ELSE IF ms[i].kind \in kinds THEN kept[i - 1] ELSE Append(kept[i - 1], ms[i])
    IN kept[Len(ms)]
Stripped(ctx) == IF injected THEN WithoutKinds(ctx, {"recalled"}) ELSE ctx
Speech(ms) == WithoutKinds(ms, Kinds \ {"user", "text"})
Restored(ctx) ==
    IF held = None THEN ctx ELSE journal \o SubSeq(ctx, held + 1, Len(ctx))
CloseTurn ==
    /\ stage = "running" /\ stage' = "idle"
    /\ LET ctx == Stripped(context) IN
        /\ captured' = [got   |-> Speech(SubSeq(ctx, turnStart + 1, Len(ctx))),
                        ought |-> Speech(SubSeq(said, opened + 1, Len(said)))]
        /\ journal' = Restored(ctx)
    /\ context' = <<>> /\ held' = None /\ injected' = FALSE /\ turnStart' = 0 /\ known' = 0
    /\ UNCHANGED <<records, said, opened>>

(* /compact, between turns: whatever the size.                             *)
CompactNow ==
    /\ stage = "idle" /\ Foldable(journal) /\ Fold
    /\ UNCHANGED <<journal, stage, runVars, known, said, opened, captured>>

(* mark_reset: the context ends, and the records that index it.            *)
ResetRecords == <<>>
Reset ==
    /\ stage = "idle" /\ said # <<>>
    /\ journal' = <<>> /\ records' = ResetRecords /\ said' = <<>> /\ opened' = 0
    /\ captured' = NoCapture
    /\ UNCHANGED <<stage, runVars, known>>

(* A crash in the turn leaves the file: with the turn's message or without,*)
(* with the turn's record or without.                                      *)
Restart ==
    /\ stage # "idle" /\ stage' = "idle"
    /\ \E k \in {Len(journal) - 1, Len(journal)} :
        journal' = SubSeq(journal, 1, k) /\ said' = SubSeq(journal, 1, k)
    /\ \E m \in {known, Len(records)} : records' = SubSeq(records, 1, m)
    /\ context' = <<>> /\ held' = None /\ injected' = FALSE /\ turnStart' = 0 /\ known' = 0
    /\ opened' = 0 /\ captured' = NoCapture

JournalNext ==
    \/ OpenTurn \/ EnterTurn \/ SayText \/ CallTools \/ TakeMailbox \/ CloseTurn
    \/ CompactNow \/ Reset \/ Restart
JournalSpec == JournalInit /\ [][JournalNext]_journalVars

-----------------------------------------------------------------------------
(* Properties                                                              *)

Messages == [kind : Kinds, n : Nat]
JournalTypeOK ==
    /\ {journal, context, said} \subseteq Seq(Messages)
    /\ records \in Seq([first_kept_index : Nat \ {0}, covers : SUBSET (1..MaxMessages)])
    /\ stage \in {"idle", "compacting", "running"}
    /\ {held, turnStart, known, opened} \subseteq Nat
    /\ injected \in BOOLEAN
    /\ captured \in [got : Seq(Messages), ought : Seq(Messages)]

(* Whatever was compacted, recalled and run on in between, the conversation*)
(* that comes back from a turn is all that was said, in order, and nothing *)
(* else.                                                                   *)
JournalIsWhole == stage = "idle" => journal = said

(* No message falls between a summary and the window kept beside it: what  *)
(* the model is not shown, the summary it is shown accounts for.           *)
NothingFallsBetween ==
    1..Boundary(journal, records) \subseteq Covered

(* What a turn is captured as is what was said in it: no message of an     *)
(* earlier turn, none left out, no recalled memory.                        *)
CaptureIsTheTurn == captured.got = captured.ought

(* A batch that came with its reasoning is kept whole or folded whole: the *)
(* window never begins inside it, wherever the boundary would have fallen. *)
BatchStart(j, i) == BlockStart(j, NoResultAt(j, i - 1))
WindowIsLegal ==
    \A i \in Boundary(journal, records) + 1..Len(journal) :
        (/\ journal[i].kind \in {"call", "result"}
         /\ Is(journal[BatchStart(journal, i) + 1], "think"))
            => BatchStart(journal, i) >= Boundary(journal, records)

(* Both: what the model is shown leaves nothing out and may be sent.       *)
WindowIsSound == NothingFallsBetween /\ WindowIsLegal

(* context.rs:250: the window never begins in the middle of a tool block,  *)
(* so no result is kept without its call, with reasoning or without.       *)
ResultsKeepTheirCalls ==
    LET b == Boundary(journal, records) IN
    \A i \in b + 1..Len(journal) : Is(journal[i], "result") =>
        \E k \in b + 1..i : journal[k] = Msg("call", journal[i].n)
=============================================================================
