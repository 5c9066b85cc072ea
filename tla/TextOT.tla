------------------------------- MODULE TextOT -------------------------------
(***************************************************************************)
(* Plain-text replace ops (src/frontend/src/lib/collab/ot/text.ts; the     *)
(* backend keeps a copy in collab/ot/text.rs).  A text is a sequence, an   *)
(* op deletes "del" characters at the 0-based "index" and inserts "ins"    *)
(* there.                                                                  *)
(***************************************************************************)
EXTENDS Integers, SequencesExt, SeqLoops

Smaller(a, b) == IF a <= b THEN a ELSE b
Larger(a, b)  == IF a <= b THEN b ELSE a

Replace(index, del, ins) == [index |-> index, del |-> del, ins |-> ins]

\* What parseReplacePayload and parse_replace refuse.
IsNoop(op) == op.del = 0 /\ op.ins = <<>>

ApplyReplace(text, op) ==
    LET index == Smaller(op.index, Len(text))
        end   == Smaller(index + op.del, Len(text))
    IN  SubSeq(text, 1, index) \o op.ins \o SubSeq(text, end + 1, Len(text))

\* Mutant: an op behind the other one is not moved by what that one inserted.
TransformReplace_NoShift(op, against) ==
    IF against.index + against.del <= op.index
    THEN Replace(Larger(0, op.index - against.del), op.del, op.ins)
    ELSE op

\* The op as it reads after "against" was applied.
TransformReplace(op, against) ==
    LET aEnd == op.index + op.del
        bEnd == against.index + against.del
        bIns == Len(against.ins)
    IN  CASE bEnd <= op.index ->
               Replace(Larger(0, op.index - against.del + bIns), op.del, op.ins)
          [] bEnd > op.index /\ against.index >= aEnd -> op
          [] bEnd > op.index /\ against.index < aEnd /\ against.index <= op.index ->
               Replace(against.index + bIns,
                       Larger(0, op.del - (Smaller(aEnd, bEnd) - op.index)), op.ins)
          [] OTHER ->
               Replace(op.index,
                       (against.index - op.index) + Larger(0, aEnd - bEnd), op.ins)

TransformReplaceThrough(op, against) == Each(TransformReplace, op, against)

TransformOffset(offset, op) ==
    IF offset <= op.index THEN offset
    ELSE IF offset >= op.index + op.del THEN offset - op.del + Len(op.ins)
    ELSE op.index + Len(op.ins)

NoRange == [start |-> 0, end |-> 0]

\* transformRange; its null is the empty range.
TransformRange(r, op) ==
    LET moved == [start |-> TransformOffset(r.start, op),
                  end   |-> TransformOffset(r.end, op)]
    IN  IF r.end > r.start /\ moved.end > moved.start THEN moved ELSE NoRange

RangesOverlap(r, s) == r.start < s.end /\ r.end > s.start

CommonPrefix(s, t) ==
    CHOOSE n \in 0..Smaller(Len(s), Len(t)) :
        /\ SubSeq(s, 1, n) = SubSeq(t, 1, n)
        /\ n < Smaller(Len(s), Len(t)) => s[n + 1] # t[n + 1]

\* diffPlainText for two different texts: the common prefix goes first, the
\* common suffix takes only what is left of both.
DiffPlainText(before, after) ==
    LET start == CommonPrefix(before, after)
        tail  == CommonPrefix(Reverse(SubSeq(before, start + 1, Len(before))),
                              Reverse(SubSeq(after, start + 1, Len(after))))
    IN  Replace(start, Len(before) - tail - start,
                SubSeq(after, start + 1, Len(after) - tail))
=============================================================================
